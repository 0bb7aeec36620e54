------------------------------ MODULE MCTimeZone -------------------------------
(* Zones for TLC, with their mean time and their changes from late 2004 to      *)
(* October 2006: one north and one south of the equator, one without daylight   *)
(* saving time, and one where it is half an hour; and Paris in 1911, when it    *)
(* gave up its own time for that of Greenwich.                                  *)
EXTENDS TimeZone

Type(offset, dst) == [gmt_offset |-> offset, is_dst |-> dst]
Change(at, type) == [at |-> at, type |-> type]

NewYork == [types |-> <<Type(-17762, FALSE), Type(-14400, TRUE), Type(-18000, FALSE)>>,
            trans |-> <<Change(1099202400, 3), Change(1112511600, 2), Change(1130652000, 3),
                        Change(1143961200, 2), Change(1162101600, 3)>>]
Sydney == [types |-> <<Type(36292, FALSE), Type(39600, TRUE), Type(36000, FALSE)>>,
           trans |-> <<Change(1099152000, 2), Change(1111852800, 3), Change(1130601600, 2),
                       Change(1143907200, 3), Change(1162051200, 2)>>]
LordHowe == [types |-> <<Type(38180, FALSE), Type(39600, TRUE), Type(37800, FALSE)>>,
             trans |-> <<Change(1099150200, 2), Change(1111849200, 3), Change(1130599800, 2),
                         Change(1143903600, 3), Change(1162049400, 2)>>]
Paris == [types |-> <<Type(561, FALSE), Type(0, FALSE)>>,
          trans |-> <<Change(-1855958961, 2)>>]
China == [types |-> <<Type(28800, FALSE)>>, trans |-> <<>>]

MCZones == {NewYork, Sydney, LordHowe, Paris, China}

\* The range of testUtc of time_zone_test.cc, three years before and after the
\* epoch, a few days around the change of 1911, and two years with all the others.
MCClock == [z \in MCZones |->
    CASE z = China -> [first |-> -100000000, last |-> 100000000, tick |-> 2999]
      [] z = Paris -> [first |-> -1856131200, last |-> -1855785600, tick |-> 187]
      [] OTHER -> [first |-> 1104537600, last |-> 1167609600, tick |-> 1200]]
================================================================================

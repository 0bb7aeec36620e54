------------------------------- MODULE MCLogFile -------------------------------
(* Two walks in one run: a LogFile over seconds and lines, or one of its files  *)
(* over bytes, with a reader.                                                   *)
EXTENDS LogFile, FileParameters

VARIABLES
    walk,                   \* which of the two it is
    disk, buffer_, written_bytes_, failures, call,
    path, fd_, reading, content, file_size, err, n      \* the variables of FileUtil

Util == INSTANCE FileUtil

logFile == <<now, count_, start_of_period_, last_roll_, last_flush_, files, oldest,
             strays, setBack, appends>>
fileUtil == <<disk, buffer_, written_bytes_, failures, call,
              path, fd_, reading, content, file_size, err, n>>

InitWalk ==
    /\ walk \in {"seconds", "bytes"}
    /\ Init /\ Util!Init
    /\ walk = "seconds" => path = "file"
    /\ walk = "bytes" => now = 1

NextWalk ==
    /\ UNCHANGED walk
    /\ \/ walk = "seconds" /\ Next /\ UNCHANGED fileUtil
       \/ walk = "bytes" /\ Util!Next /\ UNCHANGED logFile

SpecWalk == InitWalk /\ [][NextWalk]_<<walk, logFile, fileUtil>>

\* The file holds every byte once and in order, but for one piece of at most a buffer for
\* each write that failed (FileUtil.cc:130-155), see FileUtil.
OnlyFailuresLose == Util!OnlyFailuresLose

\* A reader gets what it was promised (FileUtil.cc:42-88), see FileUtil.
ReaderSeesTheFile == Util!ReaderSeesTheFile
================================================================================

----------------------------- MODULE ProcessInfo ------------------------------
(***************************************************************************)
(* src/muduo/base/ProcessInfo.cc: what is read out of the texts of /proc.  *)
(* The kernel puts the name of the process into them as it is, and a       *)
(* program may give itself any name.  A text is a sequence of the words    *)
(* that matter: "(", ")", "Threads:", a number, anything else.             *)
(***************************************************************************)
EXTENDS Integers, SequencesExt

CONSTANTS Numbers       \* the words that are numbers

\* /proc/self/stat and /proc/self/status, of a process of that name.
Stat(name) == <<"pid", "(">> \o name \o <<")", "state", "ppid">>
Status(name, threads) == <<"Name:">> \o name \o <<"Pid:", "pid", "Threads:", threads, "SigQ:">>

\* std::string::find and rfind: the places where a word is.
Places(text, word) == {i \in DOMAIN text : text[i] = word}

\* Mutant of proc_name: the name ends at the first ')'.
ProcNameToFirst(stat) ==
    LET lp == Min(Places(stat, "("))
        rp == Min(Places(stat, ")"))
    IN IF lp < rp THEN SubSeq(stat, lp + 1, rp - 1) ELSE <<>>

\* proc_name(): from the first '(' to the last ')', or nothing.
proc_name(stat) ==
    LET lp == Min(Places(stat, "("))
        rp == Max(Places(stat, ")"))
    IN IF Places(stat, "(") # {} /\ Places(stat, ")") # {} /\ lp < rp
       THEN SubSeq(stat, lp + 1, rp - 1) ELSE <<>>

atoi(word) == IF word \in Numbers THEN word ELSE "0"

\* num_threads(): what atoi makes of the text after the first "Threads:".
num_threads(status) ==
    LET pos == Min(Places(status, "Threads:"))
    IN IF Places(status, "Threads:") = {} THEN "0" ELSE atoi(status[pos + 1])

------------------------------------------------------------------------------
\* proc_name() finds the name whatever brackets it contains, and num_threads() the
\* number unless the name itself contains "Threads:" (ProcessInfo.cc:139-143,220).
TextsAreRead(name, threads) ==
    /\ proc_name(Stat(name)) = name
    /\ Places(name, "Threads:") = {} => num_threads(Status(name, threads)) = threads
===============================================================================

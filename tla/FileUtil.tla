------------------------------- MODULE FileUtil -------------------------------
(***************************************************************************)
(* src/muduo/base/FileUtil.cc: an AppendFile that lines are written to     *)
(* through the buffer of its FILE, on a device that may fail for a while,  *)
(* and a ReadSmallFile that reads the same file as it grows, or something  *)
(* that is no file.  A byte is its number among all bytes of all lines.    *)
(*                                                                         *)
(* fwrite and fflush are those of glibc.  fwrite fills what space there is *)
(* in the buffer; when the line needs more, it writes the buffer to the    *)
(* device, then whole buffers from the caller's memory, and puts the rest  *)
(* into the buffer.  A write that the device does not take all of fails:   *)
(* fwrite then returns the bytes it has put into the buffer or written     *)
(* from the caller's memory, but the buffer is empty afterwards whatever   *)
(* of it was written.                                                      *)
(***************************************************************************)
EXTENDS FileParameters, SequencesExt

VARIABLES
    disk,           \* the bytes of the file
    buffer_,        \* the bytes in the buffer of fp_
    written_bytes_, \* AppendFile::written_bytes_
    failures,       \* history: how many writes to the device failed
    call,           \* the call of append(): len, the bytes of the line, 0 outside of
                    \* a call; n, those written; x, those of the present fwrite;
                    \* again, whether it is an fwrite of the loop; at, its next step
    path,           \* what ReadSmallFile is given: "file", "directory" or "missing"
    fd_,            \* ReadSmallFile::fd_: -1, 0 (stdin was closed) or 3
    reading,        \* new; open; in the loop of read_to_string; done with one of the reads
    content,        \* what it has read
    file_size,      \* what fstat has told it, or -1
    err,            \* what it returns: 0, or an errno
    n               \* the result of the last read or pread

appendFile == <<disk, buffer_, written_bytes_, failures, call>>
readSmallFile == <<path, fd_, reading, content, file_size, err, n>>
vars == <<disk, buffer_, written_bytes_, failures, call,
          path, fd_, reading, content, file_size, err, n>>

\* Values of errno.
ENOENT == 2
EISDIR == 21

NoCall == [len |-> 0, n |-> 0, x |-> 0, again |-> FALSE, at |-> "none"]

Init ==
    /\ disk = <<>> /\ buffer_ = <<>>
    /\ written_bytes_ = 0 /\ failures = 0
    /\ call = NoCall
    /\ path \in {"file", "directory", "missing"}
    /\ fd_ = -1 /\ reading = "new" /\ content = <<>>
    /\ file_size = -1 /\ err = 0 /\ n = 0

------------------------------------------------------------------------------
(* AppendFile.                                                              *)

Append_(len) ==
    /\ call = NoCall
    /\ written_bytes_ + len <= MaxBytes
    /\ call' = [NoCall EXCEPT !.len = len, !.at = "fill"]
    /\ UNCHANGED <<disk, buffer_, written_bytes_, failures, readSmallFile>>

\* k bytes from number b + 1 on.
Run(b, k) == [i \in 1..k |-> b + i]

\* Mutant of Start: every fwrite is given the line from its start.
StartOfLine == written_bytes_

\* write() is given log_line + n, remain.
Start == written_bytes_ + call.n
Left == call.len - call.n - call.x

\* The next k bytes of the present fwrite.
Part(k) == Run(Start + call.x, k)

\* Of these bytes the device takes the first k.
Device(bytes, k) ==
    /\ disk' = disk \o SubSeq(bytes, 1, k)
    /\ IF k = Len(bytes) THEN UNCHANGED failures
       ELSE failures < MaxFailures /\ failures' = failures + 1

\* The first fwrite of a FILE finds no space yet.
Space == IF written_bytes_ = 0 /\ ~call.again THEN 0 ELSE BufferSize - Len(buffer_)

\* fwrite fills the buffer.
Fill ==
    /\ call.at = "fill"
    /\ LET k == Min({Space, Left})
       IN /\ buffer_' = buffer_ \o Part(k)
          /\ call' = [call EXCEPT !.x = @ + k, !.at = IF k = Left THEN "return" ELSE "full"]
    /\ UNCHANGED <<disk, written_bytes_, failures, readSmallFile>>

\* fwrite writes the full buffer.
Overflow ==
    /\ call.at = "full"
    /\ \E k \in 0..Len(buffer_) :
          /\ Device(buffer_, k)
          /\ call' = [call EXCEPT !.at = IF k = Len(buffer_) THEN "blocks" ELSE "return"]
    /\ buffer_' = <<>>
    /\ UNCHANGED <<written_bytes_, readSmallFile>>

\* fwrite writes whole buffers of the line, and keeps the rest of it.
Blocks ==
    /\ call.at = "blocks"
    /\ LET rest == Left % BufferSize
           blocks == Part(Left - rest)
       IN \E k \in 0..(Left - rest) :
             /\ Device(blocks, k)
             /\ IF k = Left - rest
                THEN /\ buffer_' = Run(Start + call.x + k, rest)
                     /\ call' = [call EXCEPT !.x = @ + Left, !.at = "return"]
                ELSE /\ UNCHANGED buffer_
                     /\ call' = [call EXCEPT !.x = @ + k, !.at = "return"]
    /\ UNCHANGED <<written_bytes_, readSmallFile>>

\* fwrite returns.  append() goes on until the line is written, or until an fwrite
\* of its loop takes nothing: then the rest of the line is given up.  The length
\* of the line counts as written in any case.
WriteReturns ==
    /\ call.at = "return"
    /\ IF Left = 0 \/ (call.again /\ call.x = 0)
       THEN call' = NoCall /\ written_bytes_' = written_bytes_ + call.len
       ELSE /\ call' = [call EXCEPT !.n = @ + call.x, !.x = 0, !.again = TRUE, !.at = "fill"]
            /\ UNCHANGED written_bytes_
    /\ UNCHANGED <<disk, buffer_, failures, readSmallFile>>

\* flush(), and the fclose of the destructor.
Flush ==
    /\ call = NoCall
    /\ \E k \in 0..Len(buffer_) : Device(buffer_, k)
    /\ buffer_' = <<>>
    /\ UNCHANGED <<written_bytes_, call, readSmallFile>>

------------------------------------------------------------------------------
(* ReadSmallFile.                                                           *)

\* The constructor.
Open ==
    /\ reading = "new"
    /\ reading' = "open"
    /\ IF path = "missing" THEN fd_' = -1 /\ err' = ENOENT
                           ELSE fd_' \in {0, 3} /\ err' = 0
    /\ UNCHANGED <<appendFile, path, content, file_size, n>>

\* read_to_string, up to its loop; fstat is called when the caller wants the size.
ReadToString(wantsSize) ==
    /\ reading = "open"
    /\ IF fd_ < 0 THEN reading' = "string done" /\ UNCHANGED <<file_size, err>>
       ELSE /\ reading' = "loop"
            /\ file_size' = IF wantsSize /\ path = "file" THEN Len(disk) ELSE -1
            /\ err' = IF wantsSize /\ path = "directory" THEN EISDIR ELSE err
    /\ UNCHANGED <<appendFile, path, fd_, content, n>>

\* Mutant of to_read: a whole buffer is asked for.
ToReadWholeBuffer == kBuffSize

to_read == Min({MaxSize - Len(content), kBuffSize})

\* A round of the loop.  read() may give less than is there; it fails on a directory.
ReadSome ==
    /\ reading = "loop"
    /\ Len(content) < MaxSize
    /\ LET there == Min({to_read, Len(disk) - Len(content)})
       IN \/ /\ path = "file" /\ there > 0
             /\ n' \in 1..there
             /\ content' = content \o SubSeq(disk, Len(content) + 1, Len(content) + n')
             /\ UNCHANGED <<reading, err>>
          \/ /\ path = "file" /\ there = 0
             /\ n' = 0 /\ reading' = "string done"
             /\ UNCHANGED <<content, err>>
          \/ /\ path = "directory"
             /\ n' = -1 /\ err' = EISDIR /\ reading' = "string done"
             /\ UNCHANGED content
    /\ UNCHANGED <<appendFile, path, fd_, file_size>>

EndLoop ==
    /\ reading = "loop"
    /\ Len(content) >= MaxSize
    /\ reading' = "string done"
    /\ UNCHANGED <<appendFile, path, fd_, content, file_size, err, n>>

\* read_to_buffer: one pread from the start.  Its failure is not looked at; for a
\* descriptor 0 errno is returned, which may be that of any call before, or 0.
ReadToBuffer ==
    /\ reading = "open"
    /\ reading' = "buffer done"
    /\ \/ /\ fd_ > 0 /\ path = "file"
          /\ n' \in (IF disk = <<>> THEN {0} ELSE 1..Min({kBuffSize - 1, Len(disk)}))
          /\ content' = SubSeq(disk, 1, n')
          /\ UNCHANGED err
       \/ fd_ > 0 /\ path = "directory" /\ n' = -1 /\ UNCHANGED <<content, err>>
       \/ fd_ = 0 /\ err' \in {0, ENOENT} /\ UNCHANGED <<content, n>>
       \/ fd_ < 0 /\ err' = ENOENT /\ UNCHANGED <<content, n>>
    /\ UNCHANGED <<appendFile, path, fd_, file_size>>

\* The destructor closes the file, and the next one is opened.
Close ==
    /\ reading \in {"string done", "buffer done"}
    /\ reading' = "new" /\ fd_' = -1 /\ content' = <<>>
    /\ file_size' = -1 /\ err' = 0 /\ n' = 0
    /\ UNCHANGED <<appendFile, path>>

Writer == \/ \E len \in Lengths : Append_(len)
          \/ Fill \/ Overflow \/ Blocks \/ WriteReturns \/ Flush
Reader == \/ Open \/ (\E wantsSize \in BOOLEAN : ReadToString(wantsSize))
          \/ ReadSome \/ EndLoop \/ ReadToBuffer \/ Close

Next == Writer \/ Reader

Spec == Init /\ [][Next]_vars

------------------------------------------------------------------------------
\* The bytes that went to the file, and those that still have to.
Bytes == disk \o buffer_

\* The bytes that stdio has taken from append() so far are 1..Taken.
Taken == written_bytes_ + call.n + call.x

\* Those that are lost, and the last byte of each lost piece.
Missing == (1..Taken) \ ToSet(Bytes)
LostPieces == {b \in Missing : b + 1 \notin Missing}

\* However writes fail and are retried, the file holds the bytes in their order and
\* none twice; the writes that failed have lost at most one piece each, of at most a
\* buffer, so that no line is given up and nothing is lost without a failure
\* (FileUtil.cc:130-155).  A lost piece may be the front of a line.
OnlyFailuresLose ==
    /\ \A i, j \in DOMAIN Bytes : i < j => Bytes[i] < Bytes[j]
    /\ \A i \in DOMAIN Bytes : Bytes[i] \in 1..Taken
    /\ Cardinality(LostPieces) <= failures
    /\ Cardinality(Missing) <= failures * BufferSize

\* A reader that returns no error has the beginning of the file, at most MaxSize
\* bytes and as many as fstat has told it, however the file grows and however
\* little each read gives (FileUtil.cc:42-88).
ReaderSeesTheFile ==
    reading = "string done" /\ err = 0 =>
        /\ Len(content) <= MaxSize
        /\ IsPrefix(content, disk)
        /\ Len(content) >= Min({MaxSize, file_size})

\* What FileUtil.h:16,20 says of both functions: they return the errno, so that a
\* read that failed is not reported as a success.
ReadErrorIsReturned ==
    reading \in {"string done", "buffer done"} /\ err = 0 => n >= 0
===============================================================================

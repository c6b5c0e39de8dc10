------------------------------- MODULE Journal -------------------------------
(***************************************************************************)
(* The engine's command log, FileJournal (engine/journal.go): one JSON     *)
(* record per line, appended with one write and one fsync.                 *)
(*                                                                         *)
(* A line is the command it decodes to, or Corrupt.  A write that stops    *)
(* part-way leaves an unterminated last line, and the next write continues *)
(* that line.  Sequence numbers are counted by the open journal and are    *)
(* positions in the file only when the journal is opened.                  *)
(***************************************************************************)
EXTENDS Naturals, Sequences

CONSTANT Corrupt    \* a line that UnmarshalCommand refuses

VARIABLES
  file,       \* the lines of the file
  open,       \* the last line has no newline yet
  next        \* the next sequence number to assign

journalVars == <<file, open, next>>

JournalInit == file = <<>> /\ open = FALSE /\ next = 1

\* The file after writing text, a whole record or a part of one.
Written(text) ==
  IF open THEN [file EXCEPT ![Len(file)] = Corrupt] ELSE Append(file, text)

\* Append, successful: the command has sequence number next.
AppendOk(cmd) ==
  /\ file' = Written(cmd) /\ open' = FALSE
  /\ next' = next + 1

\* What a write that does not finish leaves: nothing, part of the record, or
\* all of it but the newline.
WriteBreaks(cmd) ==
  \/ UNCHANGED <<file, open>>
  \/ \E text \in {cmd, Corrupt} : file' = Written(text) /\ open' = TRUE

\* Append, failed: the write breaks, or it succeeds and the fsync fails.
AppendErr(cmd) ==
  /\ \/ WriteBreaks(cmd)
     \/ file' = Written(cmd) /\ open' = FALSE
  /\ UNCHANGED next

\* Replay gets through the file.
Readable == \A i \in DOMAIN file : file[i] # Corrupt

\* Mutant of OpenFileJournal: numbering starts over.
OpenFromOne == Readable /\ next' = 1 /\ UNCHANGED <<file, open>>

\* OpenFileJournal: numbering resumes after the existing records.
OpenFileJournal ==
  /\ Readable
  /\ next' = Len(file) + 1
  /\ UNCHANGED <<file, open>>

=============================================================================

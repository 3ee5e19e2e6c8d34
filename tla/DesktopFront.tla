---------------------------- MODULE DesktopFront ----------------------------
(***************************************************************************)
(* gui/conv2.pyw: a window that gives a text to conv2 and shows what comes *)
(* back.  Qt buffers what is written to the process, and calls the slots   *)
(* write_output() and write_errors() with what has arrived so far, in      *)
(* waitForFinished() or, when that has given up after 30 seconds, in the   *)
(* event loop.                                                             *)
(*                                                                         *)
(* conv2 prints Russian letters, of two bytes each.  A letter is the       *)
(* number of the run and its place; Bad is what fromUtf8() makes of half a *)
(* letter, Break the new paragraph of appendPlainText().                   *)
(***************************************************************************)
EXTENDS Integers, Sequences, FiniteSets

CONSTANTS MaxRuns,    \* how often the button is pressed
          MaxChars,   \* letters that conv2 prints, at most
          MaxErrors   \* messages on its standard error, at most

VARIABLES run,       \* presses of the button
          len,       \* letters that conv2 prints in this run
          proc,      \* self.p: "none", "running" or "done"
          printed,   \* bytes printed by it
          taken,     \* bytes read from it
          wait,      \* the window is in process()
          output,    \* self.output
          shown,     \* self.ui.output
          errors,    \* self.ui.errors, as the runs of its messages
          cut        \* the letters whose bytes came in two chunks

vars == <<run, len, proc, printed, taken, wait, output, shown, errors, cut>>

Bad == <<0, 0>>
Break == <<0, 1>>

Init == /\ run = 0 /\ len = 0 /\ proc = "none"
        /\ printed = 0 /\ taken = 0
        /\ wait = FALSE
        /\ output = <<>> /\ shown = <<>> /\ errors = <<>>
        /\ cut = {}

-----------------------------------------------------------------------------
(* The window.                                                             *)

\* self.output is not emptied.
BugProcess(n, starts) ==
  /\ ~wait /\ run < MaxRuns
  /\ run' = run + 1 /\ len' = n
  /\ proc' = IF starts THEN "running" ELSE "none"
  /\ printed' = 0 /\ taken' = 0 /\ cut' = {}
  /\ wait' = TRUE
  /\ shown' = <<>> /\ errors' = <<>>
  /\ UNCHANGED output

\* process() up to waitForFinished().  A process that is still there is killed with its
\* QProcess, and what it printed is not read any more.
Process(n, starts) ==
  /\ ~wait /\ run < MaxRuns
  /\ run' = run + 1 /\ len' = n
  /\ proc' = IF starts THEN "running" ELSE "none"
  /\ printed' = 0 /\ taken' = 0 /\ cut' = {}
  /\ wait' = TRUE
  /\ output' = <<>> /\ shown' = <<>> /\ errors' = <<>>

\* waitForFinished() is over: all is read, or there is no process, or it takes too long.
Finished == /\ wait
            /\ \/ proc = "done" /\ taken = printed
               \/ proc = "none"
               \/ proc = "running"
            /\ wait' = FALSE
            /\ shown' = output
            /\ UNCHANGED <<run, len, proc, printed, taken, output, errors, cut>>

\* QString.fromUtf8() of the bytes from a + 1 to b.
Decode(a, b) ==
  LET first == (a + 1) \div 2
  IN  (IF a % 2 = 1 THEN <<Bad>> ELSE <<>>)
        \o [k \in 1..b \div 2 - first |-> <<run, first + k>>]
        \o (IF b % 2 = 1 THEN <<Bad>> ELSE <<>>)

\* write_output(): what has arrived, up to byte b.
WriteOutput(b) ==
  /\ proc # "none" /\ b \in taken + 1..printed
  /\ taken' = b
  /\ LET new == Decode(taken, b)
     IN  /\ shown' = IF shown = <<>> THEN new ELSE shown \o <<Break>> \o new
         /\ output' = output \o new
  /\ cut' = IF b % 2 = 1 THEN cut \cup {(b + 1) \div 2} ELSE cut
  /\ UNCHANGED <<run, len, proc, printed, wait, errors>>

\* write_errors(): one more message of check() in conv2.
WriteErrors == /\ proc # "none" /\ Len(errors) < MaxErrors
               /\ errors' = Append(errors, run)
               /\ UNCHANGED <<run, len, proc, printed, taken, wait, output, shown, cut>>

-----------------------------------------------------------------------------
(* conv2.                                                                  *)

\* A buffer of the C library is written to the pipe: it may end within a letter.
Print_(b) == /\ proc = "running" /\ b \in printed + 1..2 * len
             /\ printed' = b
             /\ UNCHANGED <<run, len, proc, taken, wait, output, shown, errors, cut>>

Exit == /\ proc = "running" /\ printed = 2 * len
        /\ proc' = "done"
        /\ UNCHANGED <<run, len, printed, taken, wait, output, shown, errors, cut>>

Next == \/ \E n \in 0..MaxChars, starts \in BOOLEAN : Process(n, starts)
        \/ Finished
        \/ \E b \in 1..2 * MaxChars : WriteOutput(b) \/ Print_(b)
        \/ WriteErrors
        \/ Exit

Spec == Init /\ [][Next]_vars

-----------------------------------------------------------------------------
(* Properties.                                                             *)

\* A window never shows a letter or a message of an earlier text: what a run left behind,
\* also one that waitForFinished() gave up on, does not get into the next one.
OwnResult == /\ \A k \in DOMAIN output : output[k][1] \in {0, run}
             /\ \A k \in DOMAIN shown : shown[k][1] \in {0, run}
             /\ \A k \in DOMAIN errors : errors[k] = run

Letter(x) == x[1] # 0
Kept == SelectSeq([k \in 1..taken \div 2 |-> <<run, k>>], LAMBDA x : x[2] \notin cut)

\* Every letter that was read is in the output once and in order, but those whose bytes came
\* in two chunks; of each of these two halves are left.  The window shows the same, new
\* paragraphs apart.
LettersKept == LET half == IF taken % 2 = 1 THEN 1 ELSE 0
               IN  /\ SelectSeq(output, Letter) = Kept
                   /\ Len(output) = Len(Kept) + 2 * Cardinality(cut) - half
                   /\ SelectSeq(shown, LAMBDA x : x # Break) = output
=============================================================================

------------------------------ MODULE WebFront ------------------------------
(***************************************************************************)
(* A request to the page of the stemmer: web/controller.py starts          *)
(* web/1.sh with two pipes (web/stem_result.py) and stemmer2 in it.        *)
(* StemResult writes the whole text before it reads; stemmer2 reads its    *)
(* input in blocks, and its output goes through a buffer of the C library  *)
(* to a pipe of bounded size.                                              *)
(*                                                                         *)
(* The text is a number of units, and a unit makes Expand units of output. *)
(***************************************************************************)
EXTENDS Integers

CONSTANTS MaxText,   \* length of the longest text
          Expand,    \* units of output for a unit of input
          Pipe,      \* capacity of a pipe
          Block,     \* what the scanner reads at once
          OutBuf     \* size of the buffer of the output

Sane == /\ MaxText \in Nat
        /\ Expand \in Nat \ {0} /\ Pipe \in Nat \ {0}
        /\ Block \in Nat \ {0} /\ OutBuf \in Nat \ {0}

VARIABLES text,      \* length of txt_from
          web,       \* "write", "read", "page" or "error"
          left,      \* what StemResult has still to write
          toChild,   \* in the pipe to stemmer2
          child,     \* "start", "read", "stem", "flush", "exit"
          block,     \* read into the scanner, and not yet taken from there
          made,      \* in the buffer of the output
          toWeb,     \* in the pipe back
          got,       \* what StemResult has read
          failed     \* 1.sh did not come to run stemmer2

vars == <<text, web, left, toChild, child, block, made, toWeb, got, failed>>

TypeOK == /\ text \in 0..MaxText /\ left \in 0..MaxText
          /\ web \in {"write", "read", "page", "error"}
          /\ child \in {"start", "read", "stem", "flush", "exit"}
          /\ toChild \in 0..Pipe /\ toWeb \in 0..Pipe
          /\ block \in 0..Block /\ made \in 0..OutBuf + Expand
          /\ got \in 0..MaxText * Expand
          /\ failed \in BOOLEAN

\* popen2(): the child runs beside StemResult.
Init == /\ text \in 0..MaxText
        /\ web = "write" /\ left = text
        /\ toChild = 0 /\ toWeb = 0
        /\ child = "start" /\ block = 0 /\ made = 0
        /\ got = 0 /\ failed = FALSE

-----------------------------------------------------------------------------
(* StemResult.                                                             *)

\* sout.write(): as much as the pipe takes, and waits.  When the child is gone, an exception.
Write == /\ web = "write" /\ left > 0
         /\ IF child = "exit" THEN web' = "error" /\ UNCHANGED <<left, toChild>>
            ELSE /\ toChild < Pipe
                 /\ left' = left - 1 /\ toChild' = toChild + 1
                 /\ UNCHANGED web
         /\ UNCHANGED <<text, child, block, made, toWeb, got, failed>>

\* sout.close().
CloseOut == /\ web = "write" /\ left = 0
            /\ web' = "read"
            /\ UNCHANGED <<text, left, toChild, child, block, made, toWeb, got, failed>>

\* for i in sin: until the end of the file.
Read == /\ web = "read"
        /\ IF toWeb > 0 THEN got' = got + toWeb /\ toWeb' = 0 /\ UNCHANGED web
           ELSE child = "exit" /\ web' = "page" /\ UNCHANGED <<got, toWeb>>
        /\ UNCHANGED <<text, left, toChild, child, block, made, failed>>

-----------------------------------------------------------------------------
(* 1.sh and stemmer2.                                                      *)

\* The shell runs stemmer2, or cannot.
Start(ok) == /\ child = "start"
             /\ child' = IF ok THEN "read" ELSE "exit"
             /\ failed' = ~ok
             /\ UNCHANGED <<text, web, left, toChild, block, made, toWeb, got>>

\* The scanner fills a block: it waits until the block is full or the input ends.
Fill == /\ child = "read" /\ block < Block /\ toChild > 0
        /\ LET n == IF toChild < Block - block THEN toChild ELSE Block - block
           IN  block' = block + n /\ toChild' = toChild - n
        /\ UNCHANGED <<text, web, left, child, made, toWeb, got, failed>>

Eof == toChild = 0 /\ web # "write"

\* A block is there, or what was left; at the end of an empty one the program ends.
Scan == /\ child = "read"
        /\ block = Block \/ Eof
        /\ child' = IF block = 0 THEN "flush" ELSE "stem"
        /\ UNCHANGED <<text, web, left, toChild, block, made, toWeb, got, failed>>

\* A unit is taken and its output printed; after the last one the next block is read.
Print_ == /\ child = "stem" /\ made < OutBuf
          /\ block > 0
          /\ block' = block - 1
          /\ made' = made + Expand
          /\ child' = IF block = 1 THEN "read" ELSE "stem"
          /\ UNCHANGED <<text, web, left, toChild, toWeb, got, failed>>

\* A full buffer is written, and at exit what is left; the pipe back takes what it has room for.
Flush == /\ \/ child \in {"stem", "read"} /\ made >= OutBuf
            \/ child = "flush" /\ made > 0
         /\ toWeb < Pipe
         /\ toWeb' = toWeb + 1 /\ made' = made - 1
         /\ UNCHANGED <<text, web, left, toChild, child, block, got, failed>>

Exit == /\ child = "flush" /\ made = 0
        /\ child' = "exit"
        /\ UNCHANGED <<text, web, left, toChild, block, made, toWeb, got, failed>>

\* The request is over.
Over == web \in {"page", "error"} /\ UNCHANGED vars

Web == Write \/ CloseOut \/ Read
Child == Start(TRUE) \/ Start(FALSE) \/ Fill \/ Scan \/ Print_ \/ Flush \/ Exit
Next == Web \/ Child \/ Over

\* Both processes run when they can.
Spec == Init /\ [][Next]_vars /\ WF_vars(Web) /\ WF_vars(Child)

-----------------------------------------------------------------------------
(* Properties.                                                             *)

\* Nothing of the text gets lost on its way through the two pipes and the three buffers, and
\* a page with a result has all of it.
ResultWhole ==
  /\ ~failed => (left + toChild + block) * Expand + made + toWeb + got = text * Expand
  /\ web = "page" /\ ~failed => got = text * Expand

\* Every request ends, with a page or an error.
Served == <>(web \in {"page", "error"})
=============================================================================

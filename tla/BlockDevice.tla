----------------------------- MODULE BlockDevice -----------------------------
(***************************************************************************)
(* What a USB disk promises its host: one command at a time, answered with *)
(* what it asked for and how it went, and blocks that change only by       *)
(* commands that address them.  Some commands are never answered: the host  *)
(* gives them up.                                                          *)
(***************************************************************************)
EXTENDS Integers, Sequences

CONSTANTS
    Commands,            \* records with the fields op, lba, n
    Addressed(_),        \* the blocks that a command writes
    Content(_, _),       \* what it writes there
    IsReply(_, _, _, _), \* what a reply to it may be, given the blocks and sense data
    SenseAfter(_, _),    \* what it makes of the sense data
    Refused(_),
    Unanswered(_),
    Blank,               \* the blocks at first
    None

VARIABLES blocks, sense, cmd, answer

vars == <<blocks, sense, cmd, answer>>

(* No answer yet, and nothing outstanding *)
Init ==
    /\ blocks = Blank /\ sense = "none"
    /\ cmd = None /\ answer = None

Issue(c) ==
    /\ cmd = None
    /\ cmd' = c /\ answer' = None
    /\ UNCHANGED <<blocks, sense>>

(* Some of the blocks are written, in any order. *)
Perform ==
    /\ cmd # None
    /\ \E some \in SUBSET Addressed(cmd) :
          blocks' = [ b \in DOMAIN blocks |->
                        IF b \in some THEN Content(cmd, b) ELSE blocks[b] ]
    /\ sense' \in {sense, SenseAfter(cmd, sense)}
    /\ UNCHANGED <<cmd, answer>>

Answer ==
    /\ cmd # None /\ ~Unanswered(cmd)
    /\ \A b \in Addressed(cmd) : blocks[b] = Content(cmd, b)
    /\ sense = SenseAfter(cmd, sense)
    /\ cmd' = None
    /\ answer'.to = cmd
    /\ IsReply(cmd, blocks, sense, answer'.data)
    /\ answer'.status = IF Refused(cmd) THEN "failed" ELSE "passed"
    /\ UNCHANGED <<blocks, sense>>

GiveUp ==
    /\ cmd # None /\ Unanswered(cmd)
    /\ cmd' = None /\ answer' = None
    /\ UNCHANGED <<blocks, sense>>

Next == (\E c \in Commands : Issue(c)) \/ Perform \/ Answer \/ GiveUp

Spec == Init /\ [][Next]_vars
=============================================================================

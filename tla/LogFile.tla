------------------------------- MODULE LogFile -------------------------------
(***************************************************************************)
(* What the asynchronous log-file writer (drivers/fat32_log.h) promises    *)
(* its caller: one new file that grows by the sectors it accepted, in      *)
(* order and each read back from the card, ends with at most one short     *)
(* sector, may have its first sector rewritten, and is closed once.        *)
(* Between the calls the card works; it may fail at any time, and power    *)
(* may be lost.                                                            *)
(***************************************************************************)
EXTENDS Naturals, Sequences

CONSTANTS
    Sector,    \* the contents of a sector
    None       \* no sector

VARIABLES
    phase,     \* fatlog_t.phase
    op,        \* what a busy writer does: "append" or "patch", else "none"
    pend,      \* the accepted sector
    short,     \* is_short_final
    content    \* the verified sectors of the file, as its chain would be read

vars == <<phase, op, pend, short, content>>

Phase == {"IDLE", "PREPARING", "READY", "WRITING", "CLOSING", "DONE", "ERROR"}
Working == {"PREPARING", "WRITING", "CLOSING"}
At(p) == phase = p /\ op = "none" /\ pend = None

Init == At("IDLE") /\ short = FALSE /\ content = <<>>

Idle == op' = "none" /\ pend' = None

\* fatlog_start(): a new file.
Start == /\ phase \in {"IDLE", "DONE", "ERROR"}
         /\ phase' = "PREPARING" /\ short' = FALSE /\ content' = <<>>
         /\ Idle

Prepared == /\ phase = "PREPARING" /\ phase' = "READY"
            /\ UNCHANGED <<op, pend, short, content>>

\* fatlog_write() accepts a sector; last: it is shorter than 512 bytes.
Write(s, last) == /\ phase = "READY" /\ ~short
                  /\ phase' = "WRITING" /\ op' = "append" /\ pend' = s
                  /\ short' = last
                  /\ UNCHANGED content

\* fatlog_rewrite_first_sector() accepts a sector.
Rewrite(s) == /\ phase = "READY" /\ content # <<>>
              /\ phase' = "WRITING" /\ op' = "patch" /\ pend' = s
              /\ UNCHANGED <<short, content>>

\* The rewritten sector is on the card, not yet read back.
Overwrite == /\ phase = "WRITING" /\ op = "patch"
             /\ content' = [content EXCEPT ![1] = pend]
             /\ UNCHANGED <<phase, op, pend, short>>

\* The accepted sector is on the card and read back.
Stored == /\ phase = "WRITING" /\ phase' = "READY"
          /\ content' = IF op = "append" THEN Append(content, pend)
                                         ELSE [content EXCEPT ![1] = pend]
          /\ Idle /\ UNCHANGED short

\* fatlog_close()
Close == /\ phase = "READY" /\ content # <<>>
         /\ phase' = "CLOSING"
         /\ UNCHANGED <<op, pend, short, content>>

Closed == /\ phase = "CLOSING" /\ phase' = "DONE"
          /\ UNCHANGED <<op, pend, short, content>>

\* set_error(): the sector on its way is not in the file.
Fail == /\ phase \in Working /\ phase' = "ERROR"
        /\ Idle /\ UNCHANGED <<short, content>>

\* The controller restarts, or the caller clears the writer's state.
Forget == phase' = "IDLE" /\ Idle /\ short' = FALSE /\ content' = <<>>

Next == \/ Start \/ Prepared \/ Overwrite \/ Stored \/ Close \/ Closed
        \/ Fail \/ Forget
        \/ \E s \in Sector, last \in BOOLEAN : Write(s, last)
        \/ \E s \in Sector : Rewrite(s)

Spec == Init /\ [][Next]_vars
=============================================================================

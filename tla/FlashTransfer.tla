---------------------------- MODULE FlashTransfer ----------------------------
(***************************************************************************)
(* What a transfer promises its caller, whatever the programmer and the    *)
(* protocol: cmd_read_nand and cmd_write_nand with everything between the  *)
(* caller and the flash left out.  A write plans the content of a set of   *)
(* blocks; only planned blocks are ever programmed; a write reported as    *)
(* done has put the plan on the flash (trusted: it verified, or the medium *)
(* does not corrupt silently); and the flash then stays as it is until the *)
(* next transfer.  A transfer that is not reported as done may have        *)
(* programmed any planned block with anything, and may still do so after   *)
(* it was given up.                                                        *)
(***************************************************************************)
EXTENDS Naturals

CONSTANTS Addr, Word

VARIABLES flash,    \* content of each block
          plan,     \* what the current write is to put where
          trusted,  \* whether success speaks for the content
          verdict   \* "none", "busy", "ok" or "failed"

vars == <<flash, plan, trusted, verdict>>

NoPlan == << >>

Init == /\ flash \in [Addr -> Word]
        /\ plan = NoPlan
        /\ trusted = FALSE
        /\ verdict = "none"

Begin == /\ verdict # "busy"
         /\ verdict' = "busy"
         /\ plan' = NoPlan
         /\ trusted' \in BOOLEAN
         /\ UNCHANGED flash

Plan == /\ verdict = "busy"
        /\ plan = NoPlan
        /\ DOMAIN plan' \subseteq Nat
        /\ \A a \in DOMAIN plan' : plan'[a] \in Word
        /\ trusted' \in BOOLEAN
        /\ UNCHANGED <<flash, verdict>>

Program(a) == /\ verdict # "ok"
              /\ a \in DOMAIN plan
              /\ \E w \in Word : flash' = [flash EXCEPT ![a] = w]
              /\ UNCHANGED <<plan, trusted, verdict>>

Succeed == /\ verdict = "busy"
           /\ trusted => \A a \in DOMAIN plan : a \in Addr /\ flash[a] = plan[a]
           /\ verdict' = "ok"
           /\ UNCHANGED <<flash, plan, trusted>>

Fail == /\ verdict = "busy"
        /\ verdict' = "failed"
        /\ UNCHANGED <<flash, plan, trusted>>

Next == Begin \/ Plan \/ (\E a \in Addr : Program(a)) \/ Succeed \/ Fail

Spec == Init /\ [][Next]_vars
=============================================================================

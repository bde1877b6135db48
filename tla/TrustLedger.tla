----------------------------- MODULE TrustLedger -----------------------------
(***************************************************************************)
(* What the bridge promises about device trust, without its steps: a set   *)
(* of trusted phones, and a set of connections each online as one phone.   *)
(* Admission is granted only to a trusted phone, and a revocation removes  *)
(* the trust and every connection of the phone in ONE step.                *)
(* internal/bridge/server.go splits the revocation into a disk commit, a   *)
(* generation bump and a series of closes, and an admission into six       *)
(* steps; Admission.tla shows that it still implements this module.        *)
(*                                                                         *)
(* What it does not promise is explicit too: trust removed from outside    *)
(* (Forget) takes no connection along.  The connections it misses are      *)
(* remembered, they are the only ones ever online without trust, and none  *)
(* is added to them afterwards.                                            *)
(***************************************************************************)
CONSTANTS
    Phones,     \* device identities
    Conns       \* connection slots

VARIABLES
    trusted,    \* the phones the ledger trusts
    online,     \* pairs <<c, p>>: connection c is admitted as phone p
    missed      \* pairs <<c, p>>: c passed as p before p's trust was taken from outside

ledgerVars == <<trusted, online, missed>>

LedgerInit ==
    /\ trusted \in SUBSET Phones
    /\ online = {}
    /\ missed = {}

\* A phone is paired; its connections are those of a trusted phone again.
Pair(p) ==
    /\ trusted' = trusted \cup {p}
    /\ missed' = {x \in missed : x[2] # p}
    /\ UNCHANGED online

\* A connection is admitted as a phone that is trusted at this moment, or was when the
\* connection asked and has been forgotten since.
Admit(c, p) ==
    /\ p \in trusted \/ <<c, p>> \in missed
    /\ online' = online \cup {<<c, p>>}
    /\ UNCHANGED <<trusted, missed>>

\* A phone loses its trust and, in the same step, all of its connections.
Revoke(p) ==
    /\ trusted' = trusted \ {p}
    /\ online' = {x \in online : x[2] # p}
    /\ UNCHANGED missed

\* A phone loses its trust from outside: its connections stay and are missed, with
\* others that are on their way in.
Forget(p) ==
    /\ p \in trusted
    /\ trusted' = trusted \ {p}
    /\ \E others \in SUBSET Conns :
        missed' = missed \cup {x \in online : x[2] = p} \cup (others \X {p})
    /\ UNCHANGED online

\* Some connections end for a reason of their own. One that stays online stays missed.
Leave ==
    /\ online' \in SUBSET online
    /\ missed' \in SUBSET missed
    /\ (missed \ missed') \cap online' = {}
    /\ UNCHANGED trusted

LedgerNext ==
    \/ \E p \in Phones : Pair(p) \/ Revoke(p) \/ Forget(p)
    \/ \E c \in Conns, p \in Phones : Admit(c, p)
    \/ Leave

LedgerSpec == LedgerInit /\ [][LedgerNext]_ledgerVars
==============================================================================

---------------------------- MODULE CapacityProofs ----------------------------
(***************************************************************************)
(* Theorems about Capacity for any set of cases, any limits, manifests and  *)
(* repositories and any number of faults, as long as no lease lapses that   *)
(* is still relied on: the sessions that run never exceed the limits, and   *)
(* remediations that share a resource key never run at the same time.       *)
(*                                                                          *)
(* The queue of waiting cases decides who is denied a slot and plays no     *)
(* part in either.  Type correctness comes last and needs no assumption on  *)
(* lapsing leases: it says that a case waits in one place of the queue.     *)
(***************************************************************************)
EXTENDS Capacity, SetBounds, SequenceTheorems

SlotKinds == {"TRIAGE", "REMEDIATION"}

\* The rows without the queue; no lease has lapsed.
Rows ==
    /\ state \in [Cases -> CaseState]
    /\ pc \in [Cases -> PCs]
    /\ att \in [Cases -> {"none"} \cup Unfinished \cup Finished]
    /\ lease \in [Cases -> [Names -> {"none", "live"}]]
    /\ bound \in [Cases -> BOOLEAN]

\* An attempt in an active status belongs to a case that runs a session or ends one,
\* and a case that ends a session has one.
AttemptInPhase(c) ==
    /\ att[c] # "none" => state[c] \in {"TRIAGING", "REMEDIATING"} \cup TERMINATION_PENDING_STATES
    /\ state[c] \in TERMINATION_PENDING_STATES => att[c] # "none"

\* A case that waits for its approval has no job, and a slot is held in the phase it is for.
SlotInPhase(c) ==
    /\ state[c] = "AWAITING_REMEDIATION_APPROVAL" =>
         pc[c] = "idle" /\ lease[c]["TRIAGE"] = "none"
    /\ lease[c]["TRIAGE"] = "live" => state[c] \notin REMEDIATION_PHASE_STATES
    /\ lease[c]["REMEDIATION"] = "live" => state[c] \in REMEDIATION_PHASE_STATES

\* What a job may rely on where it stands.
JobInPlace(c) ==
    /\ pc[c] \in {"settled", "freed", "finish"} => att[c] \notin Unfinished
    /\ pc[c] \in {"freed", "finish"} => \A k \in SlotKinds : lease[c][k] = "none"
    /\ pc[c] = "terminate" => state[c] \in TERMINATION_PENDING_STATES
    /\ pc[c] \in {"session", "timeout"} => att[c] # "none"
    /\ pc[c] = "create" => att[c] = "none" /\ ~bound[c]
    /\ pc[c] = "create" /\ state[c] = "TRIAGE_CREATE_INTENT" => lease[c]["TRIAGE"] = "live"
    /\ pc[c] = "create" /\ state[c] = "REMEDIATION_CREATE_INTENT" =>
         lease[c]["REMEDIATION"] = "live"

\* A running session has its slot, and the slot carries its attempt; a session that is
\* over has lost its slot, or the slot can be told to be its.
SlotOfSession(c) ==
    /\ att[c] \in Unfinished => lease[c][KindOf(state[c])] = "live" /\ bound[c]
    /\ att[c] \in Finished => bound[c] \/ \A k \in SlotKinds : lease[c][k] = "none"

CaseInv(c) == AttemptInPhase(c) /\ SlotInPhase(c) /\ JobInPlace(c) /\ SlotOfSession(c)

\* Is c's slot of kind k used by a running session, or kept for one that is to be
\* created?  A slot that was forced for an attempt that is over is neither, so in_use()
\* may exceed the limit where these cases do not.
Reserves(c, k) ==
    /\ lease[c][k] = "live"
    /\ att[c] \in Unfinished \/ (att[c] = "none" /\ ~bound[c])

Reserved(k) == {c \in Cases : Reserves(c, k)}

InRepository(S, c) == {d \in S : Repository[d] = Repository[c]}

ReservedWithinLimits ==
    /\ \A k \in SlotKinds : Cardinality(Reserved(k)) <= Limit[k]
    /\ \A c \in Cases : Cardinality(InRepository(Reserved("REMEDIATION"), c)) <= PerRepository

\* The inductive invariant of SessionsWithinLimit.
SlotInv == Rows /\ (\A c \in Cases : CaseInv(c)) /\ ReservedWithinLimits
-----------------------------------------------------------------------------
(***************************************************************************)
(* Cardinalities.                                                           *)
(***************************************************************************)
LEMMA CasesFinite ==
    ASSUME NEW S, S \subseteq Cases
    PROVE  IsFiniteSet(S)
BY FS_Subset, ConstantsAssumption
-----------------------------------------------------------------------------
(***************************************************************************)
(* A step changes the rows of the cases in S; of the others it may free,    *)
(* with reconcile_finished(), the slots of attempts that are over.          *)
(***************************************************************************)
Kept(d) == lease'[d] = lease[d] /\ bound'[d] = bound[d]

FreedIfOver(d) == lease'[d] = Reconciled[d] /\ bound'[d] = StillBound[d]

Others(S) ==
    \A d \in Cases \ S :
        /\ state'[d] = state[d] /\ pc'[d] = pc[d] /\ att'[d] = att[d]
        /\ Kept(d) \/ FreedIfOver(d)

LEMMA ReconciledRow ==
    ASSUME Rows, NEW d \in Cases
    PROVE  /\ Reconciled[d] \in [Names -> {"none", "live"}]
           /\ StillBound[d] <=> bound[d] /\ att[d] \in Unfinished
           /\ bound[d] /\ att[d] \notin Unfinished =>
                \A k \in SlotKinds : Reconciled[d][k] = "none"
           /\ ~(bound[d] /\ att[d] \notin Unfinished) => Reconciled[d] = lease[d]
           /\ \A n \in Names \ SlotKinds : Reconciled[d][n] = lease[d][n]
BY DEF Rows, Reconciled, StillBound, SlotKinds, Names, Kinds

\* Freeing the slots of an attempt that is over disturbs nothing, also when the case's
\* job goes on to a step that relies on no slot.
LEMMA FreedRow ==
    ASSUME Rows, NEW d \in Cases, CaseInv(d), state'[d] = state[d], att'[d] = att[d],
           pc'[d] \in {pc[d], "idle"} \/ (pc[d] # "idle" /\ pc'[d] \in {"probing", "run"}),
           bound'[d] <=> StillBound[d],
           \A k \in SlotKinds : lease'[d][k] = Reconciled[d][k]
    PROVE  CaseInv(d)' /\ \A k \in SlotKinds : Reserves(d, k)' <=> Reserves(d, k)
<1>1. CASE bound[d] /\ att[d] \notin Unfinished
  <2>1. ~bound'[d] /\ \A k \in SlotKinds : lease'[d][k] = "none"
    BY <1>1, ReconciledRow
  <2> QED
    BY <1>1, <2>1
    DEF CaseInv, AttemptInPhase, SlotInPhase, JobInPlace, SlotOfSession, Reserves, SlotKinds
<1>2. CASE ~(bound[d] /\ att[d] \notin Unfinished)
  <2>1. (bound'[d] <=> bound[d]) /\ \A k \in SlotKinds : lease'[d][k] = lease[d][k]
    BY <1>2, ReconciledRow DEF Rows
  <2>2. AttemptInPhase(d)' /\ SlotInPhase(d)' /\ SlotOfSession(d)'
    BY <2>1 DEF CaseInv, AttemptInPhase, SlotInPhase, SlotOfSession, SlotKinds, KindOf
  <2>3. JobInPlace(d)'
    BY <2>1 DEF CaseInv, JobInPlace, SlotKinds
  <2>4. \A k \in SlotKinds : Reserves(d, k)' <=> Reserves(d, k)
    BY <2>1 DEF Reserves
  <2> QED
    BY <2>2, <2>3, <2>4 DEF CaseInv
<1> QED
  BY <1>1, <1>2

LEMMA OtherRow ==
    ASSUME SlotInv, NEW S, Others(S), NEW d \in Cases \ S
    PROVE  CaseInv(d)' /\ \A k \in SlotKinds : Reserves(d, k)' <=> Reserves(d, k)
<1>1. state'[d] = state[d] /\ pc'[d] = pc[d] /\ att'[d] = att[d]
  BY DEF Others
<1>2. CaseInv(d) /\ Rows
  BY DEF SlotInv
<1>3. CASE Kept(d)
  BY <1>1, <1>2, <1>3
  DEF Kept, CaseInv, AttemptInPhase, SlotInPhase, JobInPlace, SlotOfSession, Reserves
<1>4. CASE FreedIfOver(d)
  BY <1>1, <1>2, <1>4, FreedRow DEF FreedIfOver
<1> QED
  BY <1>3, <1>4 DEF Others

\* A step that reserves no new slot.
LEMMA NoNewSlot ==
    ASSUME SlotInv, NEW S, Others(S), Rows', \A c \in S : CaseInv(c)',
           \A c \in S : \A k \in SlotKinds : Reserves(c, k)' => Reserves(c, k)
    PROVE  SlotInv'
<1>1. \A d \in Cases : CaseInv(d)'
  BY OtherRow
<1>2. \A k \in SlotKinds : Reserved(k)' \subseteq Reserved(k)
  BY OtherRow DEF Reserved
<1>3. \A k \in SlotKinds : Cardinality(Reserved(k)') <= Limit[k]
  <2> TAKE k \in SlotKinds
  <2>1. IsFiniteSet(Reserved(k)) /\ Limit[k] \in Nat
    BY CasesFinite, ConstantsAssumption DEF Reserved, SlotKinds, Kinds
  <2>2. Cardinality(Reserved(k)) <= Limit[k]
    BY DEF SlotInv, ReservedWithinLimits
  <2> QED
    BY <1>2, <2>1, <2>2, Subsets
<1>4. \A d \in Cases : Cardinality(InRepository(Reserved("REMEDIATION")', d)) <= PerRepository
  <2> TAKE d \in Cases
  <2> DEFINE T == InRepository(Reserved("REMEDIATION"), d)
  <2>1. IsFiniteSet(T) /\ PerRepository \in Nat
    BY CasesFinite, ConstantsAssumption DEF InRepository, Reserved
  <2>2. Cardinality(T) <= PerRepository
    BY DEF SlotInv, ReservedWithinLimits
  <2>3. InRepository(Reserved("REMEDIATION")', d) \subseteq T
    BY <1>2 DEF InRepository, SlotKinds
  <2> QED
    BY <2>1, <2>2, <2>3, Subsets
<1> QED
  BY <1>1, <1>3, <1>4 DEF SlotInv, ReservedWithinLimits, InRepository
-----------------------------------------------------------------------------
(***************************************************************************)
(* One lemma for each action.                                               *)
(***************************************************************************)
LEMMA InitSlot == Init => SlotInv
<1> SUFFICES ASSUME Init PROVE SlotInv
  OBVIOUS
<1>1. Rows
  BY ConstantsAssumption
  DEF Init, Rows, PCs, CaseState, GENERIC_STATES, REMEDIATION_PHASE_STATES
<1>2. \A c \in Cases : CaseInv(c)
  BY ConstantsAssumption
  DEF Init, CaseInv, AttemptInPhase, SlotInPhase, JobInPlace, SlotOfSession, SlotKinds,
      Unfinished, Finished, TERMINATION_PENDING_STATES, Names, Kinds
<1>3. \A k \in SlotKinds : Reserved(k) = {}
  BY DEF Init, Reserved, Reserves, SlotKinds, Names, Kinds
<1>4. \A c \in Cases : InRepository(Reserved("REMEDIATION"), c) = {}
  BY <1>3 DEF InRepository, SlotKinds
<1>5. Cardinality({}) = 0 /\ PerRepository \in Nat /\ \A k \in SlotKinds : Limit[k] \in Nat
  BY FS_EmptySet, ConstantsAssumption DEF SlotKinds, Kinds
<1>6. \A k \in SlotKinds : Cardinality(Reserved(k)) <= Limit[k]
  BY <1>3, <1>5
<1>7. \A c \in Cases : Cardinality(InRepository(Reserved("REMEDIATION"), c)) <= PerRepository
  BY <1>4, <1>5
<1> QED
  BY <1>1, <1>2, <1>6, <1>7 DEF SlotInv, ReservedWithinLimits

LEMMA ClaimKeepsSlots ==
    ASSUME SlotInv, NEW c \in Cases, Claim(c)
    PROVE  SlotInv' /\ Others({c})
<1>1. /\ EntryPoint(c) \in PCs \ {"settled", "freed", "finish", "session", "timeout", "create"}
      /\ EntryPoint(c) = "terminate" => state[c] \in TERMINATION_PENDING_STATES
  BY DEF EntryPoint, PCs
<1> HIDE DEF EntryPoint
<1>2. Rows'
  BY <1>1 DEF SlotInv, Rows, Claim, leases
<1>3. CaseInv(c)'
  <2>1. pc'[c] = EntryPoint(c) /\ UNCHANGED <<state, att, lease, bound>> /\ CaseInv(c)
    BY DEF SlotInv, Rows, Claim, leases
  <2> QED
    BY <1>1, <2>1
    DEF Claim, CaseInv, AttemptInPhase, SlotInPhase, JobInPlace, SlotOfSession,
        CLAIMABLE_STATES
<1>4. Others({c})
  BY DEF SlotInv, Rows, Claim, leases, Others, Kept
<1>5. \A k \in SlotKinds : Reserves(c, k)' => Reserves(c, k)
  BY DEF Claim, leases, Reserves
<1> QED
  BY <1>2, <1>3, <1>4, <1>5, NoNewSlot

LEMMA EvaluateKeepsSlots ==
    ASSUME SlotInv, NEW c \in Cases, Evaluate(c)
    PROVE  SlotInv' /\ Others({c})
<1>1. Rows'
  BY DEF SlotInv, Rows, Evaluate, leases, Move, Goto, Leave, PCs, CaseState, GENERIC_STATES,
     StillIn
<1>2. CaseInv(c)'
  BY DEF SlotInv, Rows, Evaluate, leases, Move, Goto, Leave, StillIn, CaseInv,
     AttemptInPhase, SlotInPhase, JobInPlace, SlotOfSession, KindOf,
     REMEDIATION_PHASE_STATES, TERMINATION_PENDING_STATES
<1>3. Others({c})
  BY DEF SlotInv, Rows, Evaluate, leases, Others, Kept, Move, Goto, Leave
<1>4. \A k \in SlotKinds : Reserves(c, k)' => Reserves(c, k)
  BY DEF Evaluate, leases, Reserves
<1> QED
  BY <1>1, <1>2, <1>3, <1>4, NoNewSlot

LEMMA DispatchKeepsSlots ==
    ASSUME SlotInv, NEW c \in Cases, Dispatch(c)
    PROVE  SlotInv' /\ Others({c})
<1>1. Rows'
  BY DEF SlotInv, Rows, Dispatch, leases, Move, Goto, Leave, KindOf, Unfinished, Finished,
     PCs, CaseState, GENERIC_STATES, REMEDIATION_PHASE_STATES, StillIn
<1>2. CaseInv(c)'
  BY DEF SlotInv, Rows, Dispatch, leases, Move, Goto, Leave, KindOf, Unfinished, Finished,
     StillIn, CaseInv, AttemptInPhase, SlotInPhase, JobInPlace, SlotOfSession, SlotKinds,
     Names, Kinds, REMEDIATION_PHASE_STATES, TERMINATION_PENDING_STATES
<1>3. Others({c})
  BY DEF SlotInv, Rows, Dispatch, leases, Others, Kept, Move, Goto, Leave
<1>4. \A k \in SlotKinds : Reserves(c, k)' => Reserves(c, k)
  BY DEF SlotInv, Rows, Dispatch, leases, Reserves, CaseInv, AttemptInPhase, JobInPlace,
     SlotOfSession, Unfinished, Finished, SlotKinds, Names, Kinds
<1> QED
  BY <1>1, <1>2, <1>3, <1>4, NoNewSlot

LEMMA ProbeDoneKeepsSlots ==
    ASSUME SlotInv, NEW c \in Cases, ProbeDone(c)
    PROVE  SlotInv' /\ Others({c})
<1>1. Rows'
  BY DEF SlotInv, Rows, ProbeDone, Move, Goto, Leave, Release, KindOf, Unfinished, Finished,
     PCs, CaseState, GENERIC_STATES, REMEDIATION_PHASE_STATES, StillIn
<1>2. CaseInv(c)'
  BY DEF SlotInv, Rows, ProbeDone, Move, Goto, Leave, Release, KindOf, Unfinished, Finished,
     StillIn, CaseInv, AttemptInPhase, SlotInPhase, JobInPlace, SlotOfSession, SlotKinds,
     Names, Kinds, REMEDIATION_PHASE_STATES, TERMINATION_PENDING_STATES
<1>3. Others({c})
  BY DEF SlotInv, Rows, ProbeDone, Others, Kept, Move, Goto, Leave, Release
<1>4. \A k \in SlotKinds : Reserves(c, k)' => Reserves(c, k)
  BY DEF SlotInv, Rows, ProbeDone, Reserves, CaseInv, AttemptInPhase, JobInPlace,
     SlotOfSession, Release, Unfinished, Finished, SlotKinds, Names, Kinds
<1> QED
  BY <1>1, <1>2, <1>3, <1>4, NoNewSlot

LEMMA SettleKeepsSlots ==
    ASSUME SlotInv, NEW c \in Cases, Settle(c)
    PROVE  SlotInv' /\ Others({c})
<1>1. Rows'
  BY DEF SlotInv, Rows, Settle, leases, Move, Goto, Phase, KindOf, Unfinished, Finished,
     PCs, CaseState, GENERIC_STATES, REMEDIATION_PHASE_STATES
<1>2. CaseInv(c)'
  BY DEF SlotInv, Rows, Settle, leases, Move, Goto, Phase, KindOf, Unfinished, Finished,
     CaseInv, AttemptInPhase, SlotInPhase, JobInPlace, SlotOfSession, SlotKinds, Names,
     Kinds, REMEDIATION_PHASE_STATES, TERMINATION_PENDING_STATES
<1>3. Others({c})
  BY DEF SlotInv, Rows, Settle, leases, Others, Kept, Move, Goto
<1>4. \A k \in SlotKinds : Reserves(c, k)' => Reserves(c, k)
  BY DEF SlotInv, Rows, Settle, leases, Reserves, CaseInv, AttemptInPhase, JobInPlace,
     SlotOfSession, Unfinished, Finished, SlotKinds, Names, Kinds
<1> QED
  BY <1>1, <1>2, <1>3, <1>4, NoNewSlot

LEMMA TimeoutKeepsSlots ==
    ASSUME SlotInv, NEW c \in Cases, Timeout(c)
    PROVE  SlotInv' /\ Others({c})
<1>1. Rows'
  BY DEF SlotInv, Rows, Timeout, leases, Move, Goto, Leave, Park, Phase, KindOf, Unfinished,
     Finished, PCs, CaseState, GENERIC_STATES, REMEDIATION_PHASE_STATES
<1>2. CaseInv(c)'
  BY DEF SlotInv, Rows, Timeout, leases, Move, Goto, Leave, Park, Phase, KindOf, Unfinished,
     Finished, CaseInv, AttemptInPhase, SlotInPhase, JobInPlace, SlotOfSession, SlotKinds,
     Names, Kinds, REMEDIATION_PHASE_STATES, TERMINATION_PENDING_STATES
<1>3. Others({c})
  BY DEF SlotInv, Rows, Timeout, leases, Others, Kept, Move, Goto, Leave, Park
<1>4. \A k \in SlotKinds : Reserves(c, k)' => Reserves(c, k)
  BY DEF SlotInv, Rows, Timeout, leases, Reserves, CaseInv, AttemptInPhase, JobInPlace,
     SlotOfSession, Park, Unfinished, Finished, SlotKinds, Names, Kinds
<1> QED
  BY <1>1, <1>2, <1>3, <1>4, NoNewSlot

LEMMA TerminateRunningKeepsSlots ==
    ASSUME SlotInv, NEW c \in Cases, TerminateRunning(c)
    PROVE  SlotInv' /\ Others({c})
<1>1. Rows'
  <2>1. lease' \in [Cases -> [Names -> {"none", "live"}]]
    BY DEF SlotInv, Rows, TerminateRunning, Release
  <2>2. /\ state' \in [Cases -> CaseState]
        /\ att' \in [Cases -> {"none"} \cup Unfinished \cup Finished]
    BY DEF SlotInv, Rows, TerminateRunning, Move, Park, Phase, KindOf, Unfinished, Finished,
       CaseState, GENERIC_STATES, REMEDIATION_PHASE_STATES
  <2> QED
    BY <2>1, <2>2 DEF SlotInv, Rows, TerminateRunning, Leave, PCs
<1>2. CaseInv(c)'
  BY DEF SlotInv, Rows, TerminateRunning, Move, Leave, Release, Park, Phase, KindOf,
     Unfinished, Finished, CaseInv, AttemptInPhase, SlotInPhase, JobInPlace, SlotOfSession,
     SlotKinds, Names, Kinds, REMEDIATION_PHASE_STATES, TERMINATION_PENDING_STATES
<1>3. Others({c})
  BY DEF SlotInv, Rows, TerminateRunning, Others, Kept, Move, Leave, Release, Park
<1>4. \A k \in SlotKinds : Reserves(c, k)' => Reserves(c, k)
  BY DEF SlotInv, Rows, TerminateRunning, Reserves, CaseInv, AttemptInPhase, JobInPlace,
     SlotOfSession, Release, Park, Unfinished, Finished, SlotKinds, Names, Kinds
<1> QED
  BY <1>1, <1>2, <1>3, <1>4, NoNewSlot

LEMMA ReleaseSlotKeepsSlots ==
    ASSUME SlotInv, NEW c \in Cases, ReleaseSlot(c)
    PROVE  SlotInv' /\ Others({c})
<1>1. Rows'
  BY DEF SlotInv, Rows, ReleaseSlot, Goto, Release, KindOf, Unfinished, Finished, PCs,
     CaseState, GENERIC_STATES, REMEDIATION_PHASE_STATES
<1>2. CaseInv(c)'
  BY DEF SlotInv, Rows, ReleaseSlot, Goto, Release, KindOf, Unfinished, Finished, CaseInv,
     AttemptInPhase, SlotInPhase, JobInPlace, SlotOfSession, SlotKinds, Names, Kinds,
     REMEDIATION_PHASE_STATES, TERMINATION_PENDING_STATES
<1>3. Others({c})
  BY DEF SlotInv, Rows, ReleaseSlot, Others, Kept, Goto, Release
<1>4. \A k \in SlotKinds : Reserves(c, k)' => Reserves(c, k)
  <2>1. lease'[c][KindOf(state[c])] = "none" /\ CaseInv(c)
    BY DEF SlotInv, Rows, ReleaseSlot, Release, KindOf, Names, Kinds
  <2>2. \A k \in SlotKinds : lease'[c][k] = "live" => lease[c][k] = "live"
    BY DEF SlotInv, Rows, ReleaseSlot, Release, SlotKinds, Names, Kinds
  <2> QED
    BY <2>1, <2>2 DEF Reserves, CaseInv, SlotInPhase, KindOf, SlotKinds
<1> QED
  BY <1>1, <1>2, <1>3, <1>4, NoNewSlot

LEMMA ReleaseKeysKeepsSlots ==
    ASSUME SlotInv, NEW c \in Cases, ReleaseKeys(c)
    PROVE  SlotInv' /\ Others({c})
<1>1. Rows'
  BY DEF SlotInv, Rows, ReleaseKeys, Goto, Release, KindOf, Unfinished, Finished, PCs,
     CaseState, GENERIC_STATES, REMEDIATION_PHASE_STATES
<1>2. CaseInv(c)'
  BY DEF SlotInv, Rows, ReleaseKeys, Goto, Release, KindOf, Unfinished, Finished, CaseInv,
     AttemptInPhase, SlotInPhase, JobInPlace, SlotOfSession, SlotKinds, Names, Kinds,
     REMEDIATION_PHASE_STATES, TERMINATION_PENDING_STATES
<1>3. Others({c})
  BY DEF SlotInv, Rows, ReleaseKeys, Others, Kept, Goto, Release
<1>4. \A k \in SlotKinds : Reserves(c, k)' => Reserves(c, k)
  BY DEF SlotInv, Rows, ReleaseKeys, Reserves, CaseInv, AttemptInPhase, JobInPlace,
     SlotOfSession, Release, Unfinished, Finished, SlotKinds, Names, Kinds
<1> QED
  BY <1>1, <1>2, <1>3, <1>4, NoNewSlot

LEMMA FinishKeepsSlots ==
    ASSUME SlotInv, NEW c \in Cases, Finish(c)
    PROVE  SlotInv' /\ Others({c})
<1>1. Rows'
  BY DEF SlotInv, Rows, Finish, leases, Move, Goto, Leave, Phase, KindOf, Unfinished,
     Finished, PCs, CaseState, GENERIC_STATES, REMEDIATION_PHASE_STATES
<1>2. CaseInv(c)'
  BY DEF SlotInv, Rows, Finish, leases, Move, Goto, Leave, Phase, KindOf, Unfinished,
     Finished, CaseInv, AttemptInPhase, SlotInPhase, JobInPlace, SlotOfSession, SlotKinds,
     Names, Kinds, REMEDIATION_PHASE_STATES, TERMINATION_PENDING_STATES
<1>3. Others({c})
  BY DEF SlotInv, Rows, Finish, leases, Others, Kept, Move, Goto, Leave
<1>4. \A k \in SlotKinds : Reserves(c, k)' => Reserves(c, k)
  BY DEF SlotInv, Rows, Finish, leases, Reserves, CaseInv, AttemptInPhase, JobInPlace,
     SlotOfSession, Unfinished, Finished, SlotKinds, Names, Kinds
<1> QED
  BY <1>1, <1>2, <1>3, <1>4, NoNewSlot

LEMMA HeartbeatKeepsSlots ==
    ASSUME SlotInv, NEW c \in Cases, Heartbeat(c)
    PROVE  SlotInv' /\ Others({c})
<1>1. Rows'
  BY DEF SlotInv, Rows, Heartbeat, KindOf, Unfinished, Finished, PCs, CaseState,
     GENERIC_STATES, REMEDIATION_PHASE_STATES
<1>2. CaseInv(c)'
  BY DEF SlotInv, Rows, Heartbeat, KindOf, Unfinished, Finished, CaseInv, AttemptInPhase,
     SlotInPhase, JobInPlace, SlotOfSession, SlotKinds, Names, Kinds,
     REMEDIATION_PHASE_STATES, TERMINATION_PENDING_STATES
<1>3. Others({c})
  BY DEF SlotInv, Rows, Heartbeat, Others, Kept
<1>4. \A k \in SlotKinds : Reserves(c, k)' => Reserves(c, k)
  BY DEF SlotInv, Rows, Heartbeat, Reserves, CaseInv, AttemptInPhase, JobInPlace,
     SlotOfSession, Unfinished, Finished, SlotKinds, Names, Kinds
<1> QED
  BY <1>1, <1>2, <1>3, <1>4, NoNewSlot

LEMMA CrashKeepsSlots ==
    ASSUME SlotInv, NEW c \in Cases, Crash(c)
    PROVE  SlotInv' /\ Others({c})
<1>1. Rows'
  BY DEF SlotInv, Rows, Crash, leases, Leave, KindOf, Unfinished, Finished, PCs, CaseState,
     GENERIC_STATES, REMEDIATION_PHASE_STATES
<1>2. CaseInv(c)'
  BY DEF SlotInv, Rows, Crash, leases, Leave, KindOf, Unfinished, Finished, CaseInv,
     AttemptInPhase, SlotInPhase, JobInPlace, SlotOfSession, SlotKinds, Names, Kinds,
     REMEDIATION_PHASE_STATES, TERMINATION_PENDING_STATES
<1>3. Others({c})
  BY DEF SlotInv, Rows, Crash, leases, Others, Kept, Leave
<1>4. \A k \in SlotKinds : Reserves(c, k)' => Reserves(c, k)
  BY DEF SlotInv, Rows, Crash, leases, Reserves, CaseInv, AttemptInPhase, JobInPlace,
     SlotOfSession, Unfinished, Finished, SlotKinds, Names, Kinds
<1> QED
  BY <1>1, <1>2, <1>3, <1>4, NoNewSlot

LEMMA JobErrorKeepsSlots ==
    ASSUME SlotInv, NEW c \in Cases, JobError(c)
    PROVE  SlotInv' /\ Others({c})
<1>1. Rows'
  BY DEF SlotInv, Rows, JobError, leases, Move, Leave, Park, Phase, KindOf, Unfinished,
     Finished, PCs, CaseState, GENERIC_STATES, REMEDIATION_PHASE_STATES
<1>2. CaseInv(c)'
  BY DEF SlotInv, Rows, JobError, leases, Move, Leave, Park, Phase, KindOf, Unfinished,
     Finished, CaseInv, AttemptInPhase, SlotInPhase, JobInPlace, SlotOfSession, SlotKinds,
     Names, Kinds, REMEDIATION_PHASE_STATES, TERMINATION_PENDING_STATES
<1>3. Others({c})
  BY DEF SlotInv, Rows, JobError, leases, Others, Kept, Move, Leave, Park
<1>4. \A k \in SlotKinds : Reserves(c, k)' => Reserves(c, k)
  BY DEF SlotInv, Rows, JobError, leases, Reserves, CaseInv, AttemptInPhase, JobInPlace,
     SlotOfSession, Park, Unfinished, Finished, SlotKinds, Names, Kinds
<1> QED
  BY <1>1, <1>2, <1>3, <1>4, NoNewSlot

LEMMA CancelKeepsSlots ==
    ASSUME SlotInv, NEW c \in Cases, Cancel(c)
    PROVE  SlotInv' /\ Others({c})
<1>1. Rows'
  BY DEF SlotInv, Rows, Cancel, leases, Move, Phase, KindOf, Unfinished, Finished, PCs,
     CaseState, GENERIC_STATES, REMEDIATION_PHASE_STATES
<1>2. CaseInv(c)'
  BY DEF SlotInv, Rows, Cancel, leases, Move, Phase, KindOf, Unfinished, Finished, CaseInv,
     AttemptInPhase, SlotInPhase, JobInPlace, SlotOfSession, SlotKinds, Names, Kinds,
     REMEDIATION_PHASE_STATES, TERMINATION_PENDING_STATES
<1>3. Others({c})
  BY DEF SlotInv, Rows, Cancel, leases, Others, Kept, Move
<1>4. \A k \in SlotKinds : Reserves(c, k)' => Reserves(c, k)
  BY DEF SlotInv, Rows, Cancel, leases, Reserves, CaseInv, AttemptInPhase, JobInPlace,
     SlotOfSession, Unfinished, Finished, SlotKinds, Names, Kinds
<1> QED
  BY <1>1, <1>2, <1>3, <1>4, NoNewSlot

LEMMA RetryKeepsSlots ==
    ASSUME SlotInv, NEW c \in Cases, Retry(c)
    PROVE  SlotInv' /\ Others({c})
<1>1. Rows'
  BY DEF SlotInv, Rows, Retry, leases, Move, KindOf, Unfinished, Finished, PCs, CaseState,
     GENERIC_STATES, REMEDIATION_PHASE_STATES
<1>2. CaseInv(c)'
  BY DEF SlotInv, Rows, Retry, leases, Move, KindOf, Unfinished, Finished, CaseInv,
     AttemptInPhase, SlotInPhase, JobInPlace, SlotOfSession, SlotKinds, Names, Kinds,
     REMEDIATION_PHASE_STATES, TERMINATION_PENDING_STATES
<1>3. Others({c})
  BY DEF SlotInv, Rows, Retry, leases, Others, Kept, Move
<1>4. \A k \in SlotKinds : Reserves(c, k)' => Reserves(c, k)
  BY DEF SlotInv, Rows, Retry, leases, Reserves, CaseInv, AttemptInPhase, JobInPlace,
     SlotOfSession, Unfinished, Finished, SlotKinds, Names, Kinds
<1> QED
  BY <1>1, <1>2, <1>3, <1>4, NoNewSlot

LEMMA ApproveKeepsSlots ==
    ASSUME SlotInv, NEW c \in Cases, Approve(c)
    PROVE  SlotInv' /\ Others({c})
<1>1. Rows'
  BY DEF SlotInv, Rows, Approve, leases, Move, KindOf, Unfinished, Finished, PCs, CaseState,
     GENERIC_STATES, REMEDIATION_PHASE_STATES
<1>2. CaseInv(c)'
  BY DEF SlotInv, Rows, Approve, leases, Move, KindOf, Unfinished, Finished, CaseInv,
     AttemptInPhase, SlotInPhase, JobInPlace, SlotOfSession, SlotKinds, Names, Kinds,
     REMEDIATION_PHASE_STATES, TERMINATION_PENDING_STATES
<1>3. Others({c})
  BY DEF SlotInv, Rows, Approve, leases, Others, Kept, Move
<1>4. \A k \in SlotKinds : Reserves(c, k)' => Reserves(c, k)
  BY DEF SlotInv, Rows, Approve, leases, Reserves, CaseInv, AttemptInPhase, JobInPlace,
     SlotOfSession, Unfinished, Finished, SlotKinds, Names, Kinds
<1> QED
  BY <1>1, <1>2, <1>3, <1>4, NoNewSlot

LEMMA ReconciledTables ==
    ASSUME Rows
    PROVE  /\ Reconciled \in [Cases -> [Names -> {"none", "live"}]]
           /\ StillBound \in [Cases -> BOOLEAN]
BY DEF Rows, Reconciled, StillBound, Names, Kinds

LEMMA AcquireProbeKeepsSlots ==
    ASSUME SlotInv, NEW c \in Cases, AcquireProbe(c)
    PROVE  SlotInv' /\ Others({c})
<1>1. PICK x \in {"none", "live"} : lease' = [Reconciled EXCEPT ![c]["PROBE"] = x]
  BY DEF AcquireProbe, Acquire
<1>2. /\ UNCHANGED <<state, att>> /\ bound' = StillBound
      /\ \E p \in {"probing", "idle"} : pc' = [pc EXCEPT ![c] = p]
  BY DEF AcquireProbe, Acquire, Goto, Leave
<1>3. Rows /\ CaseInv(c)
  BY DEF SlotInv
<1>4. Rows'
  BY <1>1, <1>2, <1>3, ReconciledTables DEF Rows, PCs
<1>5. Others({c})
  BY <1>1, <1>2, <1>3, ReconciledTables DEF Others, FreedIfOver, Rows
<1>6. \A k \in SlotKinds : lease'[c][k] = Reconciled[c][k]
  BY <1>1, <1>3, ReconciledTables DEF SlotKinds, Names, Kinds
<1>7. pc[c] # "idle" /\ pc'[c] \in {"probing", "idle"} /\ (bound'[c] <=> StillBound[c])
  BY <1>2, <1>3 DEF Rows, AcquireProbe
<1>8. CaseInv(c)' /\ \A k \in SlotKinds : Reserves(c, k)' => Reserves(c, k)
  BY <1>2, <1>3, <1>6, <1>7, FreedRow
<1> QED
  BY <1>4, <1>5, <1>8, NoNewSlot

LEMMA ReapKeepsSlots ==
    ASSUME SlotInv, Reap
    PROVE  SlotInv' /\ Others({})
<1>1. expire_stale(Reconciled) = Reconciled
  BY ReconciledTables DEF SlotInv, expire_stale
<1>2. Rows'
  BY <1>1, ReconciledTables DEF Reap, SlotInv, Rows
<1>3. Others({})
  BY <1>1 DEF Reap, Others, FreedIfOver
<1> QED
  BY <1>2, <1>3, NoNewSlot

\* The manifest of a case is a sequence of resource keys, and no slot is one.
LEMMA Manifest ==
    ASSUME NEW c \in Cases
    PROVE  /\ DOMAIN resource_keys[c] \subseteq Nat
           /\ \A i \in DOMAIN resource_keys[c] : resource_keys[c][i] \in ResourceKey
           /\ ResourceKey \cap SlotKinds = {} /\ ResourceKey \subseteq Names
<1>1. resource_keys[c] \in Seq(ResourceKey)
  BY ConstantsAssumption
<1> QED
  BY <1>1, ConstantsAssumption DEF SlotKinds, Kinds, Names

\* Table t after c took the keys of got and lost those of gone.
Taking(t, c, got, gone) ==
    [t EXCEPT ![c] = [n \in Names |-> CASE n \in got -> "live"
                                        [] n \in gone -> "none"
                                        [] OTHER -> t[c][n]]]

\* What AcquireKeys does to the leases: it takes keys that c has or nobody has, all of
\* its manifest if it goes on, and loses one that it does not have.
LEMMA KeysTaken ==
    ASSUME NEW c \in Cases, AcquireKeys(c)
    PROVE  \E t, got, gone :
              /\ \/ t = lease /\ UNCHANGED bound
                 \/ t = Reconciled /\ bound' = StillBound
              /\ got \subseteq ResourceKey /\ gone \subseteq ResourceKey
              /\ lease' = Taking(t, c, got, gone)
              /\ \A n \in got : t[c][n] = "live" \/ in_use(t, n) = {}
              /\ \A n \in gone : t[c][n] # "live" /\ in_use(t, n) # {}
              /\ \/ got = ToSet(resource_keys[c]) /\ gone = {}
                 \/ pc' = [pc EXCEPT ![c] = "idle"]
<1> DEFINE keys == resource_keys[c]
           t == IF keys = <<>> THEN lease ELSE Reconciled
           Taken(i) == t[c][keys[i]] # "live" /\ in_use(t, keys[i]) # {}
           denied == {i \in DOMAIN keys : Taken(i)}
           First == CHOOSE i \in denied : \A j \in denied : i <= j
           Before(i) == {keys[j] : j \in 1..(i - 1)}
<1>1. \/ t = lease /\ UNCHANGED bound
      \/ t = Reconciled /\ bound' = StillBound
  BY DEF AcquireKeys
<1>2. \/ denied = {} /\ lease' = Taking(t, c, ToSet(keys), {})
      \/ denied # {} /\ lease' = Taking(t, c, Before(First), {keys[First]}) /\ Leave(c)
  BY Zenon DEF AcquireKeys, Taking
<1>3. CASE denied = {} /\ lease' = Taking(t, c, ToSet(keys), {})
  <2>1. ToSet(keys) \subseteq ResourceKey
    BY Manifest DEF ToSet
  <2>2. \A n \in ToSet(keys) : t[c][n] = "live" \/ in_use(t, n) = {}
    BY <1>3 DEF ToSet
  <2> HIDE DEF t
  <2> QED
    BY <1>1, <1>3, <2>1, <2>2, Zenon
<1>4. CASE denied # {} /\ lease' = Taking(t, c, Before(First), {keys[First]}) /\ Leave(c)
  <2>1. First \in denied /\ \A j \in denied : First <= j
    <3>1. denied \subseteq Nat
      BY Manifest
    <3> HIDE DEF denied
    <3>2. \E i \in denied : \A j \in denied : i <= j
      BY <1>4, <3>1, Least, Zenon
    <3> QED
      BY <3>2, Zenon
  <2>2. First \in DOMAIN keys /\ Taken(First)
    BY <2>1
  <2> HIDE DEF First
  <2>3. \A j \in 1..(First - 1) : j \in DOMAIN keys /\ j \notin denied
    <3>1. keys \in Seq(ResourceKey)
      BY ConstantsAssumption
    <3>2. First \in Nat
      BY <2>2, <3>1
    <3> HIDE DEF denied
    <3> QED
      BY <2>1, <2>2, <3>1, <3>2
  <2>4. Before(First) \subseteq ResourceKey /\ {keys[First]} \subseteq ResourceKey
    BY <2>2, <2>3, Manifest
  <2>5. \A n \in Before(First) : t[c][n] = "live" \/ in_use(t, n) = {}
    BY <2>3
  <2>6. pc' = [pc EXCEPT ![c] = "idle"]
    BY <1>4 DEF Leave
  <2>7. \A n \in {keys[First]} : t[c][n] # "live" /\ in_use(t, n) # {}
    BY <2>2
  <2> DEFINE got == Before(First)
             gone == {keys[First]}
  <2>8. lease' = Taking(t, c, got, gone)
    BY <1>4
  <2>9. got \subseteq ResourceKey /\ gone \subseteq ResourceKey
    BY <2>4
  <2>10. /\ \A n \in got : t[c][n] = "live" \/ in_use(t, n) = {}
         /\ \A n \in gone : t[c][n] # "live" /\ in_use(t, n) # {}
    BY <2>5, <2>7
  <2> HIDE DEF t, got, gone
  <2> QED
    BY <1>1, <2>6, <2>8, <2>9, <2>10, Zenon
<1> QED
  BY <1>2, <1>3, <1>4

LEMMA AcquireKeysKeepsSlots ==
    ASSUME SlotInv, NEW c \in Cases, AcquireKeys(c)
    PROVE  SlotInv' /\ Others({c})
<1>1. Rows /\ CaseInv(c)
  BY DEF SlotInv
<1>2. PICK t, got, gone :
         /\ \/ t = lease /\ UNCHANGED bound
            \/ t = Reconciled /\ bound' = StillBound
         /\ got \subseteq ResourceKey /\ gone \subseteq ResourceKey
         /\ lease' = Taking(t, c, got, gone)
  BY <1>1, KeysTaken
<1>3. t \in [Cases -> [Names -> {"none", "live"}]] /\ bound' \in [Cases -> BOOLEAN]
  BY <1>1, <1>2, ReconciledTables DEF Rows
<1>4. /\ UNCHANGED <<state, att>>
      /\ pc[c] # "idle" /\ \E p \in {"run", "idle"} : pc' = [pc EXCEPT ![c] = p]
  BY DEF AcquireKeys, Goto, Leave
<1>5. lease' \in [Cases -> [Names -> {"none", "live"}]]
  BY <1>2, <1>3 DEF Taking
<1>6. Rows'
  BY <1>1, <1>3, <1>4, <1>5 DEF Rows, PCs
<1>7. Others({c})
  BY <1>1, <1>2, <1>3, <1>4 DEF Taking, Others, Kept, FreedIfOver, Rows
<1>8. \A k \in SlotKinds : lease'[c][k] = t[c][k]
  BY <1>2, <1>3, Manifest DEF Taking, SlotKinds, Names, Kinds
<1>9. pc'[c] \in {"run", "idle"}
  BY <1>1, <1>4 DEF Rows
<1>10. CaseInv(c)' /\ \A k \in SlotKinds : Reserves(c, k)' => Reserves(c, k)
  <2>1. CASE t = lease /\ UNCHANGED bound
    BY <1>1, <1>4, <1>8, <1>9, <2>1
    DEF CaseInv, AttemptInPhase, SlotInPhase, JobInPlace, SlotOfSession, Reserves, SlotKinds,
        KindOf
  <2>2. CASE t = Reconciled /\ bound' = StillBound
    BY <1>1, <1>4, <1>8, <1>9, <2>2, FreedRow
  <2> QED
    BY <1>2, <2>1, <2>2
<1> QED
  BY <1>6, <1>7, <1>10, NoNewSlot

\* _bind_lease() for a case that has its slot, or whose attempt is over.
LEMMA RunResumeKeepsSlots ==
    ASSUME SlotInv, NEW c \in Cases, RunResume(c)
    PROVE  SlotInv' /\ Others({c})
<1>1. Rows /\ CaseInv(c) /\ pc[c] = "run" /\ att[c] # "none"
  BY DEF SlotInv, RunResume
<1>2. CASE att[c] \in Terminating /\ Goto(c, "timeout") /\ UNCHANGED leases
  <2>1. Rows' /\ Others({c}) /\ pc'[c] = "timeout"
    BY <1>1, <1>2 DEF RunResume, Goto, leases, Rows, PCs, Others, Kept
  <2>2. CaseInv(c)' /\ \A k \in SlotKinds : Reserves(c, k)' => Reserves(c, k)
    BY <1>1, <1>2, <2>1
    DEF RunResume, leases, CaseInv, AttemptInPhase, SlotInPhase, JobInPlace, SlotOfSession,
        Reserves
  <2> QED
    BY <2>1, <2>2, NoNewSlot
<1>3. CASE att[c] \notin Terminating /\ Bind(c, KindOf(state[c])) /\ Goto(c, "session")
  <2> DEFINE kind == KindOf(state[c])
  <2>1. kind \in SlotKinds /\ SlotKinds \subseteq Names
    BY DEF KindOf, SlotKinds, Names, Kinds
  <2>2. /\ lease' = [Reconciled EXCEPT ![c][kind] = "live"]
        /\ bound' = [StillBound EXCEPT ![c] = TRUE]
        /\ pc' = [pc EXCEPT ![c] = "session"]
        /\ UNCHANGED <<state, att>>
    BY <1>3 DEF RunResume, Bind, Goto
  <2> HIDE DEF kind
  <2>3. Rows'
    BY <1>1, <2>1, <2>2, ReconciledTables DEF Rows, PCs
  <2>4. Others({c})
    BY <1>1, <2>2, ReconciledTables DEF Others, FreedIfOver, Rows
  <2>5. /\ bound'[c] /\ pc'[c] = "session" /\ lease'[c][kind] = "live"
        /\ \A k \in SlotKinds \ {kind} : lease'[c][k] = Reconciled[c][k]
    BY <1>1, <2>1, <2>2, ReconciledTables DEF Rows
  <2>6. \A k \in SlotKinds : Reconciled[c][k] = "live" => lease[c][k] = "live"
    BY <1>1, <2>1, ReconciledRow
  <2>7. CaseInv(c)'
    BY <1>1, <2>1, <2>2, <2>5, <2>6
    DEF kind, KindOf, SlotKinds, CaseInv, AttemptInPhase, SlotInPhase, JobInPlace,
        SlotOfSession
  <2>8. \A k \in SlotKinds : Reserves(c, k)' => Reserves(c, k)
    BY <1>1, <2>1, <2>2, <2>5, <2>6 DEF kind, Reserves, CaseInv, SlotOfSession
  <2> QED
    BY <2>3, <2>4, <2>7, <2>8, NoNewSlot
<1> QED
  BY <1>2, <1>3 DEF RunResume

\* _create() binds the slot it was given before.
LEMMA CreateKeepsSlots ==
    ASSUME SlotInv, NEW c \in Cases, Create(c)
    PROVE  SlotInv' /\ Others({c})
<1>1. Rows /\ CaseInv(c) /\ pc[c] = "create"
  BY DEF SlotInv, Create
<1>2. CASE StillIn(c, Phase(c).intent) /\ att' = [att EXCEPT ![c] = "active"]
           /\ Move(c, Phase(c).running) /\ Bind(c, KindOf(state[c])) /\ Goto(c, "session")
  <2> DEFINE kind == KindOf(state[c])
             to == Phase(c).running
  <2>1. /\ kind \in SlotKinds /\ SlotKinds \subseteq Names
        /\ to \in {"TRIAGING", "REMEDIATING"} /\ KindOf(to) = kind
        /\ lease[c][kind] = "live" /\ att[c] = "none" /\ ~bound[c]
    BY <1>1, <1>2
    DEF StillIn, Phase, KindOf, REMEDIATION_PHASE_STATES, SlotKinds, Names, Kinds, CaseInv,
        JobInPlace
  <2>2. /\ lease' = [Reconciled EXCEPT ![c][kind] = "live"]
        /\ bound' = [StillBound EXCEPT ![c] = TRUE]
        /\ pc' = [pc EXCEPT ![c] = "session"]
        /\ state' = [state EXCEPT ![c] = to]
        /\ att' = [att EXCEPT ![c] = "active"]
    BY <1>2 DEF Bind, Goto, Move
  <2> HIDE DEF kind, to
  <2>3. Rows'
    BY <1>1, <2>1, <2>2, ReconciledTables
    DEF Rows, PCs, Unfinished, CaseState, GENERIC_STATES, REMEDIATION_PHASE_STATES
  <2>4. Others({c})
    BY <1>1, <2>2, ReconciledTables DEF Others, FreedIfOver, Rows
  <2>5. /\ bound'[c] /\ pc'[c] = "session" /\ state'[c] = to /\ att'[c] = "active"
        /\ lease'[c][kind] = "live"
        /\ \A k \in SlotKinds \ {kind} : lease'[c][k] = Reconciled[c][k]
    BY <1>1, <2>1, <2>2, ReconciledTables DEF Rows
  <2>6. \A k \in SlotKinds \ {kind} : lease'[c][k] # "live"
    BY <1>1, <2>1, <2>5, ReconciledRow DEF kind, KindOf, SlotKinds, CaseInv, SlotInPhase
  <2>7. CaseInv(c)'
    BY <1>1, <2>1, <2>5, <2>6
    DEF kind, KindOf, SlotKinds, CaseInv, AttemptInPhase, SlotInPhase, JobInPlace,
        SlotOfSession, Unfinished, Finished, TERMINATION_PENDING_STATES
  <2>8. \A k \in SlotKinds : Reserves(c, k)' => Reserves(c, k)
    BY <2>1, <2>6 DEF Reserves
  <2> QED
    BY <2>3, <2>4, <2>7, <2>8, NoNewSlot
<1>3. CASE /\ \/ StillIn(c, Phase(c).intent) /\ Move(c, Phase(c).failed) /\ Goto(c, "settled")
              \/ UNCHANGED state /\ Leave(c)
           /\ UNCHANGED <<att, leases>>
  <2>1. Rows'
    BY <1>1, <1>3
    DEF Move, Goto, Leave, leases, Phase, KindOf, Rows, PCs, CaseState, GENERIC_STATES,
        REMEDIATION_PHASE_STATES
  <2>2. CaseInv(c)'
    BY <1>1, <1>3
    DEF StillIn, Move, Goto, Leave, leases, Phase, KindOf, Rows, CaseInv, AttemptInPhase,
        SlotInPhase, JobInPlace, SlotOfSession, Unfinished, Finished,
        REMEDIATION_PHASE_STATES, TERMINATION_PENDING_STATES
  <2>3. Others({c})
    BY <1>1, <1>3 DEF Move, Goto, Leave, leases, Others, Kept, Rows
  <2>4. \A k \in SlotKinds : Reserves(c, k)' => Reserves(c, k)
    BY <1>3 DEF leases, Reserves
  <2> QED
    BY <2>1, <2>2, <2>3, <2>4, NoNewSlot
<1> QED
  BY <1>2, <1>3 DEF Create

\* The one step that reserves a slot: acquire() counts every other case that has one.
LEMMA RunNewKeepsSlots ==
    ASSUME SlotInv, NEW c \in Cases, RunNew(c)
    PROVE  SlotInv' /\ Others({c})
<1>1. Rows /\ CaseInv(c) /\ pc[c] = "run" /\ att[c] = "none"
  BY DEF SlotInv, RunNew
<1>2. PICK kind \in SlotKinds \cap Names : kind = KindOf(state[c])
  BY DEF KindOf, SlotKinds, Names, Kinds
<1>3. Acquire(c, kind, "create") /\ UNCHANGED <<state, att>> /\ bound' = StillBound
  BY <1>2 DEF RunNew, Acquire
<1>4. PICK x \in {"none", "live"}, p \in {"create", "idle"} :
         /\ lease' = [Reconciled EXCEPT ![c][kind] = x]
         /\ pc' = [pc EXCEPT ![c] = p]
         /\ p = "create" => x = "live"
         /\ x = "live" => \/ Reconciled[c][kind] = "live"
                           \/ /\ ~LimitDenies(Reconciled, kind, c)
                              /\ ~ScopeDenies(Reconciled, kind, c)
  BY <1>3 DEF Acquire, Goto, Leave
<1>5. Rows'
  BY <1>1, <1>2, <1>3, <1>4, ReconciledTables DEF Rows, PCs
<1>6. Others({c})
  BY <1>1, <1>3, <1>4, ReconciledTables DEF Others, FreedIfOver, Rows
<1>7. /\ lease'[c][kind] = x /\ pc'[c] = p /\ ~bound'[c]
      /\ \A k \in SlotKinds \ {kind} : lease'[c][k] = Reconciled[c][k]
  BY <1>1, <1>2, <1>3, <1>4, ReconciledTables, ReconciledRow DEF Rows, Unfinished
<1>8. \A k \in SlotKinds \ {kind} : lease'[c][k] # "live"
  BY <1>1, <1>2, <1>7, ReconciledRow DEF KindOf, SlotKinds, CaseInv, SlotInPhase
<1>9. CaseInv(c)'
  BY <1>1, <1>2, <1>3, <1>4, <1>7, <1>8
  DEF KindOf, SlotKinds, CaseInv, AttemptInPhase, SlotInPhase, JobInPlace,
      SlotOfSession, Unfinished, Finished, REMEDIATION_PHASE_STATES
<1>10. CASE x = "none" \/ Reconciled[c][kind] = "live"
  <2>1. Reserves(c, kind)' => Reserves(c, kind)
    <3>1. Reconciled[c][kind] = "live" => lease[c][kind] = "live" /\ ~bound[c]
      BY <1>1, <1>2, ReconciledRow DEF Unfinished
    <3> QED
      BY <1>1, <1>7, <1>10, <3>1 DEF Reserves
  <2>2. \A k \in SlotKinds : Reserves(c, k)' => Reserves(c, k)
    BY <1>8, <2>1 DEF Reserves
  <2> QED
    BY <1>5, <1>6, <1>9, <2>2, NoNewSlot
<1>11. CASE ~LimitDenies(Reconciled, kind, c) /\ ~ScopeDenies(Reconciled, kind, c)
  <2> DEFINE used == in_use(Reconciled, kind)
  <2>1. used \subseteq Cases /\ IsFiniteSet(used)
    BY CasesFinite DEF in_use
  <2>2. \A d \in Cases \ {c} : \A k \in SlotKinds : Reserves(d, k)' => Reserves(d, k)
    BY <1>6, OtherRow
  <2>3. Reserved(kind)' \subseteq used \cup {c}
    <3>1. \A d \in Cases \ {c} : lease'[d] = Reconciled[d]
      BY <1>1, <1>4, ReconciledTables
    <3> QED
      BY <3>1 DEF Reserved, Reserves, in_use
  <2>4. \A k \in SlotKinds \ {kind} : Reserved(k)' \subseteq Reserved(k)
    BY <1>8, <2>2 DEF Reserved, Reserves
  <2>5. ~(Cardinality(used) >= Limit[kind])
    BY <1>11 DEF LimitDenies
  <2>6. \A k \in SlotKinds : Cardinality(Reserved(k)') <= Limit[k]
    <3> TAKE k \in SlotKinds
    <3>1. Limit[k] \in Nat
      BY ConstantsAssumption DEF SlotKinds, Kinds
    <3>2. CASE k = kind
      BY <2>1, <2>3, <2>5, <3>1, <3>2, OneMore
    <3>3. CASE k # kind
      <4>1. IsFiniteSet(Reserved(k)) /\ Cardinality(Reserved(k)) <= Limit[k]
        BY CasesFinite DEF Reserved, SlotInv, ReservedWithinLimits
      <4> QED
        BY <2>4, <3>1, <3>3, <4>1, Subsets
    <3> QED
      BY <3>2, <3>3
  <2>7. \A d \in Cases : Cardinality(InRepository(Reserved("REMEDIATION")', d)) <= PerRepository
    <3> TAKE d \in Cases
    <3>1. PerRepository \in Nat
      BY ConstantsAssumption
    <3>2. CASE kind = "REMEDIATION" /\ Repository[d] = Repository[c]
      <4> DEFINE T == {e \in used : Repository[e] = Repository[c]}
      <4>1. IsFiniteSet(T) /\ ~(Cardinality(T) >= PerRepository)
        BY <1>11, <2>1, <3>2, FS_Subset DEF ScopeDenies
      <4>2. InRepository(Reserved("REMEDIATION")', d) \subseteq T \cup {c}
        BY <2>3, <3>2 DEF InRepository
      <4> QED
        BY <3>1, <4>1, <4>2, OneMore
    <3>3. CASE ~(kind = "REMEDIATION" /\ Repository[d] = Repository[c])
      <4> DEFINE T == InRepository(Reserved("REMEDIATION"), d)
      <4>1. IsFiniteSet(T) /\ Cardinality(T) <= PerRepository
        BY CasesFinite DEF InRepository, Reserved, SlotInv, ReservedWithinLimits
      <4>2. InRepository(Reserved("REMEDIATION")', d) \subseteq T
        BY <1>8, <2>2, <3>3 DEF InRepository, Reserved, Reserves, SlotKinds
      <4> QED
        BY <3>1, <4>1, <4>2, Subsets
    <3> QED
      BY <3>2, <3>3
  <2>8. \A d \in Cases : CaseInv(d)'
    BY <1>6, <1>9, OtherRow
  <2> QED
    BY <1>5, <1>6, <2>6, <2>7, <2>8 DEF SlotInv, ReservedWithinLimits, InRepository
<1> QED
  BY <1>4, <1>10, <1>11

LEMMA SlotStep ==
    ASSUME Lapsing = {}, SlotInv, [Next]_vars
    PROVE  SlotInv'
<1>1. CASE UNCHANGED vars
  <2>1. Rows' /\ Others({})
    BY <1>1 DEF vars, SlotInv, Rows, Others, Kept
  <2> QED
    BY <2>1, NoNewSlot
<1>2. CASE Reap
  BY <1>2, ReapKeepsSlots
<1>3. ASSUME NEW c \in Cases,
             \/ JobStep(c) \/ Heartbeat(c) \/ Lapse(c) \/ Crash(c) \/ JobError(c)
             \/ Cancel(c) \/ Retry(c) \/ Approve(c)
      PROVE  SlotInv'
  <2>1. ~Lapse(c)
    BY DEF Lapse, MayLapse
  <2>2. CASE JobStep(c)
    BY <2>2, ClaimKeepsSlots, EvaluateKeepsSlots, DispatchKeepsSlots, AcquireProbeKeepsSlots,
       ProbeDoneKeepsSlots, AcquireKeysKeepsSlots, RunNewKeepsSlots, RunResumeKeepsSlots,
       CreateKeepsSlots, SettleKeepsSlots, TimeoutKeepsSlots, TerminateRunningKeepsSlots,
       ReleaseSlotKeepsSlots, ReleaseKeysKeepsSlots, FinishKeepsSlots DEF JobStep
  <2> QED
    BY <1>3, <2>1, <2>2, HeartbeatKeepsSlots, CrashKeepsSlots, JobErrorKeepsSlots,
       CancelKeepsSlots, RetryKeepsSlots, ApproveKeepsSlots
<1> QED
  BY <1>1, <1>2, <1>3 DEF Next

\* Every running session has a reserved slot.
LEMMA SlotInvWithinLimit == SlotInv => SessionsWithinLimit
<1> SUFFICES ASSUME SlotInv PROVE SessionsWithinLimit
  OBVIOUS
<1>1. \A k \in SlotKinds : Running(k) \subseteq Reserved(k)
  BY DEF SlotInv, CaseInv, SlotOfSession, Running, Reserved, Reserves
<1>2. \A k \in SlotKinds : Cardinality(Running(k)) <= Limit[k]
  <2> TAKE k \in SlotKinds
  <2>1. IsFiniteSet(Reserved(k)) /\ Limit[k] \in Nat /\ Cardinality(Reserved(k)) <= Limit[k]
    BY CasesFinite, ConstantsAssumption
    DEF Reserved, SlotKinds, Kinds, SlotInv, ReservedWithinLimits
  <2> QED
    BY <1>1, <2>1, Subsets
<1>3. \A c \in Cases :
        Cardinality({d \in Running("REMEDIATION") : Repository[d] = Repository[c]})
          <= PerRepository
  <2> TAKE c \in Cases
  <2> DEFINE T == InRepository(Reserved("REMEDIATION"), c)
  <2>1. IsFiniteSet(T) /\ PerRepository \in Nat /\ Cardinality(T) <= PerRepository
    BY CasesFinite, ConstantsAssumption
    DEF InRepository, Reserved, SlotInv, ReservedWithinLimits
  <2>2. {d \in Running("REMEDIATION") : Repository[d] = Repository[c]} \subseteq T
    BY <1>1 DEF InRepository, SlotKinds
  <2> QED
    BY <2>1, <2>2, Subsets
<1>4. \A k \in SlotKinds : Running(k) \subseteq Cases
  BY DEF Running
<1> QED
  BY <1>2, <1>3, <1>4 DEF SessionsWithinLimit, SlotKinds

\* As long as no lease lapses that a case relies on, the sessions that run at Devin stay
\* within the limits of their kind and of their repository, for any cases and limits and
\* whatever crashes, fails, is cancelled or retried: acquire() counts before it grants,
\* and _bind_lease(), which does not, is only called by a case that has its slot or whose
\* session is over.
THEOREM WithinLimit ==
    ASSUME Lapsing = {}
    PROVE  Spec => []SessionsWithinLimit
<1>1. Spec => []SlotInv
  BY InitSlot, SlotStep, PTL DEF Spec
<1> QED
  BY <1>1, SlotInvWithinLimit, PTL
-----------------------------------------------------------------------------
(***************************************************************************)
(* The resource keys.                                                       *)
(***************************************************************************)
\* A resource key has one holder.
OneHolder ==
    \A n \in ResourceKey : \A c, d \in Cases :
        lease[c][n] = "live" /\ lease[d][n] = "live" => c = d

\* A remediation that runs, or is past _acquire_resource_keys() on its way to.
NeedsKeys(c) ==
    KindOf(state[c]) = "REMEDIATION" /\ (att[c] \in Unfinished \/ pc[c] \in {"run", "create"})

HoldsKeys(c) == \A n \in ToSet(resource_keys[c]) : lease[c][n] = "live"

\* The inductive invariant of ExclusiveKeys.
KeyInv ==
    /\ SlotInv
    /\ OneHolder
    /\ \A c \in Cases : NeedsKeys(c) => HoldsKeys(c)

LEMMA KeyNames ==
    ASSUME NEW c \in Cases
    PROVE  ToSet(resource_keys[c]) \subseteq ResourceKey
BY Manifest DEF ToSet

\* The cases a step does not change keep their keys.
LEMMA OtherKeys ==
    ASSUME Rows, NEW S, Others(S), NEW d \in Cases \ S
    PROVE  /\ \A n \in ResourceKey : lease'[d][n] = lease[d][n]
           /\ NeedsKeys(d)' <=> NeedsKeys(d)
           /\ HoldsKeys(d)' <=> HoldsKeys(d)
<1>1. \A n \in ResourceKey : lease'[d][n] = lease[d][n]
  <2>1. \A n \in ResourceKey : n \in Names \ SlotKinds
    BY ConstantsAssumption DEF Names, SlotKinds, Kinds
  <2>2. lease'[d] = lease[d] \/ lease'[d] = Reconciled[d]
    BY DEF Others, Kept, FreedIfOver
  <2> QED
    BY <2>1, <2>2, ReconciledRow
<1>2. NeedsKeys(d)' <=> NeedsKeys(d)
  BY DEF Others, NeedsKeys
<1>3. HoldsKeys(d)' <=> HoldsKeys(d)
  BY <1>1, KeyNames DEF HoldsKeys
<1> QED
  BY <1>1, <1>2, <1>3

\* A step of c that takes no key, and gives none up that c still needs.
LEMMA NoNewKey ==
    ASSUME KeyInv, NEW S, Others(S), SlotInv',
           \A c \in S : NeedsKeys(c)' => HoldsKeys(c)',
           \A c \in S : \A n \in ResourceKey : lease'[c][n] = "live" => lease[c][n] = "live"
    PROVE  KeyInv'
<1>1. Rows
  BY DEF KeyInv, SlotInv
<1>2. \A c \in Cases : NeedsKeys(c)' => HoldsKeys(c)'
  BY <1>1, OtherKeys DEF KeyInv
<1>3. \A c \in Cases : \A n \in ResourceKey : lease'[c][n] = "live" => lease[c][n] = "live"
  BY <1>1, OtherKeys
<1>4. OneHolder'
  BY <1>3 DEF KeyInv, OneHolder
<1> QED
  BY <1>2, <1>4 DEF KeyInv

\* The steps that leave the keys of the case alone.
Quiet(c) ==
    /\ \A n \in ResourceKey : lease'[c][n] = lease[c][n]
    /\ NeedsKeys(c)' => NeedsKeys(c)

LEMMA QuietKeepsKeys ==
    ASSUME KeyInv, NEW c \in Cases, Others({c}), SlotInv', Quiet(c)
    PROVE  KeyInv'
<1>1. NeedsKeys(c)' => HoldsKeys(c)'
  BY KeyNames DEF KeyInv, Quiet, HoldsKeys
<1> QED
  BY <1>1, NoNewKey DEF Quiet

LEMMA QuietSteps ==
    ASSUME KeyInv, NEW c \in Cases
    PROVE  /\ Claim(c) \/ Evaluate(c) \/ Dispatch(c) \/ ProbeDone(c) \/ Settle(c) => Quiet(c)
           /\ Timeout(c) \/ ReleaseSlot(c) \/ Finish(c) \/ Heartbeat(c) => Quiet(c)
           /\ Crash(c) \/ JobError(c) \/ Cancel(c) \/ Retry(c) \/ Approve(c) => Quiet(c)
<1>1. Rows /\ CaseInv(c) /\ ResourceKey \subseteq Names /\ ResourceKey \cap Kinds = {}
  BY ConstantsAssumption DEF KeyInv, SlotInv, Names
<1>2. Claim(c) => Quiet(c)
  <2>1. state[c] \in CLAIMABLE_STATES /\ EntryPoint(c) \in {"run", "create"} =>
          KindOf(state[c]) = "TRIAGE"
    BY DEF EntryPoint, CLAIMABLE_STATES, KindOf, REMEDIATION_PHASE_STATES,
       TERMINATION_PENDING_STATES
  <2> HIDE DEF EntryPoint
  <2> QED
    BY <1>1, <2>1 DEF Claim, leases, Rows, Quiet, NeedsKeys
<1>3. Evaluate(c) => Quiet(c)
  BY <1>1
  DEF Evaluate, Move, Goto, Leave, leases, Rows, CaseInv, AttemptInPhase, Quiet, NeedsKeys,
      KindOf, Unfinished, Finished, REMEDIATION_PHASE_STATES
<1>4. Dispatch(c) => Quiet(c)
  BY <1>1
  DEF Dispatch, StillIn, Move, Goto, Leave, leases, Rows, CaseInv, AttemptInPhase, Quiet,
      NeedsKeys, KindOf,
      Unfinished, Finished, REMEDIATION_PHASE_STATES
<1>5. ProbeDone(c) => Quiet(c)
  BY <1>1
  DEF ProbeDone, Release, StillIn, Move, Goto, Leave, Kinds, leases, Rows, CaseInv,
      AttemptInPhase, Quiet, NeedsKeys, KindOf, Unfinished, Finished,
      REMEDIATION_PHASE_STATES
<1>6. Settle(c) => Quiet(c)
  BY <1>1
  DEF Settle, Move, Goto, Phase, leases, Rows, CaseInv, AttemptInPhase, Quiet, NeedsKeys, KindOf,
      Unfinished, Finished, REMEDIATION_PHASE_STATES
<1>7. Timeout(c) => Quiet(c)
  BY <1>1
  DEF Timeout, Move, Goto, Leave, Park, Phase, JobInPlace, leases, Rows, CaseInv,
      AttemptInPhase, Quiet, NeedsKeys, KindOf, Unfinished, Finished,
      REMEDIATION_PHASE_STATES
<1>8. ReleaseSlot(c) => Quiet(c)
  BY <1>1
  DEF ReleaseSlot, Release, Goto, Kinds, leases, Rows, CaseInv, AttemptInPhase, Quiet,
      NeedsKeys, KindOf, Unfinished, Finished, REMEDIATION_PHASE_STATES
<1>9. Finish(c) => Quiet(c)
  BY <1>1
  DEF Finish, Move, Goto, Leave, Phase, leases, Rows, CaseInv, AttemptInPhase, Quiet,
      NeedsKeys, KindOf, Unfinished, Finished, REMEDIATION_PHASE_STATES
<1>10. Heartbeat(c) => Quiet(c)
  BY <1>1
  DEF Heartbeat, leases, Rows, CaseInv, AttemptInPhase, Quiet, NeedsKeys, KindOf,
      Unfinished, Finished, REMEDIATION_PHASE_STATES
<1>11. Crash(c) => Quiet(c)
  BY <1>1
  DEF Crash, Leave, leases, Rows, CaseInv, AttemptInPhase, Quiet, NeedsKeys, KindOf,
      Unfinished, Finished, REMEDIATION_PHASE_STATES
<1>12. JobError(c) => Quiet(c)
  BY <1>1
  DEF JobError, Move, Leave, Park, Phase, leases, Rows, CaseInv, AttemptInPhase, Quiet,
      NeedsKeys, KindOf, Unfinished, Finished, REMEDIATION_PHASE_STATES
<1>13. Cancel(c) => Quiet(c)
  BY <1>1
  DEF Cancel, Move, Phase, leases, Rows, CaseInv, AttemptInPhase, Quiet, NeedsKeys, KindOf,
      Unfinished, Finished, REMEDIATION_PHASE_STATES
<1>14. Retry(c) => Quiet(c)
  BY <1>1
  DEF Retry, Move, leases, Rows, CaseInv, AttemptInPhase, Quiet, NeedsKeys, KindOf,
      Unfinished, Finished, REMEDIATION_PHASE_STATES
<1>15. Approve(c) => Quiet(c)
  BY <1>1
  DEF Approve, Move, SlotInPhase, leases, Rows, CaseInv, AttemptInPhase, Quiet, NeedsKeys, KindOf,
      Unfinished, Finished, REMEDIATION_PHASE_STATES, TERMINATION_PENDING_STATES
<1> QED
  BY <1>2, <1>3, <1>4, <1>5, <1>6, <1>7, <1>8, <1>9, <1>10, <1>11, <1>12, <1>13, <1>14, <1>15

\* The steps that acquire or bind a slot, which is no resource key.
LEMMA SlotsAreNoKeys ==
    ASSUME KeyInv, NEW c \in Cases, NEW k \in Kinds, NEW x,
           lease' = [Reconciled EXCEPT ![c][k] = x]
    PROVE  \A n \in ResourceKey : lease'[c][n] = lease[c][n]
<1>1. \A n \in ResourceKey : n \in Names \ SlotKinds /\ n # k
  BY ConstantsAssumption DEF Names, SlotKinds, Kinds
<1>2. Rows /\ Reconciled \in [Cases -> [Names -> {"none", "live"}]]
  BY ReconciledTables DEF KeyInv, SlotInv
<1> QED
  BY <1>1, <1>2, ReconciledRow

LEMMA QuietSlots ==
    ASSUME KeyInv, NEW c \in Cases
    PROVE  AcquireProbe(c) \/ RunNew(c) \/ RunResume(c) \/ Create(c) => Quiet(c)
<1>1. Rows /\ CaseInv(c) /\ "PROBE" \in Kinds /\ KindOf(state[c]) \in Kinds
  BY DEF KeyInv, SlotInv, KindOf, Kinds
<1>2. ASSUME NEW k \in Kinds, NEW next, Acquire(c, k, next)
      PROVE  \A n \in ResourceKey : lease'[c][n] = lease[c][n]
  BY <1>2, SlotsAreNoKeys DEF Acquire
<1>3. AcquireProbe(c) => Quiet(c)
  <2> SUFFICES ASSUME AcquireProbe(c) PROVE Quiet(c)
    OBVIOUS
  <2>1. \A n \in ResourceKey : lease'[c][n] = lease[c][n]
    BY <1>1, <1>2 DEF AcquireProbe
  <2>2. NeedsKeys(c)' => NeedsKeys(c)
    BY <1>1 DEF AcquireProbe, Acquire, Goto, Leave, NeedsKeys, Rows
  <2> QED
    BY <2>1, <2>2 DEF Quiet
<1>4. RunNew(c) => Quiet(c)
  <2> SUFFICES ASSUME RunNew(c) PROVE Quiet(c)
    OBVIOUS
  <2>1. \A n \in ResourceKey : lease'[c][n] = lease[c][n]
    BY <1>1, <1>2 DEF RunNew
  <2>2. NeedsKeys(c)' => NeedsKeys(c)
    BY <1>1 DEF RunNew, NeedsKeys, Rows
  <2> QED
    BY <2>1, <2>2 DEF Quiet
<1>5. RunResume(c) => Quiet(c)
  <2> SUFFICES ASSUME RunResume(c) PROVE Quiet(c)
    OBVIOUS
  <2>1. \A n \in ResourceKey : lease'[c][n] = lease[c][n]
    BY <1>1, SlotsAreNoKeys DEF RunResume, Bind, leases
  <2>2. NeedsKeys(c)' => NeedsKeys(c)
    BY <1>1 DEF RunResume, NeedsKeys, Rows
  <2> QED
    BY <2>1, <2>2 DEF Quiet
<1>6. Create(c) => Quiet(c)
  <2> SUFFICES ASSUME Create(c) PROVE Quiet(c)
    OBVIOUS
  <2>1. \A n \in ResourceKey : lease'[c][n] = lease[c][n]
    BY <1>1, SlotsAreNoKeys DEF Create, Bind, leases
  <2>2. KindOf(state'[c]) = KindOf(state[c])
    BY <1>1 DEF Create, StillIn, Move, Phase, KindOf, REMEDIATION_PHASE_STATES, Rows
  <2>3. NeedsKeys(c)' => NeedsKeys(c)
    BY <2>2 DEF Create, NeedsKeys
  <2> QED
    BY <2>1, <2>3 DEF Quiet
<1> QED
  BY <1>3, <1>4, <1>5, <1>6

LEMMA ReleaseKeysKeepsKeys ==
    ASSUME KeyInv, NEW c \in Cases, Others({c}), SlotInv', ReleaseKeys(c)
    PROVE  KeyInv'
<1>1. Rows /\ CaseInv(c)
  BY DEF KeyInv, SlotInv
<1>2. ~NeedsKeys(c)'
  BY <1>1 DEF ReleaseKeys, Goto, NeedsKeys, CaseInv, JobInPlace, Rows
<1>3. \A n \in ResourceKey : lease'[c][n] # "live"
  BY <1>1 DEF ReleaseKeys, Release, Rows, Names
<1> QED
  BY <1>2, <1>3, NoNewKey

LEMMA TerminateRunningKeepsKeys ==
    ASSUME KeyInv, NEW c \in Cases, Others({c}), SlotInv', TerminateRunning(c)
    PROVE  KeyInv'
<1>1. Rows /\ CaseInv(c)
  BY DEF KeyInv, SlotInv
<1>2. CASE att' = [att EXCEPT ![c] = "none"] /\ Release(c, Names)
  <2>1. ~NeedsKeys(c)'
    BY <1>1, <1>2 DEF TerminateRunning, Leave, NeedsKeys, Rows, Unfinished
  <2>2. \A n \in ResourceKey : lease'[c][n] # "live"
    BY <1>1, <1>2 DEF Release, Rows, Names
  <2> QED
    BY <2>1, <2>2, NoNewKey
<1>3. CASE Park(c) /\ UNCHANGED <<state, lease>>
  <2>1. NeedsKeys(c)' => NeedsKeys(c)
    BY <1>1, <1>3
    DEF TerminateRunning, Park, Leave, NeedsKeys, Rows, CaseInv, JobInPlace, AttemptInPhase,
        Unfinished, Finished
  <2> QED
    BY <1>3, <2>1, QuietKeepsKeys DEF Quiet
<1> QED
  BY <1>2, <1>3 DEF TerminateRunning

\* A key is taken only when nobody else has it.
LEMMA AcquireKeysKeepsKeys ==
    ASSUME KeyInv, NEW c \in Cases, Others({c}), SlotInv', AcquireKeys(c)
    PROVE  KeyInv'
<1>1. Rows /\ CaseInv(c)
  BY DEF KeyInv, SlotInv
<1>2. PICK t, got, gone :
         /\ \/ t = lease /\ UNCHANGED bound
            \/ t = Reconciled /\ bound' = StillBound
         /\ got \subseteq ResourceKey /\ gone \subseteq ResourceKey
         /\ lease' = Taking(t, c, got, gone)
         /\ \A n \in got : t[c][n] = "live" \/ in_use(t, n) = {}
         /\ \A n \in gone : t[c][n] # "live" /\ in_use(t, n) # {}
         /\ (got = ToSet(resource_keys[c]) /\ gone = {}) \/ pc' = [pc EXCEPT ![c] = "idle"]
  BY <1>1, KeysTaken
<1>3. t \in [Cases -> [Names -> {"none", "live"}]]
  BY <1>1, <1>2, ReconciledTables DEF Rows
<1>4. \A n \in ResourceKey : n \in Names \ SlotKinds
  BY ConstantsAssumption DEF Names, SlotKinds, Kinds
<1>5. \A d \in Cases : \A n \in ResourceKey : t[d][n] = lease[d][n]
  BY <1>1, <1>2, <1>4, ReconciledRow
<1>6. /\ \A n \in got : lease'[c][n] = "live"
      /\ \A n \in ResourceKey \ (got \cup gone) : lease'[c][n] = lease[c][n]
  <2>1. \A n \in Names : lease'[c][n] = CASE n \in got -> "live"
                                          [] n \in gone -> "none"
                                          [] OTHER -> t[c][n]
    BY <1>2, <1>3 DEF Taking
  <2>2. \A n \in got : n \in Names \ gone
    BY <1>2, <1>4
  <2>3. \A n \in got : lease'[c][n] = "live"
    BY <2>1, <2>2
  <2>4. \A n \in ResourceKey \ (got \cup gone) : lease'[c][n] = t[c][n]
    BY <1>2, <1>4, <2>1
  <2> QED
    BY <1>5, <2>3, <2>4
<1>7. \A n \in gone \ got : lease'[c][n] = "none"
  BY <1>2, <1>3, <1>4 DEF Taking
<1>8. \A d \in Cases \ {c} : \A n \in ResourceKey : lease'[d][n] = lease[d][n]
  BY <1>1, OtherKeys
<1>9. OneHolder'
  <2>1. \A n \in got : \A d \in Cases \ {c} : lease[d][n] # "live"
    BY <1>2, <1>5 DEF in_use, KeyInv, OneHolder
  <2>2. \A n \in ResourceKey \ got : lease'[c][n] = "live" => lease[c][n] = "live"
    BY <1>6, <1>7
  <2> QED
    BY <1>8, <2>1, <2>2 DEF KeyInv, OneHolder
<1>10. NeedsKeys(c)' => HoldsKeys(c)'
  <2>1. CASE got = ToSet(resource_keys[c]) /\ gone = {}
    BY <1>6, <2>1 DEF HoldsKeys
  <2>2. CASE pc' = [pc EXCEPT ![c] = "idle"]
    <3> SUFFICES ASSUME NeedsKeys(c)' PROVE HoldsKeys(c)'
      OBVIOUS
    <3>1. NeedsKeys(c)
      BY <1>1, <2>2 DEF AcquireKeys, NeedsKeys, Rows
    <3>2. \A n \in ToSet(resource_keys[c]) : lease[c][n] = "live" /\ n \in ResourceKey
      BY <3>1, KeyNames DEF KeyInv, HoldsKeys
    <3> QED
      BY <1>2, <1>5, <1>6, <3>2 DEF HoldsKeys
  <2> QED
    BY <1>2, <2>1, <2>2
<1>11. \A d \in Cases \ {c} : NeedsKeys(d)' => HoldsKeys(d)'
  BY <1>1, OtherKeys DEF KeyInv
<1> QED
  BY <1>9, <1>10, <1>11 DEF KeyInv

LEMMA KeyInit == Init => KeyInv
<1> SUFFICES ASSUME Init PROVE KeyInv
  OBVIOUS
<1>1. OneHolder
  BY DEF Init, OneHolder, Names
<1>2. \A c \in Cases : ~NeedsKeys(c)
  BY DEF Init, NeedsKeys, Unfinished
<1> QED
  BY <1>1, <1>2, InitSlot DEF KeyInv

LEMMA KeyStep ==
    ASSUME Lapsing = {}, KeyInv, [Next]_vars
    PROVE  KeyInv'
<1>1. SlotInv /\ SlotInv'
  BY SlotStep DEF KeyInv
<1>2. CASE UNCHANGED vars
  <2>1. Others({})
    BY <1>2 DEF vars, Others, Kept
  <2> QED
    BY <1>1, <2>1, NoNewKey
<1>3. CASE Reap
  BY <1>1, <1>3, ReapKeepsSlots, NoNewKey
<1>4. ASSUME NEW c \in Cases,
             \/ JobStep(c) \/ Heartbeat(c) \/ Lapse(c) \/ Crash(c) \/ JobError(c)
             \/ Cancel(c) \/ Retry(c) \/ Approve(c)
      PROVE  KeyInv'
  <2>1. ~Lapse(c)
    BY DEF Lapse, MayLapse
  <2>2. Others({c})
    BY <1>1, <1>4, <2>1, ClaimKeepsSlots, EvaluateKeepsSlots, DispatchKeepsSlots,
       AcquireProbeKeepsSlots, ProbeDoneKeepsSlots, AcquireKeysKeepsSlots, RunNewKeepsSlots,
       RunResumeKeepsSlots, CreateKeepsSlots, SettleKeepsSlots, TimeoutKeepsSlots,
       TerminateRunningKeepsSlots, ReleaseSlotKeepsSlots, ReleaseKeysKeepsSlots,
       FinishKeepsSlots, HeartbeatKeepsSlots, CrashKeepsSlots, JobErrorKeepsSlots,
       CancelKeepsSlots, RetryKeepsSlots, ApproveKeepsSlots DEF JobStep
  <2>3. Quiet(c) \/ ReleaseKeys(c) \/ TerminateRunning(c) \/ AcquireKeys(c)
    BY <1>4, <2>1, QuietSteps, QuietSlots DEF JobStep
  <2> QED
    BY <1>1, <2>2, <2>3, QuietKeepsKeys, ReleaseKeysKeepsKeys, TerminateRunningKeepsKeys,
       AcquireKeysKeepsKeys
<1> QED
  BY <1>2, <1>3, <1>4 DEF Next

LEMMA KeyInvExclusive == KeyInv => ExclusiveKeys
<1> SUFFICES ASSUME KeyInv PROVE ExclusiveKeys
  OBVIOUS
<1>1. \A c \in Running("REMEDIATION") : c \in Cases /\ HoldsKeys(c)
  BY DEF KeyInv, Running, NeedsKeys
<1> QED
  BY <1>1, KeyNames DEF KeyInv, OneHolder, HoldsKeys, ExclusiveKeys

\* As long as no lease lapses that a case relies on, two remediations that share a
\* resource key never run at the same time, for any manifests: a key has one holder, and
\* a remediation holds all of its keys from before its session is created until it ends,
\* also across a crash, a failed DELETE and the job that takes the case up again.
THEOREM KeysAreExclusive ==
    ASSUME Lapsing = {}
    PROVE  Spec => []ExclusiveKeys
<1>1. Spec => []KeyInv
  BY KeyInit, KeyStep, PTL DEF Spec
<1> QED
  BY <1>1, KeyInvExclusive, PTL
-----------------------------------------------------------------------------
(***************************************************************************)
(* Type correctness, whatever lapses: among the types, that a case has one  *)
(* place in the queue at most.                                              *)
(***************************************************************************)
\* A queue without a case in it twice.
QueueOK(q) == q \in Seq(Cases) /\ IsInjective(q)

LeaseTable == [Cases -> [Names -> {"none", "live", "lapsed"}]]

LEMMA AppendOK ==
    ASSUME NEW q, QueueOK(q), NEW c \in Cases, ~Contains(q, c)
    PROVE  QueueOK(Append(q, c))
<1>1. q \in Seq(Cases) /\ Len(q) \in Nat /\ DOMAIN q = 1..Len(q)
  BY DEF QueueOK
<1>2. /\ Append(q, c) \in Seq(Cases) /\ Len(Append(q, c)) = Len(q) + 1
      /\ DOMAIN Append(q, c) = 1..(Len(q) + 1)
      /\ \A i \in 1..Len(q) : Append(q, c)[i] = q[i]
      /\ Append(q, c)[Len(q) + 1] = c
  BY <1>1
<1>3. ASSUME NEW i \in 1..(Len(q) + 1), NEW j \in 1..(Len(q) + 1),
             Append(q, c)[i] = Append(q, c)[j]
      PROVE  i = j
  <2>1. CASE i \in 1..Len(q) /\ j \in 1..Len(q)
    BY <1>1, <1>2, <1>3, <2>1 DEF QueueOK, IsInjective
  <2>2. CASE i = Len(q) + 1 \/ j = Len(q) + 1
    BY <1>1, <1>2, <1>3, <2>2 DEF Contains
  <2> QED
    BY <1>1, <2>1, <2>2
<1> QED
  BY <1>2, <1>3 DEF QueueOK, IsInjective

\* What RemoveAt() leaves is the queue with the places behind p moved up by one.
LEMMA RemoveOK ==
    ASSUME NEW q, QueueOK(q), NEW p \in DOMAIN q
    PROVE  QueueOK(RemoveAt(q, p))
<1> DEFINE u == SubSeq(q, 1, p - 1)
           v == SubSeq(q, p + 1, Len(q))
           r == RemoveAt(q, p)
<1>1. q \in Seq(Cases) /\ Len(q) \in Nat /\ DOMAIN q = 1..Len(q) /\ p \in 1..Len(q)
  BY DEF QueueOK
<1>2. \A i \in 1..Len(q) : q[i] \in Cases
  BY <1>1
<1>3. /\ u \in Seq(Cases) /\ Len(u) = p - 1 /\ \A i \in 1..(p - 1) : u[i] = q[i]
  BY <1>1, <1>2
<1>4. /\ v \in Seq(Cases) /\ Len(v) = Len(q) - p
      /\ \A i \in 1..(Len(q) - p) : v[i] = q[p + i]
  <2>1. p + 1 \in Int /\ Len(q) \in Int /\ \A i \in (p + 1)..Len(q) : q[i] \in Cases
    BY <1>1, <1>2
  <2>2. /\ SubSeq(q, p + 1, Len(q)) \in Seq(Cases)
        /\ Len(SubSeq(q, p + 1, Len(q))) = IF p + 1 <= Len(q) THEN Len(q) - (p + 1) + 1 ELSE 0
        /\ \A i \in 1..(Len(q) - (p + 1) + 1) : SubSeq(q, p + 1, Len(q))[i] = q[p + 1 + i - 1]
    BY <2>1, SubSeqProperties
  <2> QED
    BY <1>1, <2>2
<1>5. r = u \o v
  BY DEF RemoveAt
<1> HIDE DEF u, v, r
<1>6. /\ r \in Seq(Cases) /\ Len(r) = Len(q) - 1 /\ DOMAIN r = 1..(Len(q) - 1)
      /\ \A i \in 1..(Len(q) - 1) : r[i] = IF i <= p - 1 THEN u[i] ELSE v[i - (p - 1)]
  <2>1. /\ Len(u \o v) = Len(u) + Len(v) /\ u \o v \in Seq(Cases)
        /\ \A i \in 1..(Len(u) + Len(v)) :
              (u \o v)[i] = IF i <= Len(u) THEN u[i] ELSE v[i - Len(u)]
    BY <1>3, <1>4, ConcatProperties
  <2> QED
    <3>1. /\ Len(r) = Len(u) + Len(v) /\ r \in Seq(Cases)
          /\ \A i \in 1..(Len(u) + Len(v)) :
                r[i] = IF i <= Len(u) THEN u[i] ELSE v[i - Len(u)]
      BY <1>5, <2>1
    <3>2. Len(u) + Len(v) = Len(q) - 1 /\ Len(u) = p - 1
      BY <1>1, <1>3, <1>4
    <3> QED
      BY <3>1, <3>2
<1>7. \A i \in 1..(Len(q) - 1) : r[i] = q[IF i < p THEN i ELSE i + 1]
  <2> TAKE i \in 1..(Len(q) - 1)
  <2>1. CASE i < p
    BY <1>1, <1>3, <1>6, <2>1
  <2>2. CASE ~(i < p)
    <3>1. i - (p - 1) \in 1..(Len(q) - p) /\ p + (i - (p - 1)) = i + 1
      BY <1>1, <2>2
    <3>2. r[i] = v[i - (p - 1)]
      BY <1>1, <1>6, <2>2
    <3> QED
      BY <1>1, <1>4, <2>2, <3>1, <3>2
  <2> QED
    BY <2>1, <2>2
<1>8. ASSUME NEW i \in DOMAIN r, NEW j \in DOMAIN r, r[i] = r[j] PROVE i = j
  <2> DEFINE x == IF i < p THEN i ELSE i + 1
             y == IF j < p THEN j ELSE j + 1
  <2>1. x \in 1..Len(q) /\ y \in 1..Len(q) /\ q[x] = q[y]
    BY <1>1, <1>6, <1>7, <1>8
  <2>2. x = y
    BY <1>1, <2>1 DEF QueueOK, IsInjective
  <2> QED
    BY <1>1, <1>6, <2>2
<1> QED
  BY <1>6, <1>8 DEF QueueOK, IsInjective, r

\* The parts of TypeOK.
CaseTyped == state \in [Cases -> CaseState]
JobTyped == run \in [Cases -> {"event", "case", "none"}] /\ pc \in [Cases -> PCs]
AttemptTyped == att \in [Cases -> {"none"} \cup Unfinished \cup Finished]
LeaseTyped == lease \in LeaseTable /\ bound \in [Cases -> BOOLEAN]
QueueTyped == waits \in [Cases -> Kinds \cup {"none", "scope"}] /\ QueueOK(queue)
FaultTyped == faults \in 0..MaxFaults

LEMMA TypeParts ==
    TypeOK <=> CaseTyped /\ JobTyped /\ AttemptTyped /\ LeaseTyped /\ QueueTyped /\ FaultTyped
BY DEF TypeOK, CaseTyped, JobTyped, AttemptTyped, LeaseTyped, QueueTyped, FaultTyped,
       LeaseTable, QueueOK

LEMMA TypePartsAfter ==
    TypeOK' <=> CaseTyped' /\ JobTyped' /\ AttemptTyped' /\ LeaseTyped' /\ QueueTyped'
                  /\ FaultTyped'
BY DEF TypeOK, CaseTyped, JobTyped, AttemptTyped, LeaseTyped, QueueTyped, FaultTyped,
       LeaseTable, QueueOK

\* What a step leaves alone keeps its type.
LEMMA KeptTypes ==
    ASSUME TypeOK
    PROVE  /\ UNCHANGED state => CaseTyped'
           /\ UNCHANGED <<run, pc>> => JobTyped'
           /\ UNCHANGED att => AttemptTyped'
           /\ UNCHANGED <<lease, bound>> => LeaseTyped'
           /\ UNCHANGED <<waits, queue>> => QueueTyped'
           /\ UNCHANGED faults => FaultTyped'
BY TypeParts DEF CaseTyped, JobTyped, AttemptTyped, LeaseTyped, QueueTyped, FaultTyped,
       QueueOK, LeaseTable

LEMMA MarkTyped ==
    ASSUME TypeOK, NEW c \in Cases, NEW label \in Kinds \cup {"scope"}, mark_waiting(c, label)
    PROVE  QueueTyped'
<1>1. QueueTyped
  BY TypeParts
<1>2. QueueOK(queue')
  BY <1>1, AppendOK DEF mark_waiting, QueueTyped
<1> QED
  BY <1>1, <1>2 DEF mark_waiting, QueueTyped

LEMMA ClearTyped ==
    ASSUME TypeOK, NEW c \in Cases, clear_waiting(c)
    PROVE  QueueTyped'
<1>1. QueueTyped
  BY TypeParts
<1>2. QueueOK(queue')
  <2>1. CASE Contains(queue, c)
    <3>1. \E i \in DOMAIN queue : queue[i] = c
      BY <1>1, <2>1 DEF Contains, QueueOK, QueueTyped
    <3>2. Position(c) \in DOMAIN queue
      BY <3>1 DEF Position
    <3> QED
      BY <1>1, <2>1, <3>2, RemoveOK DEF clear_waiting, QueueTyped
  <2>2. CASE ~Contains(queue, c)
    BY <1>1, <2>2 DEF clear_waiting, QueueTyped
  <2> QED
    BY <2>1, <2>2
<1> QED
  BY <1>1, <1>2 DEF clear_waiting, QueueTyped

LEMMA JobTypes ==
    ASSUME TypeOK, NEW c \in Cases
    PROVE  /\ Leave(c) => JobTyped'
           /\ \A step \in PCs : Goto(c, step) => JobTyped'
<1>1. JobTyped
  BY TypeParts
<1> QED
  BY <1>1 DEF JobTyped, Leave, Goto, PCs

LEMMA PhaseTyped ==
    ASSUME NEW c \in Cases
    PROVE  /\ Phase(c).intent \in CaseState /\ Phase(c).running \in CaseState
           /\ Phase(c).pending \in CaseState /\ Phase(c).failed \in CaseState
           /\ Phase(c).cancelled \in CaseState /\ Phase(c).done \in CaseState
BY DEF Phase, CaseState, GENERIC_STATES, REMEDIATION_PHASE_STATES

LEMMA MoveTyped ==
    ASSUME TypeOK, NEW c \in Cases
    PROVE  \A to \in CaseState : Move(c, to) => CaseTyped'
BY DEF TypeOK, Move, CaseTyped

LEMMA ParkTyped ==
    ASSUME TypeOK, NEW c \in Cases
    PROVE  /\ Park(c) => AttemptTyped'
           /\ \A x \in {"none"} \cup Unfinished \cup Finished :
                 att' = [att EXCEPT ![c] = x] => AttemptTyped'
BY DEF TypeOK, Park, AttemptTyped, Unfinished, Finished

LEMMA FaultStep ==
    ASSUME TypeOK, Fault
    PROVE  FaultTyped'
BY ConstantsAssumption DEF TypeOK, Fault, FaultTyped

LEMMA TablesTyped ==
    ASSUME TypeOK
    PROVE  /\ Reconciled \in LeaseTable /\ StillBound \in [Cases -> BOOLEAN]
           /\ expire_stale(Reconciled) \in LeaseTable
<1>1. Reconciled \in LeaseTable
  BY DEF TypeOK, Reconciled, LeaseTable, Names, Kinds
<1> QED
  BY <1>1 DEF TypeOK, StillBound, LeaseTable, expire_stale

LEMMA KindOfTyped ==
    ASSUME NEW s
    PROVE  KindOf(s) \in SlotKinds /\ KindOf(s) \in Kinds /\ KindOf(s) \in Names
BY DEF KindOf, SlotKinds, Kinds, Names

\* One lease of a table changes.
LEMMA RowTyped ==
    ASSUME NEW t \in LeaseTable, NEW c \in Cases, NEW n \in Names,
           NEW x \in {"none", "live", "lapsed"}
    PROVE  [t EXCEPT ![c][n] = x] \in LeaseTable
BY DEF LeaseTable

LEMMA ReleaseTyped ==
    ASSUME TypeOK, NEW c \in Cases, NEW names, Release(c, names)
    PROVE  lease' \in LeaseTable
BY DEF TypeOK, Release, LeaseTable

LEMMA AcquireTyped ==
    ASSUME TypeOK, NEW c \in Cases, NEW k \in Kinds, NEW next \in PCs, Acquire(c, k, next)
    PROVE  LeaseTyped' /\ QueueTyped' /\ JobTyped'
<1>1. k \in Names
  BY DEF Names
<1>2. LeaseTyped'
  <2>1. PICK x \in {"none", "live", "lapsed"} : lease' = [Reconciled EXCEPT ![c][k] = x]
    BY DEF Acquire
  <2>2. bound' = StillBound
    BY DEF Acquire
  <2> QED
    BY <1>1, <2>1, <2>2, TablesTyped, RowTyped DEF LeaseTyped
<1>3. CASE clear_waiting(c) /\ Goto(c, next)
  BY <1>2, <1>3, ClearTyped, JobTypes
<1>4. CASE Leave(c) /\ \E label \in Kinds \cup {"scope"} : mark_waiting(c, label)
  BY <1>2, <1>4, MarkTyped, JobTypes
<1>5. \/ clear_waiting(c) /\ Goto(c, next)
      \/ Leave(c) /\ \E label \in Kinds \cup {"scope"} : mark_waiting(c, label)
  BY Zenon DEF Acquire
<1> QED
  BY <1>3, <1>4, <1>5

LEMMA BindTyped ==
    ASSUME TypeOK, NEW c \in Cases, NEW k \in Kinds, Bind(c, k)
    PROVE  LeaseTyped'
<1>1. k \in Names
  BY DEF Names
<1> QED
  BY <1>1, TablesTyped, RowTyped DEF Bind, LeaseTyped

\* One lemma for every kind of step: the case's job, the leases, the rest.
LEMMA ClaimTyped ==
    ASSUME TypeOK, NEW c \in Cases, Claim(c)
    PROVE  TypeOK'
<1>1. EntryPoint(c) \in PCs
  BY DEF EntryPoint, PCs
<1>2. JobTyped'
  BY <1>1 DEF TypeOK, Claim, JobTyped
<1> QED
  BY <1>2, TypePartsAfter, KeptTypes DEF Claim, leases, waiting

LEMMA EvaluateTyped ==
    ASSUME TypeOK, NEW c \in Cases, Evaluate(c) \/ Dispatch(c)
    PROVE  TypeOK'
<1>1. /\ {"run", "probe"} \subseteq PCs
      /\ {"TRIAGE_CREATE_INTENT", "POLICY_REJECTED", "PROBE_VALIDATING_BASE",
          "REMEDIATION_HUMAN_BLOCKED"} \subseteq CaseState
  BY DEF PCs, CaseState, GENERIC_STATES, REMEDIATION_PHASE_STATES
<1>2. CaseTyped' /\ JobTyped'
  BY <1>1, MoveTyped, KeptTypes, JobTypes DEF Evaluate, Dispatch
<1>3. UNCHANGED <<att, lease, bound, waits, queue, faults>>
  BY DEF Evaluate, Dispatch, leases, waiting
<1> QED
  BY <1>2, <1>3, TypePartsAfter, KeptTypes

LEMMA AcquireProbeTyped ==
    ASSUME TypeOK, NEW c \in Cases, AcquireProbe(c)
    PROVE  TypeOK'
<1>1. "PROBE" \in Kinds /\ "probing" \in PCs
  BY DEF Kinds, PCs
<1>2. LeaseTyped' /\ QueueTyped' /\ JobTyped'
  BY <1>1, AcquireTyped DEF AcquireProbe
<1>3. UNCHANGED <<state, att, faults>>
  BY DEF AcquireProbe
<1> QED
  BY <1>2, <1>3, TypePartsAfter, KeptTypes

LEMMA ProbeDoneTyped ==
    ASSUME TypeOK, NEW c \in Cases, ProbeDone(c)
    PROVE  TypeOK'
<1>1. /\ "keys" \in PCs
      /\ {"REMEDIATION_CREATE_INTENT", "CI_PASSED", "REMEDIATION_FAILED"} \subseteq CaseState
  BY DEF PCs, CaseState, GENERIC_STATES, REMEDIATION_PHASE_STATES
<1>2. CaseTyped' /\ JobTyped' /\ FaultTyped'
  BY <1>1, MoveTyped, KeptTypes, JobTypes, FaultStep DEF ProbeDone
<1>3. LeaseTyped'
  BY ReleaseTyped DEF ProbeDone, LeaseTyped, TypeOK
<1>4. UNCHANGED <<att, waits, queue>>
  BY DEF ProbeDone, waiting
<1> QED
  BY <1>2, <1>3, <1>4, TypePartsAfter, KeptTypes

LEMMA AcquireKeysTyped ==
    ASSUME TypeOK, NEW c \in Cases, AcquireKeys(c)
    PROVE  TypeOK'
<1>1. PICK t, got, gone :
         /\ \/ t = lease /\ UNCHANGED bound
            \/ t = Reconciled /\ bound' = StillBound
         /\ lease' = Taking(t, c, got, gone)
  BY KeysTaken
<1>2. t \in LeaseTable /\ bound' \in [Cases -> BOOLEAN]
  BY <1>1, TablesTyped DEF TypeOK, LeaseTable
<1>3. LeaseTyped'
  BY <1>1, <1>2 DEF Taking, LeaseTyped, LeaseTable
<1>4. UNCHANGED <<state, att, faults>>
  BY DEF AcquireKeys
<1>5. "run" \in PCs
  BY DEF PCs
<1>6. \/ clear_waiting(c) /\ Goto(c, "run")
      \/ mark_waiting(c, "scope") /\ Leave(c)
  BY Zenon DEF AcquireKeys
<1>7. QueueTyped' /\ JobTyped'
  BY <1>5, <1>6, ClearTyped, MarkTyped, JobTypes
<1> QED
  BY <1>3, <1>4, <1>7, TypePartsAfter, KeptTypes

LEMMA RunNewTyped ==
    ASSUME TypeOK, NEW c \in Cases, RunNew(c)
    PROVE  TypeOK'
<1>1. KindOf(state[c]) \in Kinds /\ "create" \in PCs
  BY KindOfTyped DEF PCs
<1>2. LeaseTyped' /\ QueueTyped' /\ JobTyped'
  BY <1>1, AcquireTyped DEF RunNew
<1>3. UNCHANGED <<state, att, faults>>
  BY DEF RunNew
<1> QED
  BY <1>2, <1>3, TypePartsAfter, KeptTypes

LEMMA RunResumeTyped ==
    ASSUME TypeOK, NEW c \in Cases, RunResume(c)
    PROVE  TypeOK'
<1>1. KindOf(state[c]) \in Kinds /\ {"timeout", "session"} \subseteq PCs
  BY KindOfTyped DEF PCs
<1>2. LeaseTyped' /\ JobTyped'
  BY <1>1, BindTyped, KeptTypes, JobTypes DEF RunResume, leases
<1>3. UNCHANGED <<state, att, waits, queue, faults>>
  BY DEF RunResume, waiting
<1> QED
  BY <1>2, <1>3, TypePartsAfter, KeptTypes

LEMMA CreateTyped ==
    ASSUME TypeOK, NEW c \in Cases, Create(c)
    PROVE  TypeOK'
<1>1. /\ KindOf(state[c]) \in Kinds /\ {"session", "settled"} \subseteq PCs
      /\ "active" \in {"none"} \cup Unfinished \cup Finished
  BY KindOfTyped DEF PCs, Unfinished
<1>2. UNCHANGED <<waits, queue>>
  BY DEF Create, waiting
<1>3. CASE /\ att' = [att EXCEPT ![c] = "active"] /\ Move(c, Phase(c).running)
           /\ Bind(c, KindOf(state[c])) /\ Goto(c, "session") /\ UNCHANGED faults
  BY <1>1, <1>2, <1>3, TypePartsAfter, KeptTypes, PhaseTyped, MoveTyped, ParkTyped, BindTyped,
     JobTypes
<1>4. CASE /\ Move(c, Phase(c).failed) /\ Goto(c, "settled") /\ Fault
           /\ UNCHANGED <<att, lease, bound>>
  BY <1>1, <1>2, <1>4, TypePartsAfter, KeptTypes, PhaseTyped, MoveTyped, JobTypes, FaultStep
<1>5. CASE Leave(c) /\ UNCHANGED <<state, att, lease, bound, faults>>
  BY <1>2, <1>5, TypePartsAfter, KeptTypes, JobTypes
<1> QED
  BY <1>3, <1>4, <1>5, Zenon DEF Create, leases

LEMMA SettleTyped ==
    ASSUME TypeOK, NEW c \in Cases, Settle(c) \/ Timeout(c)
    PROVE  TypeOK'
<1>1. "settled" \in PCs /\ {"none", "finished"} \subseteq {"none"} \cup Unfinished \cup Finished
  BY DEF PCs, Finished
<1>2. UNCHANGED <<lease, bound, waits, queue>>
  BY DEF Settle, Timeout, leases, waiting
<1>3. CaseTyped' /\ AttemptTyped' /\ JobTyped' /\ FaultTyped'
  BY <1>1, PhaseTyped, MoveTyped, ParkTyped, KeptTypes, JobTypes, FaultStep
  DEF Settle, Timeout
<1> QED
  BY <1>2, <1>3, TypePartsAfter, KeptTypes

LEMMA TerminateRunningTyped ==
    ASSUME TypeOK, NEW c \in Cases, TerminateRunning(c)
    PROVE  TypeOK'
<1>1. "none" \in {"none"} \cup Unfinished \cup Finished
  OBVIOUS
<1>2. UNCHANGED <<bound, waits, queue>>
  BY DEF TerminateRunning, waiting
<1>3. CaseTyped' /\ AttemptTyped' /\ JobTyped' /\ FaultTyped'
  BY <1>1, PhaseTyped, MoveTyped, ParkTyped, KeptTypes, JobTypes, FaultStep
  DEF TerminateRunning
<1>4. LeaseTyped'
  BY <1>2, ReleaseTyped DEF TerminateRunning, LeaseTyped, TypeOK, LeaseTable
<1> QED
  BY <1>2, <1>3, <1>4, TypePartsAfter, KeptTypes

LEMMA ReleasesTyped ==
    ASSUME TypeOK, NEW c \in Cases, ReleaseSlot(c) \/ ReleaseKeys(c)
    PROVE  TypeOK'
<1>1. {"finish", "freed"} \subseteq PCs
  BY DEF PCs
<1>2. UNCHANGED <<state, att, waits, queue, faults>>
  BY DEF ReleaseSlot, ReleaseKeys, waiting
<1>3. JobTyped'
  BY <1>1, JobTypes DEF ReleaseSlot, ReleaseKeys
<1>4. lease' \in LeaseTable
  BY ReleaseTyped DEF ReleaseSlot, ReleaseKeys
<1>5. LeaseTyped'
  BY <1>4 DEF ReleaseSlot, ReleaseKeys, LeaseTyped, TypeOK
<1> QED
  BY <1>2, <1>3, <1>5, TypePartsAfter, KeptTypes

LEMMA FinishTyped ==
    ASSUME TypeOK, NEW c \in Cases, Finish(c)
    PROVE  TypeOK'
<1>1. "probe" \in PCs /\ "none" \in {"none"} \cup Unfinished \cup Finished
  BY DEF PCs
<1>2. UNCHANGED <<lease, bound, waits, queue, faults>>
  BY DEF Finish, leases, waiting
<1>3. CaseTyped' /\ AttemptTyped' /\ JobTyped'
  BY <1>1, PhaseTyped, MoveTyped, ParkTyped, KeptTypes, JobTypes DEF Finish
<1> QED
  BY <1>2, <1>3, TypePartsAfter, KeptTypes

LEMMA LeaseStepsTyped ==
    ASSUME TypeOK, Reap \/ \E c \in Cases : Heartbeat(c) \/ Lapse(c)
    PROVE  TypeOK'
<1>1. UNCHANGED <<state, run, pc, att, waits, queue, faults>>
  BY DEF Reap, Heartbeat, Lapse, waiting
<1>2. LeaseTyped'
  <2>1. CASE Reap
    BY <2>1, TablesTyped DEF Reap, LeaseTyped
  <2>2. ASSUME NEW c \in Cases, Heartbeat(c) PROVE LeaseTyped'
    BY <2>2 DEF Heartbeat, LeaseTyped, LeaseTable, TypeOK
  <2>3. ASSUME NEW c \in Cases, Lapse(c) PROVE LeaseTyped'
    BY <2>3, RowTyped DEF Lapse, LeaseTyped, LeaseTable, TypeOK
  <2> QED
    BY <2>1, <2>2, <2>3
<1> QED
  BY <1>1, <1>2, TypePartsAfter, KeptTypes

LEMMA FaultsTyped ==
    ASSUME TypeOK, NEW c \in Cases, Crash(c) \/ JobError(c)
    PROVE  TypeOK'
<1>1. UNCHANGED <<lease, bound, waits, queue>> /\ Leave(c) /\ Fault
  BY DEF Crash, JobError, leases, waiting
<1>2. CaseTyped' /\ AttemptTyped'
  BY PhaseTyped, MoveTyped, ParkTyped, KeptTypes DEF Crash, JobError
<1> QED
  BY <1>1, <1>2, TypePartsAfter, KeptTypes, JobTypes, FaultStep

LEMMA OperatorTyped ==
    ASSUME TypeOK, NEW c \in Cases, Cancel(c) \/ Retry(c) \/ Approve(c)
    PROVE  TypeOK'
<1>1. UNCHANGED <<run, pc, att, lease, bound, waits, queue, faults>>
  BY DEF Cancel, Retry, Approve, leases, waiting
<1>2. {"RECEIVED", "REMEDIATION_APPROVED"} \subseteq CaseState
  BY DEF CaseState, GENERIC_STATES, REMEDIATION_PHASE_STATES
<1>3. CaseTyped'
  BY <1>2, PhaseTyped, MoveTyped DEF Cancel, Retry, Approve
<1> QED
  BY <1>1, <1>3, TypePartsAfter, KeptTypes

LEMMA TypeInit == Init => TypeOK
<1> HAVE Init
<1>1. QueueOK(<<>>)
  BY DEF QueueOK, IsInjective
<1>2. state \in [Cases -> CaseState]
  BY ConstantsAssumption DEF Init, CaseState, GENERIC_STATES, REMEDIATION_PHASE_STATES
<1> QED
  BY <1>1, <1>2, ConstantsAssumption DEF Init, TypeOK, QueueOK, PCs

LEMMA TypeStep ==
    ASSUME TypeOK, [Next]_vars
    PROVE  TypeOK'
<1>1. CASE UNCHANGED vars
  BY <1>1, TypePartsAfter, KeptTypes DEF vars
<1>2. CASE Reap
  BY <1>2, LeaseStepsTyped
<1>3. ASSUME NEW c \in Cases,
             \/ JobStep(c) \/ Heartbeat(c) \/ Lapse(c) \/ Crash(c) \/ JobError(c)
             \/ Cancel(c) \/ Retry(c) \/ Approve(c)
      PROVE  TypeOK'
  <2>1. CASE JobStep(c)
    BY <2>1, ClaimTyped, EvaluateTyped, AcquireProbeTyped, ProbeDoneTyped, AcquireKeysTyped,
       RunNewTyped, RunResumeTyped, CreateTyped, SettleTyped, TerminateRunningTyped,
       ReleasesTyped, FinishTyped DEF JobStep
  <2> QED
    BY <1>3, <2>1, LeaseStepsTyped, FaultsTyped, OperatorTyped
<1> QED
  BY <1>1, <1>2, <1>3 DEF Next

\* Whatever lapses, the rows of the cases, their attempts and their leases have their
\* types, and a case that waits has one place in the queue: mark_waiting() sets
\* waiting_since once, however often acquire() denies the case.
THEOREM TypeCorrect == Spec => []TypeOK
BY TypeInit, TypeStep, PTL DEF Spec
=============================================================================

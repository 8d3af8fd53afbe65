--------------------------- MODULE DepositProofs ---------------------------
(***************************************************************************)
(* What Deposits promises however requests race, for any sets of stays and *)
(* workers.                                                                *)
(***************************************************************************)
EXTENDS Deposits, TLAPS

\* A request past its decision is about a reservation, and knows its verb.
AtWork ==
    \A w \in Workers :
        /\ work[w].pc # "idle" => work[w].stay \in Stays
        /\ work[w].pc = "write" => work[w].to \in (DepositStatus \ Uncollected)
        /\ work[w].pc = "event" => work[w].to \in Event

\* What a request decided on it may still rely on when it writes: a deposit
\* once collected stays known as collected.
DecidedOnCollected ==
    \A w \in Workers :
        \/ work[w].pc = "write" /\ work[w].to # "collected"
        \/ work[w].pc = "auto_release"
        => work[w].stay \in collected \cup touched

CollectedKnown ==
    \A r \in Stays \ touched : deposit[r] \notin Uncollected => r \in collected

\* A deposit still held after checkout is one a checkout is about to release.
ReleaseUnderWay ==
    \A r \in Stays \ (touched \cup late \cup cut) :
        status[r] = "checked_out" /\ deposit[r] = "held" =>
            \E w \in Workers : work[w].pc = "auto_release" /\ work[w].stay = r

IInv == DepositTypeOK /\ AtWork /\ DecidedOnCollected /\ CollectedKnown /\ ReleaseUnderWay

-----------------------------------------------------------------------------

LEMMA InitIInv == DepositInit => IInv
  BY DEF DepositInit, IInv, DepositTypeOK, Work, Idle, DepositStatus, Uncollected, AtWork,
         DecidedOnCollected, CollectedKnown, ReleaseUnderWay

LEMMA DecideKeeps ==
  ASSUME IInv, NEW w \in Workers, NEW r \in Stays,
         \/ collect_deposit(w, r) \/ hold_deposit(w, r) \/ release_deposit(w, r)
         \/ forfeit_deposit(w, r) \/ refund_deposit(w, r)
  PROVE  IInv'
<1> USE DEF IInv
<1>0. PICK expected, to :
        /\ to \in DepositStatus \ Uncollected
        /\ to # "collected" => expected \cap Uncollected = {}
        /\ Decide(w, r, expected, to)
  BY DEF collect_deposit, hold_deposit, release_deposit, forfeit_deposit, refund_deposit,
         DepositStatus, Uncollected, Settled
<1> USE <1>0 DEF Decide
<1>1. DepositTypeOK'
  BY DEF DepositTypeOK, Work, Idle
<1>2. AtWork'
  BY DEF AtWork, DepositTypeOK, Work, Idle
<1>3. DecidedOnCollected'
  BY DEF DecidedOnCollected, CollectedKnown, DepositTypeOK, Work, Idle
<1>4. CollectedKnown'
  BY DEF CollectedKnown
<1>5. ReleaseUnderWay'
  BY DEF ReleaseUnderWay, DepositTypeOK, Work, Idle
<1> QED BY <1>1, <1>2, <1>3, <1>4, <1>5

LEMMA WriteDepositKeeps ==
  ASSUME IInv, NEW w \in Workers, WriteDeposit(w)
  PROVE  IInv'
<1> DEFINE r  == work[w].stay
           to == work[w].to
<1> USE DEF IInv, WriteDeposit
<1>0. r \in Stays /\ to \in DepositStatus \ Uncollected
  BY DEF AtWork
<1>1. DepositTypeOK'
  BY <1>0 DEF DepositTypeOK, Work, Idle, DepositStatus, Uncollected
<1>2. AtWork'
  BY <1>0 DEF AtWork, DepositTypeOK, Work, Idle, DepositStatus, Uncollected, Settled, Event
<1>3. DecidedOnCollected'
  BY DEF DecidedOnCollected, DepositTypeOK, Work, Idle
<1>4. CollectedKnown'
  BY <1>0 DEF CollectedKnown, DecidedOnCollected, DepositTypeOK
<1>5. ReleaseUnderWay'
  BY <1>0 DEF ReleaseUnderWay, DepositTypeOK, Work, Idle
<1> QED BY <1>1, <1>2, <1>3, <1>4, <1>5

LEMMA InsertEventKeeps ==
  ASSUME IInv, NEW w \in Workers, InsertEvent(w)
  PROVE  IInv'
<1> USE DEF IInv, InsertEvent
<1>1. DepositTypeOK'
  BY DEF DepositTypeOK, Work, Idle, ALLOWED_TABLES, DepositStatus, Uncollected
<1>2. AtWork'
  BY DEF AtWork, DepositTypeOK, Work, Idle
<1>3. DecidedOnCollected'
  BY DEF DecidedOnCollected, DepositTypeOK, Work, Idle
<1>4. CollectedKnown'
  BY DEF CollectedKnown
<1>5. ReleaseUnderWay'
  BY DEF ReleaseUnderWay, DepositTypeOK, Work, Idle
<1> QED BY <1>1, <1>2, <1>3, <1>4, <1>5

LEMMA CheckoutKeeps ==
  ASSUME IInv, NEW w \in Workers,
         \/ \E r \in Stays, by \in {"transition", "workflow"} : DecideCheckout(w, r, by)
         \/ WriteCheckout(w)
         \/ AutoRelease(w)
  PROVE  IInv'
<1> USE DEF IInv
<1>1. CASE \E r \in Stays, by \in {"transition", "workflow"} : DecideCheckout(w, r, by)
  <2> PICK r \in Stays, by \in {"transition", "workflow"} : DecideCheckout(w, r, by)
    BY <1>1
  <2> USE DEF DecideCheckout, Idle
  <2>1. DepositTypeOK' BY DEF DepositTypeOK, Work, DepositStatus, Uncollected
  <2>2. AtWork' BY DEF AtWork, DepositTypeOK, Work
  <2>3. DecidedOnCollected' BY DEF DecidedOnCollected, DepositTypeOK, Work
  <2>4. CollectedKnown' BY DEF CollectedKnown
  <2>5. ReleaseUnderWay' BY DEF ReleaseUnderWay, DepositTypeOK, Work
  <2> QED BY <2>1, <2>2, <2>3, <2>4, <2>5
<1>2. CASE WriteCheckout(w)
  <2> USE <1>2 DEF WriteCheckout
  <2>1. DepositTypeOK' BY DEF DepositTypeOK, Work, Idle, AtWork, DepositStatus, Uncollected
  <2>2. AtWork' BY DEF AtWork, DepositTypeOK, Work, Idle
  <2>3. DecidedOnCollected'
    BY DEF DecidedOnCollected, CollectedKnown, DepositTypeOK, Work, Idle, AtWork, Releases,
           Uncollected
  <2>4. CollectedKnown' BY DEF CollectedKnown
  <2>5. ReleaseUnderWay'
    BY DEF ReleaseUnderWay, DepositTypeOK, Work, Idle, AtWork, Releases
  <2> QED BY <2>1, <2>2, <2>3, <2>4, <2>5
<1>3. CASE AutoRelease(w)
  <2> USE <1>3 DEF AutoRelease
  <2>0. work' \in [Workers -> Work]
    <3>1. [work[w] EXCEPT !.pc = "event", !.to = "auto_released"] \in Work
      <4>1. work[w] \in Work /\ "auto_released" \in Event
        BY DEF DepositTypeOK, Event
      <4> QED BY <4>1 DEF Work
    <3> QED BY <3>1 DEF DepositTypeOK
  <2>1. DepositTypeOK'
    BY <2>0 DEF DepositTypeOK, DepositStatus, Uncollected, Settled
  <2>2. AtWork' BY DEF AtWork, DepositTypeOK, Work, Event
  <2>3. DecidedOnCollected' BY DEF DecidedOnCollected, DepositTypeOK, Work
  <2>4. CollectedKnown' BY DEF CollectedKnown, DecidedOnCollected, DepositTypeOK
  <2>5. ReleaseUnderWay' BY DEF ReleaseUnderWay, DepositTypeOK, Work, AtWork
  <2> QED BY <2>1, <2>2, <2>3, <2>4, <2>5
<1> QED BY <1>1, <1>2, <1>3

LEMMA CutShortKeeps ==
  ASSUME IInv, NEW w \in Workers, CutShort(w)
  PROVE  IInv'
<1> USE DEF IInv, CutShort
<1>1. DepositTypeOK'
  BY DEF DepositTypeOK, Work, Idle, AtWork, DepositStatus, Uncollected
<1>2. AtWork'
  BY DEF AtWork, DepositTypeOK, Work, Idle
<1>3. DecidedOnCollected'
  BY DEF DecidedOnCollected, DepositTypeOK, Work, Idle
<1>4. CollectedKnown'
  BY DEF CollectedKnown
<1>5. ReleaseUnderWay'
  BY DEF ReleaseUnderWay, DepositTypeOK, Work, Idle
<1> QED BY <1>1, <1>2, <1>3, <1>4, <1>5

LEMMA PatchKeeps ==
  ASSUME IInv, NEW r \in Stays, NEW d \in DepositStatus, PatchDeposit(r, d)
  PROVE  IInv'
<1> USE DEF IInv, PatchDeposit
<1>1. DepositTypeOK'
  BY DEF DepositTypeOK
<1>2. AtWork' /\ DecidedOnCollected'
  BY DEF AtWork, DecidedOnCollected
<1>3. CollectedKnown' /\ ReleaseUnderWay'
  BY DEF CollectedKnown, ReleaseUnderWay, DepositTypeOK
<1> QED BY <1>1, <1>2, <1>3

LEMMA NextIInv == IInv /\ [DepositNext]_depositVars => IInv'
<1> SUFFICES ASSUME IInv, [DepositNext]_depositVars PROVE IInv'
  OBVIOUS
<1>1. CASE UNCHANGED depositVars
  BY <1>1 DEF depositVars, IInv, DepositTypeOK, AtWork, DecidedOnCollected, CollectedKnown,
              ReleaseUnderWay
<1>2. ASSUME NEW w \in Workers, WorkerStep(w) PROVE IInv'
  BY <1>2, DecideKeeps, WriteDepositKeeps, InsertEventKeeps, CheckoutKeeps, CutShortKeeps
     DEF WorkerStep
<1>3. ASSUME NEW r \in Stays, NEW d \in DepositStatus, PatchDeposit(r, d) PROVE IInv'
  BY <1>3, PatchKeeps
<1> QED BY <1>1, <1>2, <1>3 DEF DepositNext

\* The inductive invariant of deposits: who has decided on one decided on
\* money that was collected (routes/deposits.rs).
THEOREM Inductive == DepositSpec => []IInv
<1>1. DepositInit => IInv
  BY InitIInv
<1>2. IInv /\ [DepositNext]_depositVars => IInv'
  BY NextIInv
<1> QED BY <1>1, <1>2, PTL DEF DepositSpec

\* The variables of the deposits keep their types: no handler of
\* routes/deposits.rs writes a status that is not one of DepositStatus.
THEOREM DepositTypeCorrect == DepositSpec => []DepositTypeOK
<1>1. IInv => DepositTypeOK
  BY DEF IInv
<1> QED BY <1>1, Inductive, PTL

\* However many requests race on a deposit, none of the five handlers nor the
\* release at checkout settles or holds one that was never collected.
THEOREM NothingUncollectedSettles == DepositSpec => []OnlyCollectedSettles
<1>1. IInv => OnlyCollectedSettles
  BY DEF IInv, CollectedKnown, OnlyCollectedSettles, Uncollected
<1> QED BY <1>1, Inductive, PTL

\* A checkout by an operator that is answered leaves no deposit held that was
\* held before it, whatever else races with auto_release_deposit_on_checkout.
THEOREM HeldDepositsReleased == DepositSpec => []CheckoutReleases
<1>1. IInv => CheckoutReleases
  BY DEF IInv, ReleaseUnderWay, CheckoutReleases
<1> QED BY <1>1, Inductive, PTL

\* Deposit r is settled as d and nobody is about to write it.
Standing(r, d) ==
    \/ r \in touched
    \/ /\ deposit[r] = d
       /\ \A w \in Workers : work[w].stay = r => work[w].pc \notin {"write", "auto_release"}

LEMMA StandingStays ==
  ASSUME NEW r \in Stays, NEW d \in Settled
  PROVE  IInv /\ Standing(r, d) /\ [DepositNext]_depositVars => Standing(r, d)'
<1> SUFFICES ASSUME IInv, Standing(r, d), [DepositNext]_depositVars
             PROVE  Standing(r, d)'
  OBVIOUS
<1> USE DEF IInv
<1>0. /\ deposit \in [Stays -> DepositStatus] /\ work \in [Workers -> Work]
      /\ d \notin {"none", "pending", "collected", "held"}
  BY DEF DepositTypeOK, Settled
<1>1. CASE r \in touched
  <2>1. touched \subseteq touched'
    BY DEF DepositNext, WorkerStep, Decide, collect_deposit, hold_deposit, release_deposit,
           forfeit_deposit, refund_deposit, DecideCheckout, WriteDeposit, InsertEvent,
           WriteCheckout, AutoRelease, CutShort, PatchDeposit, depositVars
  <2> QED BY <1>1, <2>1 DEF Standing
<1>2. ASSUME r \notin touched PROVE Standing(r, d)'
  <2> USE <1>0, <1>2 DEF Standing
  <2>1. ASSUME NEW w \in Workers, NEW s \in Stays,
               \/ collect_deposit(w, s) \/ hold_deposit(w, s) \/ release_deposit(w, s)
               \/ forfeit_deposit(w, s) \/ refund_deposit(w, s)
        PROVE  Standing(r, d)'
    <3>1. s # r /\ UNCHANGED deposit
      BY <2>1 DEF collect_deposit, hold_deposit, release_deposit, forfeit_deposit,
                  refund_deposit, Decide
    <3>2. work'[w].stay = s /\ \A v \in Workers \ {w} : work'[v] = work[v]
      BY <2>1 DEF collect_deposit, hold_deposit, release_deposit, forfeit_deposit,
                  refund_deposit, Decide, Idle
    <3> QED BY <3>1, <3>2
  <2>2. ASSUME NEW w \in Workers, WriteDeposit(w) PROVE Standing(r, d)'
    <3>1. work[w].stay # r  BY <2>2 DEF WriteDeposit
    <3> QED BY <2>2, <3>1 DEF WriteDeposit, Idle, Work
  <2>3. ASSUME NEW w \in Workers, NEW s \in Stays, NEW by \in {"transition", "workflow"},
               DecideCheckout(w, s, by)
        PROVE  Standing(r, d)'
    BY <2>3 DEF DecideCheckout, Idle
  <2>4. ASSUME NEW w \in Workers, WriteCheckout(w) PROVE Standing(r, d)'
    BY <2>4 DEF WriteCheckout, Releases, Idle, Work
  <2>5. ASSUME NEW w \in Workers, AutoRelease(w) PROVE Standing(r, d)'
    <3>1. work[w].stay # r  BY <2>5 DEF AutoRelease
    <3> QED BY <2>5, <3>1 DEF AutoRelease, Work
  <2>6. ASSUME NEW w \in Workers, InsertEvent(w) \/ CutShort(w) PROVE Standing(r, d)'
    BY <2>6 DEF InsertEvent, CutShort, Idle
  <2>7. ASSUME NEW s \in Stays, NEW e \in DepositStatus, PatchDeposit(s, e)
        PROVE  Standing(r, d)'
    BY <2>7 DEF PatchDeposit
  <2>8. CASE UNCHANGED depositVars
    BY <2>8 DEF depositVars
  <2> QED
    BY <2>1, <2>2, <2>3, <2>4, <2>5, <2>6, <2>7, <2>8 DEF DepositNext, WorkerStep
<1> QED BY <1>1, <1>2

\* What settlement stands once every request on the deposit is answered stands
\* for good, checkouts and later requests included, unless a PATCH undoes it.
THEOREM SettledForGood == DepositSpec => SettlementStands
<1>1. ASSUME NEW r \in Stays, NEW d \in {"released", "forfeited", "refunded"}
      PROVE  DepositSpec =>
               [](deposit[r] = d /\ (\A w \in Workers : work[w].stay # r)
                    => [](deposit[r] = d \/ r \in touched))
  <2>1. (deposit[r] = d /\ \A w \in Workers : work[w].stay # r) => Standing(r, d)
    BY DEF Standing
  <2>2. Standing(r, d) => deposit[r] = d \/ r \in touched
    BY DEF Standing
  <2>3. IInv /\ Standing(r, d) /\ [DepositNext]_depositVars => Standing(r, d)'
    BY StandingStays DEF Settled
  <2> QED BY <2>1, <2>2, <2>3, Inductive, PTL DEF DepositSpec
<1> QED BY <1>1 DEF SettlementStands
=============================================================================

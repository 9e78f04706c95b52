-------------------------- MODULE FulfilmentProofs --------------------------
(***************************************************************************)
(* Proofs about an order between payment and its end, for any riders,      *)
(* dispatch workers, jobs, cases and refund workers, and any bounds.       *)
(***************************************************************************)
EXTENDS MCFulfilment, SumTheorems, TLAPS

----------------------------------------
(* The invariant, in two parts: who delivers, and what is paid back. *)
\* A usable code has tries left.
CodeRow  == {row \in [status : CodeStatus, tries : 0..MaxTries] :
                row.status = "active" => row.tries < MaxTries}
CodeRows == [Stages -> CodeRow]
DeliveryOK == DeliveryTypeOK /\ code \in CodeRows

JobStatus == LiveJob \cup {"none", "manual_required", "assigned", "cancelled"}
JobRow == [status : JobStatus, mode : Modes, cands : Seq(Riders), round : Nat, late : BOOLEAN,
           by : DispatchWorkers \cup {NobodyLeases}, lapsed : BOOLEAN,
           attempts : 0..(DispatchAttempts - 1)]
OfferStatus == {"none", "pending", "late", "expired", "rejected", "accepted", "cancelled"}
AssignRow   == [rider : Riders, status : {"active", "superseded", "cancelled"}]
LoopRow     == [pc : {"idle", "run", "failed"}, job : 0..MaxJobs]

\* A job's round is one of its candidates', and a new job has had none.
RoundOK(row) == row.round <= Len(row.cands) /\ (row.status = "pending" => row.round = 0)

\* The rows of dispatch have their types.
JobTypes ==
    /\ cur \in 0..MaxJobs /\ job \in [JobIds -> JobRow] /\ \A j \in JobIds : RoundOK(job[j])
    /\ offer \in [JobIds -> [Riders -> OfferStatus]] /\ assigned \in Seq(AssignRow)
    /\ worker \in [DispatchWorkers -> LoopRow]
    /\ \A w \in DispatchWorkers : worker[w].pc # "idle" => worker[w].job \in JobIds

\* A leased job is still due: what a loop claimed does not get a new offer or a new
\* window under it.
LeasedIsDue == \A j \in JobIds : job[j].by # NobodyLeases => Due(j)

\* The delivery's status against its rider, its order and its first records.
Phase ==
    /\ dlv.status \notin {"returning", "returned"}
    /\ dlv.status \in {"none", "pending_assign"} => dlv.rider = NoRider
    /\ dlv.status \in {"accepted", "delivering", "completed"} => dlv.rider # NoRider
    /\ dlv.status \in {"delivering", "completed", "cancelled"} =>
          order.status \in {dlv.status, "refunding", "refunded"}
    /\ dlv.status = "none" => order.delivery = "pending_assign" /\ assigned = <<>>
    /\ dlv.status # "none" => cur \in JobIds

\* Who delivers, while a rider is sought and the goods are handed over.
SearchInv ==
    /\ DeliveryOK /\ JobTypes /\ LeasedIsDue /\ Phase /\ LiveJobIsCurrent /\ OneRider /\ GoodsWithCarrier

\* On the way the search is over.
JobsQuiet ==
    \A j \in JobIds : job[j].status \notin LiveJob /\ \A r \in Riders : offer[j][r] # "pending"

RefundStatus == {"none", "succeeded", "failed"} \cup ReservedRefund
Results == Answers \cup {"none", "missing", "given_up", "not_enough", "rejected", "unavailable", "other"}
Whys    == Results \cup {"mismatch", "manual", "manual_retry"}
SaleStatus == {"none", "submitted", "platform_reviewing", "evidence_required", "withdrawn", "rejected",
               "refund_processing", "completed", "waiting_return", "replacement_processing",
               "compensation_processing"}
ReturnStatus == {"none", "requested", "disputed", "returning", "arrived", "received", "exception",
                 "closed"}

RefundRow == [status : RefundStatus, seen : Answers \cup {"none"}, why : Whys,
              fresh : SUBSET (Refunders \cup {"desk"}), lease : {"free", "held", "lapsed"}]
SaleRow == [status : SaleStatus, res : Resolutions \cup {"none"}, amount : Nat, appealed : BOOLEAN,
            receipt : BOOLEAN]
ReturnRow == [status : ReturnStatus, case : Cases \cup {0}, incident : BOOLEAN,
              code : {"none", "active", "late"}, tries : Nat, receipt : BOOLEAN]
CallRow == [pc : {"idle", "query", "submit", "answered"}, case : Cases \cup {0},
            row : Rows \cup {0}, as : RefundStatus, why : Whys, res : Results]
DeskRow == [case : Cases \cup {0}, row : Rows \cup {0}, res : Results]

\* The rows of refunds and cases have their types.
MoneyTypes ==
    /\ paid \in Nat \ {0} /\ refunded \in Nat /\ rf \in [Cases -> [Rows -> RefundRow]]
    /\ prov \in [Cases -> [Rows -> SUBSET Answers]] /\ inflight \subseteq Cases \X Rows
    /\ sale \in [Cases -> SaleRow]

\* A row against what the provider said of it.
RowAgrees(c, k) ==
    /\ rf[c][k].status = "none" => prov[c][k] = {} /\ <<c, k>> \notin inflight
    /\ rf[c][k].status = "succeeded" => "SUCCESS" \in prov[c][k]
    /\ rf[c][k].status = "failed" => rf[c][k].seen = "CLOSED"
    /\ rf[c][k].seen = "CLOSED" =>
          "CLOSED" \in prov[c][k] /\ rf[c][k].status \notin {"none", "succeeded"}
    /\ ~("SUCCESS" \in prov[c][k] /\ "CLOSED" \in prov[c][k])
    /\ rf[c][k].fresh # {} => rf[c][k].status \in ReservedRefund

\* A replacement exists only for a row the provider closed.
Replaced(c) == rf[c][2].status # "none" => rf[c][1].seen = "CLOSED"

\* The rows the provider may still pay.
Potential == {x \in Cases \X Rows : /\ rf[x[1]][x[2]].status \in ReservedRefund /\ rf[x[1]][x[2]].seen # "CLOSED"}
Succeeded == {x \in Cases \X Rows : rf[x[1]][x[2]].status = "succeeded"}

\* The ledger is the sum of the succeeded rows, and with what may still be paid it
\* stays within the payment.
Ledger ==
    /\ refunded = SumFunctionOnSet(RefundAmounts, Succeeded)
    /\ refunded + SumFunctionOnSet(RefundAmounts, Potential) <= paid

\* Rows, cases and ledger.
MoneyInv ==
    /\ MoneyTypes /\ Ledger /\ MoneyHasReason /\ \A c \in Cases : Replaced(c) /\ \A k \in Rows : RowAgrees(c, k)

\* A call in progress is about a row that exists, and an answer came from the provider.
CallIsReal(call) ==
    /\ call.case \in Cases /\ call.row \in Rows /\ rf[call.case][call.row].status # "none"
    /\ call.res \in Answers => call.res \in prov[call.case][call.row]

Calls ==
    /\ refunder \in [Refunders -> CallRow] /\ desk \in DeskRow
    /\ \A w \in Refunders : refunder[w].pc # "idle" => CallIsReal(refunder[w])
    /\ desk # NoDesk => CallIsReal(desk)

\* The return against the delivery, its case and the ledger.
ReturnInv ==
    /\ ret \in ReturnRow /\ ReturnIsWhole
    /\ ret.case # 0 => /\ sale[ret.case].amount = paid
                       /\ sale[ret.case].status \in {"refund_processing", "completed"}
    /\ ret.case = 0 => ~ret.receipt /\ ret.status \in {"none", "requested", "disputed"}
    /\ ret.status \in {"none", "requested"} => ret.case = 0

\* The code of the stage the delivery is in is not used up.
CodeUnused ==
    vmode = "enforce" =>
        /\ dlv.status = "delivering" => code["delivery"].status # "verified"
        /\ dlv.status \in {"none", "pending_assign", "accepted"} => code["pickup"].status # "verified"

\* Money, goods and code on the way, and on the way back.
BackInv == MoneyInv /\ Calls /\ DeliveryOK /\ ReturnInv /\ CodeUnused

\* Where the shop still has something to do.
Unready == {"paid", "accepted", "preparing"}

\* The whole invariant.
FulfilInv ==
    /\ side \in {"search", "handover", "pickup", "back", "refund", "claims"}
    /\ side \in {"search", "handover"} =>
          SearchInv /\ MoneyInv /\ Calls /\ ret = NoReturn /\ refunded = 0
    /\ side = "pickup" =>
          /\ SearchInv /\ BackInv /\ vmode = "enforce" /\ ret = NoReturn
          /\ refunded = paid => order.status \notin Unready
    /\ side \in {"back", "refund", "claims"} =>
          BackInv /\ JobTypes /\ JobsQuiet

----------------------------------------
(* Who delivers. *)

\* A job row as SetJob writes it.
LEMMA UnleasedRow ==
    ASSUME NEW rec \in JobRow, NEW s \in JobStatus
    PROVE  LET row == [Unleased(rec) EXCEPT !.status = s] IN
           /\ row \in JobRow /\ row.status = s /\ row.by = NobodyLeases
           /\ row.cands = rec.cands /\ row.round = rec.round
BY DEF JobRow, Unleased

\* The same with the status as it was.
LEMMA UnleasedSame ==
    ASSUME NEW rec \in JobRow
    PROVE  /\ Unleased(rec) \in JobRow /\ Unleased(rec).status = rec.status /\ Unleased(rec).by = NobodyLeases
           /\ Unleased(rec).cands = rec.cands /\ Unleased(rec).round = rec.round
BY DEF JobRow, Unleased

\* The rows of new and finished jobs.
LEMMA PlainRows ==
    /\ NoJob \in JobRow
    /\ \A s \in JobStatus :
          /\ Over(s) \in JobRow /\ Over(s).status = s /\ Over(s).by = NobodyLeases /\ RoundOK(Over(s))
    /\ \A m \in Modes : LET row == [NoJob EXCEPT !.status = "pending", !.mode = m] IN
          /\ row \in JobRow /\ row.status = "pending" /\ row.by = NobodyLeases /\ RoundOK(row)
<1>1. <<>> \in Seq(Riders) /\ Len(<<>>) = 0 /\ 0 \in 0..(DispatchAttempts - 1) BY DispatchAssumption
<1>2. NoJob \in JobRow BY <1>1 DEF NoJob, JobRow, JobStatus, LiveJob, Modes
<1>3. ASSUME NEW s \in JobStatus
      PROVE  /\ Over(s) \in JobRow /\ Over(s).status = s /\ Over(s).by = NobodyLeases
             /\ Over(s).cands = <<>> /\ Over(s).round = 0
 BY <1>1 DEF NoJob, JobRow, Over, Modes
<1>4. ASSUME NEW m \in Modes
      PROVE  LET row == [NoJob EXCEPT !.status = "pending", !.mode = m] IN
             /\ row \in JobRow /\ row.status = "pending" /\ row.by = NobodyLeases
             /\ row.cands = <<>> /\ row.round = 0
 BY <1>1 DEF NoJob, JobRow, JobStatus, LiveJob
<1>5. ASSUME NEW s \in JobStatus PROVE RoundOK(Over(s)) BY <1>1, <1>3 DEF RoundOK
<1>6. ASSUME NEW m \in Modes
      PROVE  LET row == [NoJob EXCEPT !.status = "pending", !.mode = m] IN RoundOK(row)
 <2> DEFINE row == [NoJob EXCEPT !.status = "pending", !.mode = m]
 <2> SUFFICES RoundOK(row)
  OBVIOUS
 <2>1. row.cands = <<>> /\ row.round = 0 BY <1>4
 <2> HIDE DEF row
 <2> QED BY <1>1, <2>1 DEF RoundOK
<1> QED BY <1>2, <1>3, <1>4, <1>5, <1>6

\* A ranking is a sequence of riders.
LEMMA RankingIsSeq == ASSUME NEW c \in Rankings PROVE c \in Seq(Riders)
<1> DEFINE S == {r \in Riders : Fit(r)}
<1>1. IsFiniteSet(S) BY DispatchAssumption, FS_Subset
<1>2. PICK n \in Nat : n = Cardinality(S) BY <1>1, FS_CardinalityType
<1>3. c \in [1..n -> S] BY <1>2 DEF Rankings, SetToSeqs
<1> QED BY <1>3

\* Job rows after one of them is written.
LEMMA JobWritten ==
    ASSUME SearchInv, NEW j \in JobIds, NEW row \in JobRow, RoundOK(row),
           job' = [job EXCEPT ![j] = row], cur' = cur, Assignable' <=> Assignable,
           offer' \in [JobIds -> [Riders -> OfferStatus]],
           \A x \in JobIds : x # j => offer'[x] = offer[x],
           row.status \in LiveJob => j = cur /\ Assignable,
           \A r \in Riders : offer'[j][r] = "pending" => j = cur /\ row.status = "offering",
           row.by # NobodyLeases =>
              /\ row.status \in LiveJob
              /\ row.status = "offering" => \A r \in Riders : offer'[j][r] # "pending"
              /\ row.status = "grab_open" => row.late
    PROVE  /\ job' \in [JobIds -> JobRow] /\ \A x \in JobIds : RoundOK(job'[x])
           /\ LeasedIsDue' /\ LiveJobIsCurrent'
<1>1. job \in [JobIds -> JobRow] /\ \A x \in JobIds : RoundOK(job[x]) BY DEF SearchInv, JobTypes
<1>2. job'[j] = row /\ \A x \in JobIds : x # j => job'[x] = job[x] BY <1>1
<1>3. job' \in [JobIds -> JobRow] BY <1>1
<1>4. LeasedIsDue'
 <2> SUFFICES ASSUME NEW x \in JobIds, job'[x].by # NobodyLeases PROVE Due(x)'
  BY DEF LeasedIsDue
 <2>1. CASE x = j
  BY <1>2, <2>1 DEF Due
 <2>2. CASE x # j
  BY <1>2, <2>2 DEF Due, SearchInv, LeasedIsDue
 <2> QED BY <2>1, <2>2
<1>5. LiveJobIsCurrent'
 <2> SUFFICES ASSUME NEW x \in JobIds
              PROVE  /\ job'[x].status \in LiveJob => x = cur' /\ Assignable'
                     /\ \A r \in Riders : offer'[x][r] = "pending" => x = cur' /\ job'[x].status = "offering"
  BY DEF LiveJobIsCurrent
 <2>1. CASE x = j
  BY <1>2, <2>1
 <2>2. CASE x # j
  BY <1>2, <2>2 DEF SearchInv, LiveJobIsCurrent
 <2> QED BY <2>1, <2>2
<1> QED BY <1>1, <1>2, <1>3, <1>4, <1>5

\* What does not touch the delivery but for its dispatch column.
LEMMA DeliveryKept ==
    ASSUME SearchInv, UNCHANGED <<order, code, vmode, carrier, cur, assigned>>,
           dlv' = dlv \/ \E s \in {"pending", "offering", "grab_open", "manual_required"} : SetDispatch(s)
    PROVE  /\ DeliveryOK' /\ Phase' /\ OneRider' /\ GoodsWithCarrier'
           /\ (Assignable' <=> Assignable)
<1>1. /\ dlv'.status = dlv.status /\ dlv'.rider = dlv.rider /\ dlv'.pickup = dlv.pickup /\ DeliveryOK'
 BY DEF SearchInv, DeliveryOK, DeliveryTypeOK, SetDispatch
<1>2. Phase' BY <1>1 DEF SearchInv, Phase
<1>3. OneRider' BY <1>1 DEF SearchInv, OneRider
<1>4. GoodsWithCarrier' BY <1>1 DEF SearchInv, GoodsWithCarrier
<1> QED BY <1>1, <1>2, <1>3, <1>4 DEF Assignable

\* What the loops are doing, after one of them changed.
LoopTypes ==
    /\ worker \in [DispatchWorkers -> LoopRow]
    /\ \A w \in DispatchWorkers : worker[w].pc # "idle" => worker[w].job \in JobIds

LEMMA LoopWritten ==
    ASSUME SearchInv, NEW w \in DispatchWorkers, NEW row \in LoopRow, row.pc # "idle" => row.job \in JobIds,
           worker' = [worker EXCEPT ![w] = row]
    PROVE  LoopTypes'
BY DEF LoopTypes, SearchInv, JobTypes

LEMMA LoopIdle == ASSUME SearchInv, NEW w \in DispatchWorkers, Idle(w) PROVE LoopTypes'
<1>1. [pc |-> "idle", job |-> 0] \in LoopRow BY DispatchAssumption DEF LoopRow
<1> QED BY <1>1, LoopWritten DEF Idle

\* A step that leaves the delivery alone and the jobs well.
LEMMA SearchFrom ==
    ASSUME SearchInv, UNCHANGED <<order, code, vmode, carrier, cur, assigned>>,
           dlv' = dlv \/ \E s \in {"pending", "offering", "grab_open", "manual_required"} : SetDispatch(s),
           job' \in [JobIds -> JobRow], \A x \in JobIds : RoundOK(job'[x]),
           offer' \in [JobIds -> [Riders -> OfferStatus]],
           LeasedIsDue', LiveJobIsCurrent', worker' = worker \/ LoopTypes'
    PROVE  SearchInv'
<1>1. DeliveryOK' /\ Phase' /\ OneRider' /\ GoodsWithCarrier' BY DeliveryKept
<1>2. cur' \in 0..MaxJobs /\ assigned' \in Seq(AssignRow) /\ LoopTypes' BY DEF SearchInv, JobTypes, LoopTypes
<1>3. JobTypes' BY <1>2 DEF JobTypes, LoopTypes
<1> QED BY <1>1, <1>3 DEF SearchInv

\* A step of loops, riders and clocks that writes no job and no offer.
LEMMA JobsKept ==
    ASSUME SearchInv, UNCHANGED <<dvars, cur, job, offer, assigned>>, worker' = worker \/ LoopTypes'
    PROVE  SearchInv'
<1>1. UNCHANGED <<order, code, vmode, carrier, cur, assigned, dlv>> BY DEF dvars
<1>2. /\ job' \in [JobIds -> JobRow] /\ \A x \in JobIds : RoundOK(job'[x])
      /\ offer' \in [JobIds -> [Riders -> OfferStatus]]
 BY DEF SearchInv, JobTypes
<1>3. LeasedIsDue' BY DEF SearchInv, LeasedIsDue, Due
<1>4. LiveJobIsCurrent' BY <1>1 DEF SearchInv, LiveJobIsCurrent, Assignable
<1> QED BY <1>1, <1>2, <1>3, <1>4, SearchFrom

\* A step that writes a job without changing its status.
LEMMA JobTouched ==
    ASSUME SearchInv, NEW j \in JobIds, NEW row \in JobRow, job' = [job EXCEPT ![j] = row],
           UNCHANGED <<dvars, cur, assigned, offer>>, row.status = job[j].status,
           row.round = job[j].round, row.cands = job[j].cands, worker' = worker \/ LoopTypes',
           row.by # NobodyLeases =>
              /\ row.status \in LiveJob
              /\ row.status = "offering" => \A r \in Riders : offer[j][r] # "pending"
              /\ row.status = "grab_open" => row.late
    PROVE  SearchInv'
<1>1. UNCHANGED <<order, code, vmode, carrier, cur, assigned, dlv>> /\ (Assignable' <=> Assignable)
 BY DEF dvars, Assignable
<1>2. offer' \in [JobIds -> [Riders -> OfferStatus]] /\ RoundOK(row) BY DEF SearchInv, JobTypes, RoundOK
<1>3. /\ row.status \in LiveJob => j = cur /\ Assignable
      /\ \A r \in Riders : offer'[j][r] = "pending" => j = cur /\ row.status = "offering"
 BY DEF SearchInv, LiveJobIsCurrent
<1>4. /\ job' \in [JobIds -> JobRow] /\ \A x \in JobIds : RoundOK(job'[x])
      /\ LeasedIsDue' /\ LiveJobIsCurrent'
 BY <1>1, <1>2, <1>3, JobWritten
<1> QED BY <1>1, <1>2, <1>4, SearchFrom

LEMMA ClaimInv ==
    ASSUME SearchInv, NEW w \in DispatchWorkers, NEW j \in JobIds, Claim(w, j) PROVE SearchInv'
<1>1. PICK row : row = [job[j] EXCEPT !.by = w, !.lapsed = FALSE] OBVIOUS
<1>2. job[j] \in JobRow /\ job \in [JobIds -> JobRow] BY DEF SearchInv, JobTypes
<1>3. /\ row \in JobRow /\ row.status = job[j].status /\ row.round = job[j].round
      /\ row.cands = job[j].cands /\ row.late = job[j].late
 BY <1>1, <1>2 DEF JobRow
<1>4. job' = [job EXCEPT ![j] = row] BY <1>1, <1>2 DEF Claim
<1>5. [pc |-> "run", job |-> j] \in LoopRow BY DEF LoopRow, JobIds
<1>6. LoopTypes' BY <1>5, LoopWritten DEF Claim
<1>7. Due(j) /\ UNCHANGED <<dvars, cur, assigned, offer>> BY DEF Claim
<1>8. /\ row.status \in LiveJob
      /\ row.status = "offering" => \A r \in Riders : offer[j][r] # "pending"
      /\ row.status = "grab_open" => row.late
 BY <1>3, <1>7 DEF Due
<1> QED BY <1>3, <1>4, <1>6, <1>7, <1>8, JobTouched

LEMMA GrabRunsOutInv == ASSUME SearchInv, NEW j \in JobIds, GrabRunsOut(j) PROVE SearchInv'
<1>1. PICK row : row = [job[j] EXCEPT !.late = TRUE] OBVIOUS
<1>2. job[j] \in JobRow /\ job \in [JobIds -> JobRow] BY DEF SearchInv, JobTypes
<1>3. /\ row \in JobRow /\ row.status = job[j].status /\ row.round = job[j].round
      /\ row.cands = job[j].cands /\ row.late = TRUE /\ row.by = job[j].by
 BY <1>1, <1>2 DEF JobRow
<1>4. job' = [job EXCEPT ![j] = row] BY <1>1, <1>2 DEF GrabRunsOut
<1>5. job[j].status = "grab_open" /\ UNCHANGED <<dvars, cur, assigned, offer, worker>> BY DEF GrabRunsOut
<1> QED BY <1>3, <1>4, <1>5, JobTouched DEF LiveJob

LEMMA LeaseRunsOutInv == ASSUME SearchInv, NEW j \in JobIds, LeaseRunsOut(j) PROVE SearchInv'
<1>1. PICK row : row = [job[j] EXCEPT !.lapsed = TRUE] OBVIOUS
<1>2. job[j] \in JobRow /\ job \in [JobIds -> JobRow] BY DEF SearchInv, JobTypes
<1>3. /\ row \in JobRow /\ row.status = job[j].status /\ row.round = job[j].round
      /\ row.cands = job[j].cands /\ row.late = job[j].late /\ row.by = job[j].by
 BY <1>1, <1>2 DEF JobRow
<1>4. job' = [job EXCEPT ![j] = row] BY <1>1, <1>2 DEF LeaseRunsOut
<1>5. job[j].by # NobodyLeases /\ UNCHANGED <<dvars, cur, assigned, offer, worker>> BY DEF LeaseRunsOut
<1>6. Due(j) BY <1>5 DEF SearchInv, LeasedIsDue
<1> QED BY <1>3, <1>4, <1>5, <1>6, JobTouched DEF Due

LEMMA OfferRunsOutInv ==
    ASSUME SearchInv, NEW j \in JobIds, NEW r \in Riders, OfferRunsOut(j, r) PROVE SearchInv'
<1>1. offer \in [JobIds -> [Riders -> OfferStatus]] BY DEF SearchInv, JobTypes
<1>2. /\ offer' \in [JobIds -> [Riders -> OfferStatus]]
      /\ \A x \in JobIds, y \in Riders : offer'[x][y] = "pending" => offer[x][y] = "pending"
 BY <1>1 DEF OfferRunsOut, OfferStatus
<1>3. UNCHANGED <<order, code, vmode, carrier, cur, assigned, dlv, job, worker>> BY DEF OfferRunsOut, dvars
<1>4. LeasedIsDue' BY <1>2, <1>3 DEF SearchInv, LeasedIsDue, Due
<1>5. LiveJobIsCurrent' BY <1>2, <1>3 DEF SearchInv, LiveJobIsCurrent, Assignable
<1>6. job' \in [JobIds -> JobRow] /\ \A x \in JobIds : RoundOK(job'[x]) BY <1>3 DEF SearchInv, JobTypes
<1> QED BY <1>2, <1>3, <1>4, <1>5, <1>6, SearchFrom

LEMMA RejectOfferInv == ASSUME SearchInv, NEW r \in Riders, RejectOffer(r) PROVE SearchInv'
<1>1. offer \in [JobIds -> [Riders -> OfferStatus]] /\ job \in [JobIds -> JobRow] /\ cur \in JobIds
 BY DispatchAssumption DEF SearchInv, JobTypes, RejectOffer, JobIds
<1>2. /\ offer' \in [JobIds -> [Riders -> OfferStatus]]
      /\ \A x \in JobIds : x # cur => offer'[x] = offer[x]
      /\ \A y \in Riders : offer'[cur][y] = "pending" => offer[cur][y] = "pending"
 BY <1>1 DEF RejectOffer, OfferStatus
<1>3. UNCHANGED <<order, code, vmode, carrier, cur, assigned, dlv, worker>> /\ (Assignable' <=> Assignable)
 BY DEF RejectOffer, dvars, Assignable
<1>4. PICK row \in JobRow : /\ row = Unleased(job[cur]) /\ row.status = job[cur].status /\ row.by = NobodyLeases
                            /\ row.cands = job[cur].cands /\ row.round = job[cur].round
 BY <1>1, UnleasedSame
<1>5. job' = [job EXCEPT ![cur] = row] /\ RoundOK(row)
 BY <1>1, <1>4 DEF RejectOffer, SearchInv, JobTypes, RoundOK
<1>6. /\ row.status \in LiveJob => Assignable
      /\ \A y \in Riders : offer'[cur][y] = "pending" => row.status = "offering"
 BY <1>1, <1>2, <1>4 DEF SearchInv, LiveJobIsCurrent
<1>7. /\ job' \in [JobIds -> JobRow] /\ \A x \in JobIds : RoundOK(job'[x])
      /\ LeasedIsDue' /\ LiveJobIsCurrent'
 BY <1>1, <1>2, <1>3, <1>4, <1>5, <1>6, JobWritten
<1> QED BY <1>2, <1>3, <1>7, SearchFrom

\* The current job moves to its next stage, with its lease taken off.
LEMMA JobMoves ==
    ASSUME SearchInv, cur \in JobIds, Assignable, NEW rec \in JobRow, rec.round <= Len(rec.cands),
           NEW s \in {"offering", "grab_open", "manual_required"}, SetJob(cur, s, rec), SetDispatch(s),
           offer' \in [JobIds -> [Riders -> OfferStatus]],
           \A x \in JobIds : x # cur => offer'[x] = offer[x],
           s # "offering" => \A r \in Riders : offer'[cur][r] # "pending",
           UNCHANGED <<order, code, vmode, carrier, cur, assigned>>, worker' = worker \/ LoopTypes'
    PROVE  SearchInv'
<1>1. s \in JobStatus BY DEF JobStatus, LiveJob
<1>2. PICK row \in JobRow : /\ row = [Unleased(rec) EXCEPT !.status = s] /\ row.status = s /\ row.by = NobodyLeases
                            /\ row.cands = rec.cands /\ row.round = rec.round
 BY <1>1, UnleasedRow
<1>3. job' = [job EXCEPT ![cur] = row] BY <1>2 DEF SetJob
<1>4. Assignable' <=> Assignable BY DeliveryKept
<1>5. /\ job' \in [JobIds -> JobRow] /\ \A x \in JobIds : RoundOK(job'[x])
      /\ LeasedIsDue' /\ LiveJobIsCurrent'
 <2>1. RoundOK(row) BY <1>2 DEF RoundOK
 <2> QED BY <1>2, <1>3, <1>4, <2>1, JobWritten
<1> QED BY <1>5, SearchFrom

\* createNextOfferOrFallback keeps the invariant.
LEMMA NextOfferInv ==
    ASSUME SearchInv, cur \in JobIds, Assignable, NEW rec \in JobRow, rec.round <= Len(rec.cands),
           NEW offers \in [JobIds -> [Riders -> OfferStatus]],
           \A x \in JobIds : x # cur => offers[x] = offer[x],
           \A r \in Riders : offers[cur][r] # "pending",
           NextOfferOrFallback(cur, rec, offers),
           UNCHANGED <<order, code, vmode, carrier, cur, assigned>>, worker' = worker \/ LoopTypes'
    PROVE  SearchInv'
<1>1. CASE rec.round < AutoRounds /\ rec.round < Len(rec.cands)
 <2>1. PICK n \in Nat : n = rec.round BY DEF JobRow
 <2>2. PICK m \in Nat : m = n + 1 OBVIOUS
 <2>3. PICK l \in Nat : l = Len(rec.cands) BY DEF JobRow
 <2>4. PICK next : next = [rec EXCEPT !.round = m] OBVIOUS
 <2>5. next \in JobRow /\ next.round = m /\ next.cands = rec.cands BY <2>4 DEF JobRow
 <2>6. [rec EXCEPT !.round = @ + 1] = next BY <2>1, <2>2, <2>4
 <2>7. m \in 1..l /\ m <= l BY <1>1, <2>1, <2>2, <2>3
 <2>8. rec.cands[m] \in Riders BY <2>3, <2>7 DEF JobRow
 <2>9. SetJob(cur, "offering", next) /\ SetDispatch("offering") BY <1>1, <2>6 DEF NextOfferOrFallback
 <2>10. offer' = [offers EXCEPT ![cur][rec.cands[m]] = "pending"] BY <1>1, <2>1, <2>2 DEF NextOfferOrFallback
 <2>11. PICK y \in Riders : y = rec.cands[m] BY <2>8
 <2>12. /\ offer' \in [JobIds -> [Riders -> OfferStatus]]
        /\ \A x \in JobIds : x # cur => offer'[x] = offer[x]
  BY <2>10, <2>11 DEF OfferStatus
 <2>13. next.round <= Len(next.cands) BY <2>3, <2>5, <2>7
 <2> QED BY <2>5, <2>9, <2>12, <2>13, JobMoves
<1>2. CASE ~(rec.round < AutoRounds /\ rec.round < Len(rec.cands)) /\ rec.mode = "hybrid"
 <2>1. PICK next : next = [rec EXCEPT !.late = FALSE] OBVIOUS
 <2>2. next \in JobRow /\ next.round = rec.round /\ next.cands = rec.cands BY <2>1 DEF JobRow
 <2>3. SetJob(cur, "grab_open", next) /\ SetDispatch("grab_open") /\ offer' = offers
  BY <1>2, <2>1 DEF NextOfferOrFallback, OpenGrab
 <2> QED BY <2>2, <2>3, JobMoves
<1>3. CASE ~(rec.round < AutoRounds /\ rec.round < Len(rec.cands)) /\ rec.mode # "hybrid"
 <2>1. SetJob(cur, "manual_required", rec) /\ SetDispatch("manual_required") /\ offer' = offers
  BY <1>3 DEF NextOfferOrFallback, OpenManual
 <2> QED BY <2>1, JobMoves
<1> QED BY <1>1, <1>2, <1>3

\* processJob keeps the invariant.
LEMMA ProcessJobInv ==
    ASSUME SearchInv, NEW j \in JobIds, ProcessJob(j), worker' = worker \/ LoopTypes'
    PROVE  SearchInv'
<1>1. /\ job[j] \in JobRow /\ RoundOK(job[j]) /\ job[j].round <= Len(job[j].cands)
      /\ offer \in [JobIds -> [Riders -> OfferStatus]]
 BY DEF SearchInv, JobTypes, RoundOK
<1>2. j = cur /\ Assignable BY DEF ProcessJob, Due, SearchInv, LiveJobIsCurrent
<1>3. \A r \in Riders : offer[cur][r] # "pending" BY <1>2 DEF ProcessJob, Due, SearchInv, LiveJobIsCurrent
<1>4. UNCHANGED <<order, code, vmode, carrier, cur, assigned>> BY DEF ProcessJob
<1>5. ASSUME NEW c \in Rankings
      PROVE  /\ [job[j] EXCEPT !.cands = c] \in JobRow /\ [job[j] EXCEPT !.cands = c].cands = c
             /\ [job[j] EXCEPT !.cands = c].round = job[j].round
 BY <1>1, RankingIsSeq DEF JobRow
<1>6. CASE StartJob(j)
 <2>1. CASE OpenManual(j, job[j]) /\ offer' = offer
  BY <1>1, <1>2, <1>3, <1>4, <2>1, JobMoves DEF OpenManual
 <2>2. ASSUME NEW c \in Rankings, OpenGrab(j, [job[j] EXCEPT !.cands = c]), offer' = offer, job[j].round = 0
       PROVE  SearchInv'
  <3>1. PICK rec \in JobRow : rec = [job[j] EXCEPT !.cands = c] /\ rec.cands = c /\ rec.round = 0
   BY <1>5, <2>2
  <3>2. PICK next : next = [rec EXCEPT !.late = FALSE] OBVIOUS
  <3>3. next \in JobRow /\ next.round = 0 /\ next.cands = c BY <3>1, <3>2 DEF JobRow
  <3>4. next.round <= Len(next.cands) BY <3>3, RankingIsSeq
  <3>5. SetJob(j, "grab_open", next) /\ SetDispatch("grab_open") BY <2>2, <3>1, <3>2 DEF OpenGrab
  <3> QED BY <1>1, <1>2, <1>3, <1>4, <2>2, <3>3, <3>4, <3>5, JobMoves
 <2>3. ASSUME NEW c \in Rankings, NextOfferOrFallback(j, [job[j] EXCEPT !.cands = c], offer),
              job[j].round = 0
       PROVE  SearchInv'
  <3>1. PICK rec \in JobRow : rec = [job[j] EXCEPT !.cands = c] /\ rec.cands = c /\ rec.round = 0
   BY <1>5, <2>3
  <3>2. rec.round <= Len(rec.cands) BY <3>1, RankingIsSeq
  <3> QED BY <1>1, <1>2, <1>3, <1>4, <2>3, <3>1, <3>2, NextOfferInv
 <2>4. job[j].round = 0 BY <1>1, <1>6 DEF StartJob, RoundOK
 <2> QED BY <1>6, <2>1, <2>2, <2>3, <2>4 DEF StartJob
<1>7. CASE NextRound(j)
 <2>1. PICK offers : offers = [offer EXCEPT ![j] = [r \in Riders |->
                                  IF offer[j][r] = "late" THEN "expired" ELSE offer[j][r]]]
  OBVIOUS
 <2>2. /\ offers \in [JobIds -> [Riders -> OfferStatus]]
       /\ \A x \in JobIds : x # cur => offers[x] = offer[x]
       /\ \A r \in Riders : offers[cur][r] # "pending"
  BY <1>1, <1>2, <1>3, <2>1 DEF OfferStatus
 <2>3. NextOfferOrFallback(cur, job[cur], offers) BY <1>2, <1>7, <2>1 DEF NextRound
 <2> QED BY <1>1, <1>2, <1>4, <2>2, <2>3, NextOfferInv
<1>8. CASE GrabExpires(j)
 BY <1>1, <1>2, <1>3, <1>4, <1>8, JobMoves DEF GrabExpires, OpenManual
<1> QED BY <1>6, <1>7, <1>8 DEF ProcessJob

\* The loops.
LEMMA LoopsInv ==
    ASSUME SearchInv, NEW w \in DispatchWorkers,
           RunJob(w) \/ JobFails(w) \/ RecordJobFailure(w) \/ WorkerDies(w)
    PROVE  SearchInv'
<1>0. /\ worker[w] \in LoopRow /\ (worker[w].pc # "idle" => worker[w].job \in JobIds)
      /\ job \in [JobIds -> JobRow]
 BY DEF SearchInv, JobTypes
<1>1. CASE RunJob(w)
 <2>1. LoopTypes' /\ worker[w].job \in JobIds BY <1>0, <1>1, LoopIdle DEF RunJob
 <2>2. CASE ProcessJob(worker[w].job)
  BY <2>1, <2>2, ProcessJobInv
 <2>3. CASE UNCHANGED <<dvars, cur, job, offer, assigned, rider>>
  BY <2>1, <2>3, JobsKept
 <2> QED BY <1>1, <2>2, <2>3 DEF RunJob
<1>2. CASE JobFails(w)
 <2>1. PICK row : row = [worker[w] EXCEPT !.pc = "failed"] OBVIOUS
 <2>2. row \in LoopRow /\ row.job = worker[w].job BY <1>0, <2>1 DEF LoopRow
 <2>3. worker' = [worker EXCEPT ![w] = row] /\ worker[w].job \in JobIds
  BY <1>0, <1>2, <2>1 DEF JobFails, SearchInv, JobTypes
 <2>4. LoopTypes' BY <2>2, <2>3, LoopWritten
 <2> QED BY <1>2, <2>4, JobsKept DEF JobFails
<1>3. CASE RecordJobFailure(w)
 <2>1. PICK j \in JobIds : j = worker[w].job BY <1>0, <1>3 DEF RecordJobFailure
 <2>2. LoopTypes' /\ UNCHANGED <<order, code, vmode, carrier, cur, offer, assigned>>
  BY <1>3, LoopIdle DEF RecordJobFailure
 <2>3. CASE job[j].by # w
  <3>1. UNCHANGED <<job, dlv>> BY <1>3, <2>1, <2>3 DEF RecordJobFailure
  <3> QED BY <2>2, <3>1, JobsKept DEF dvars
 <2>4. CASE job[j].by = w
  <3>0. /\ job[j] \in JobRow /\ job[j].round <= Len(job[j].cands) /\ offer \in [JobIds -> [Riders -> OfferStatus]]
   BY DEF SearchInv, JobTypes, RoundOK
  <3>1. Due(j) BY <2>4, DispatchAssumption DEF SearchInv, LeasedIsDue
  <3>2. j = cur /\ Assignable /\ \A r \in Riders : offer[cur][r] # "pending"
   BY <3>1 DEF Due, SearchInv, LiveJobIsCurrent
  <3>3. CASE OpenManual(j, job[j])
   BY <2>2, <3>0, <3>2, <3>3, JobMoves DEF OpenManual
  <3>4. CASE /\ job[j].attempts + 1 < DispatchAttempts
             /\ job' = [job EXCEPT ![j] = Unleased([job[j] EXCEPT !.attempts = @ + 1])] /\ UNCHANGED dlv
   <4>1. PICK n : n = job[j].attempts + 1 OBVIOUS
   <4>2. n \in 0..(DispatchAttempts - 1) BY <3>0, <3>4, <4>1, DispatchAssumption DEF JobRow
   <4>3. PICK rec : rec = [job[j] EXCEPT !.attempts = n] OBVIOUS
   <4>4. /\ rec \in JobRow /\ rec.status = job[j].status /\ rec.round = job[j].round /\ rec.cands = job[j].cands
    BY <3>0, <4>2, <4>3 DEF JobRow
   <4>5. PICK row \in JobRow : /\ row = Unleased(rec) /\ row.status = rec.status /\ row.by = NobodyLeases
                               /\ row.cands = rec.cands /\ row.round = rec.round
    BY <4>4, UnleasedSame
   <4>6. [job[j] EXCEPT !.attempts = @ + 1] = rec BY <4>1, <4>3
   <4>7. job' = [job EXCEPT ![j] = row] BY <3>4, <4>5, <4>6
   <4>8. UNCHANGED <<dvars, cur, assigned, offer>> BY <2>2, <3>4 DEF dvars
   <4> QED BY <2>2, <4>4, <4>5, <4>7, <4>8, JobTouched
  <3> QED BY <1>3, <2>1, <2>4, <3>3, <3>4 DEF RecordJobFailure
 <2> QED BY <2>3, <2>4
<1>4. CASE WorkerDies(w)
 BY <1>4, LoopIdle, JobsKept DEF WorkerDies
<1> QED BY <1>1, <1>2, <1>3, <1>4

\* What the code operations make of the code rows.
LEMMA GenerateStageFacts ==
    ASSUME NEW c \in CodeRows, NEW s \in Stages, NEW rotate \in BOOLEAN
    PROVE  /\ GenerateStage(c, s, rotate) \in CodeRows
           /\ \A x \in Stages : x # s => GenerateStage(c, s, rotate)[x] = c[x]
           /\ GenerateStage(c, s, rotate)[s] = c[s] \/ GenerateStage(c, s, rotate)[s].status = "active"
<1>1. [status |-> "active", tries |-> 0] \in CodeRow BY DeliveryAssumption DEF CodeRow, CodeStatus
<1> QED BY <1>1 DEF GenerateStage, CodeRows

LEMMA InvalidateFacts ==
    ASSUME NEW c \in CodeRows, NEW stages \in SUBSET Stages
    PROVE  /\ InvalidateStages(c, stages) \in CodeRows
           /\ \A x \in Stages : \/ InvalidateStages(c, stages)[x] = c[x]
                                \/ /\ InvalidateStages(c, stages)[x].status = "invalidated"
                                   /\ c[x].status \in {"active", "late", "locked"}
           /\ \A x \in stages : InvalidateStages(c, stages)[x].status \notin {"active", "late", "locked"}
<1>1. \A x \in Stages : /\ [c[x] EXCEPT !.status = "invalidated"] \in CodeRow
                        /\ [c[x] EXCEPT !.status = "invalidated"].status = "invalidated"
 BY DEF CodeRows, CodeRow, CodeStatus
<1> QED BY <1>1 DEF InvalidateStages, CodeRows

LEMMA TriedFacts ==
    ASSUME NEW c \in CodeRow, NEW e \in Entries
    PROVE  /\ Tried(c, e) \in CodeRow
           /\ c.status = "active" /\ e = "right" => Tried(c, e).status = "verified"
           /\ c.status \notin {"active", "late"} => Tried(c, e) = c
           /\ Tried(c, e).status = "verified" => c.status = "verified" \/ (c.status = "active" /\ e = "right")
<1>1. CASE c.status = "active" /\ e = "wrong"
 <2>1. PICK n : n = c.tries + 1 OBVIOUS
 <2>2. c.tries \in 0..MaxTries BY DEF CodeRow
 <2>3. n \in 0..MaxTries BY <1>1, <2>1, <2>2, DeliveryAssumption DEF CodeRow
 <2>4. PICK s \in {"active", "locked"} : s = IF n >= MaxTries THEN "locked" ELSE "active" OBVIOUS
 <2>5. Tried(c, e) = [status |-> s, tries |-> n] BY <1>1, <2>1, <2>4 DEF Tried
 <2>6. s = "active" => n < MaxTries BY <2>3, <2>4, DeliveryAssumption
 <2>7. [status |-> s, tries |-> n] \in CodeRow BY <2>3, <2>6 DEF CodeRow, CodeStatus
 <2> QED BY <1>1, <2>5, <2>7
<1>2. CASE ~(c.status = "active" /\ e = "wrong")
 BY <1>2 DEF Tried, CodeRow, CodeStatus
<1> QED BY <1>1, <1>2

\* No assignment row is active.
NoneActive(rows) == \A i \in DOMAIN rows : rows[i].status # "active"

\* CommitAssignment keeps the invariant, whoever asked for it.
LEMMA AssignInv ==
    ASSUME SearchInv, cur \in JobIds, NEW r \in Riders, dlv.status \in {"pending_assign", "accepted"},
           NEW offers \in [Riders -> OfferStatus], \A y \in Riders : offers[y] # "pending",
           NEW rows1 \in Seq(AssignRow), NoneActive(rows1), Assign(r, offers, rows1), code' \in CodeRows
    PROVE  SearchInv'
<1>0. /\ job \in [JobIds -> JobRow] /\ \A x \in JobIds : RoundOK(job[x])
      /\ offer \in [JobIds -> [Riders -> OfferStatus]]
 BY DEF SearchInv, JobTypes
<1>1. /\ dlv'.status = "accepted" /\ dlv'.rider = r /\ dlv'.pickup = dlv.pickup
      /\ order'.status = order.status /\ order'.delivery = "accepted" /\ cur' = cur
      /\ vmode' = vmode /\ carrier' = carrier /\ worker' = worker
 BY DEF Assign, SearchInv, DeliveryOK, DeliveryTypeOK
<1>2. DeliveryOK'
 <2>1. code' \in [Stages -> [status : CodeStatus, tries : 0..MaxTries]] BY DEF CodeRows, CodeRow
 <2> QED BY <1>1, <2>1 DEF Assign, SearchInv, DeliveryOK, DeliveryTypeOK, DeliveryStatus
<1>3. PICK row \in JobRow : /\ row = Over("assigned") /\ row.status = "assigned"
                            /\ row.by = NobodyLeases /\ RoundOK(row)
 BY PlainRows DEF JobStatus
<1>4. job' = [job EXCEPT ![cur] = row] /\ offer' = [offer EXCEPT ![cur] = offers] BY <1>3 DEF Assign
<1>5. /\ job' \in [JobIds -> JobRow] /\ \A x \in JobIds : RoundOK(job'[x])
      /\ offer' \in [JobIds -> [Riders -> OfferStatus]] /\ job'[cur] = row /\ offer'[cur] = offers
      /\ \A x \in JobIds : x # cur => job'[x] = job[x] /\ offer'[x] = offer[x]
 BY <1>0, <1>3, <1>4
<1>6. \A x \in JobIds : /\ job'[x].status \notin LiveJob /\ \A y \in Riders : offer'[x][y] # "pending"
                        /\ job'[x].by = NobodyLeases
 BY <1>3, <1>5 DEF SearchInv, LiveJobIsCurrent, LeasedIsDue, Due, LiveJob
<1>7. LiveJobIsCurrent' /\ LeasedIsDue' BY <1>6 DEF LiveJobIsCurrent, LeasedIsDue
<1>8. PICK new : new = [rider |-> r, status |-> "active"] OBVIOUS
<1>9. assigned' = Append(rows1, new) BY <1>8 DEF Assign
<1>10. PICK n \in Nat : n = Len(rows1) OBVIOUS
<1>11. /\ assigned' \in Seq(AssignRow) /\ DOMAIN assigned' = 1..(n + 1) /\ DOMAIN rows1 = 1..n
       /\ assigned'[n + 1] = new /\ \A i \in 1..n : assigned'[i] = rows1[i]
       /\ new.rider = r /\ new.status = "active"
 <2>1. new \in AssignRow /\ new.rider = r /\ new.status = "active" BY <1>8 DEF AssignRow
 <2> QED BY <1>9, <1>10, <2>1
<1>12. {i \in DOMAIN assigned' : assigned'[i].status = "active"} = {n + 1}
 <2>1. \A i \in 1..n : assigned'[i].status # "active" BY <1>11 DEF NoneActive
 <2>2. \A i \in 1..(n + 1) : i = n + 1 \/ i \in 1..n OBVIOUS
 <2> QED BY <1>11, <2>1, <2>2
<1>13. OneRider' BY <1>1, <1>11, <1>12 DEF OneRider
<1>14. GoodsWithCarrier' BY <1>1 DEF GoodsWithCarrier, SearchInv
<1>15. Phase' BY <1>1, DeliveryAssumption DEF Phase
<1>16. JobTypes' BY <1>1, <1>5, <1>11 DEF SearchInv, JobTypes
<1> QED BY <1>2, <1>7, <1>13, <1>14, <1>15, <1>16 DEF SearchInv

LEMMA WithdrawnFacts ==
    ASSUME NEW o \in [Riders -> OfferStatus]
    PROVE  Withdrawn(o) \in [Riders -> OfferStatus] /\ \A y \in Riders : Withdrawn(o)[y] # "pending"
BY DEF Withdrawn, OfferStatus

LEMMA AssignmentsInv ==
    ASSUME SearchInv, NEW r \in Riders, AcceptOffer(r) \/ Grab(r) \/ ManualAssign(r) \/ Reassign(r)
    PROVE  SearchInv'
<1>1. /\ offer \in [JobIds -> [Riders -> OfferStatus]] /\ assigned \in Seq(AssignRow) /\ code \in CodeRows
 BY DEF SearchInv, JobTypes, DeliveryOK
<1>2. CASE AcceptOffer(r) \/ Grab(r) \/ ManualAssign(r)
 <2>1. cur \in JobIds /\ dlv.status = "pending_assign"
  BY <1>2 DEF AcceptOffer, Grab, ManualAssign, Assignable, SearchInv, Phase
 <2>2. NoneActive(assigned) BY <2>1 DEF SearchInv, OneRider, NoneActive
 <2>3. [offer[cur] EXCEPT ![r] = "accepted"] \in [Riders -> OfferStatus] /\ offer[cur] \in [Riders -> OfferStatus]
  BY <1>1, <2>1 DEF OfferStatus
 <2>4. code' = code BY <1>2 DEF AcceptOffer, Grab, ManualAssign
 <2>5. PICK o \in [Riders -> OfferStatus] : Assign(r, Withdrawn(o), assigned)
  BY <1>2, <2>3 DEF AcceptOffer, Grab, ManualAssign
 <2> QED BY <1>1, <2>1, <2>2, <2>4, <2>5, WithdrawnFacts, AssignInv
<1>3. CASE Reassign(r)
 <2>1. dlv.status = "accepted" /\ cur \in JobIds BY <1>3 DEF Reassign, SearchInv, Phase
 <2>2. Superseded(assigned) \in Seq(AssignRow) /\ NoneActive(Superseded(assigned))
  <3>1. PICK n \in Nat : n = Len(assigned) /\ DOMAIN assigned = 1..n /\ assigned \in [1..n -> AssignRow]
   BY <1>1
  <3>2. ASSUME NEW row \in AssignRow
        PROVE  /\ [row EXCEPT !.status = "superseded"] \in AssignRow
               /\ [row EXCEPT !.status = "superseded"].status = "superseded"
   BY DEF AssignRow
  <3>3. Superseded(assigned) \in [1..n -> AssignRow] /\ NoneActive(Superseded(assigned))
   BY <3>1, <3>2 DEF Superseded, NoneActive
  <3> QED BY <3>3
 <2>3. offer[cur] \in [Riders -> OfferStatus] BY <1>1, <2>1
 <2>4. code' \in CodeRows
  <3>1. InvalidateAndRegenerate(code) \in CodeRows
   BY <1>1, InvalidateFacts, GenerateStageFacts DEF InvalidateAndRegenerate, Stages
  <3> QED BY <1>1, <1>3, <3>1 DEF Reassign
 <2>5. Assign(r, Withdrawn(offer[cur]), Superseded(assigned)) BY <1>3 DEF Reassign
 <2> QED BY <2>1, <2>2, <2>3, <2>4, <2>5, WithdrawnFacts, AssignInv
<1> QED BY <1>2, <1>3

LEMMA EnsurePaidInv == ASSUME SearchInv, EnsurePaidOrderTask PROVE SearchInv'
<1>0. /\ job \in [JobIds -> JobRow] /\ \A x \in JobIds : RoundOK(job[x])
      /\ offer \in [JobIds -> [Riders -> OfferStatus]] /\ 1 \in JobIds
 BY DispatchAssumption DEF SearchInv, JobTypes, JobIds
<1>1. /\ dlv'.status = "pending_assign" /\ dlv'.rider = NoRider /\ dlv.status = "none"
      /\ UNCHANGED <<order, code, vmode, carrier, offer, assigned, worker>> /\ cur' = 1 /\ DeliveryOK'
 BY DEF EnsurePaidOrderTask, CreateJob, SearchInv, DeliveryOK, DeliveryTypeOK, Phase, DeliveryStatus
<1>2. PICK mode \in Modes : CreateJob(1, mode) BY DEF EnsurePaidOrderTask
<1>3. PICK row \in JobRow : /\ row = [NoJob EXCEPT !.status = "pending", !.mode = mode]
                            /\ row.status = "pending" /\ row.by = NobodyLeases /\ RoundOK(row)
 BY PlainRows
<1>4. /\ job' \in [JobIds -> JobRow] /\ \A x \in JobIds : RoundOK(job'[x])
      /\ job'[1] = row /\ \A x \in JobIds : x # 1 => job'[x] = job[x]
 BY <1>0, <1>2, <1>3 DEF CreateJob
<1>5. \A x \in JobIds : /\ job[x].status \notin LiveJob /\ job[x].by = NobodyLeases
                        /\ \A y \in Riders : offer[x][y] # "pending"
 BY <1>1 DEF SearchInv, LiveJobIsCurrent, LeasedIsDue, Due, Assignable, LiveJob
<1>6. LiveJobIsCurrent' /\ LeasedIsDue'
 BY <1>0, <1>1, <1>3, <1>4, <1>5 DEF LiveJobIsCurrent, LeasedIsDue, Assignable
<1>7. OneRider' /\ GoodsWithCarrier' /\ Phase' BY <1>0, <1>1 DEF SearchInv, OneRider, GoodsWithCarrier, Phase
<1>8. JobTypes' BY <1>0, <1>1, <1>4 DEF SearchInv, JobTypes, JobIds
<1> QED BY <1>1, <1>6, <1>7, <1>8 DEF SearchInv

LEMMA RetryJobInv == ASSUME SearchInv, RetryJob PROVE SearchInv'
<1>0. /\ job \in [JobIds -> JobRow] /\ \A x \in JobIds : RoundOK(job[x])
      /\ offer \in [JobIds -> [Riders -> OfferStatus]]
 BY DEF SearchInv, JobTypes
<1>1. PICK c \in JobIds : c = cur BY DispatchAssumption DEF RetryJob, JobIds
<1>2. PICK d \in JobIds : d = cur + 1 /\ d # c BY <1>1, DispatchAssumption DEF RetryJob, JobIds
<1>3. job[c].mode \in Modes /\ job[c].status = "manual_required" BY <1>0, <1>1 DEF JobRow, RetryJob
<1>4. PICK row \in JobRow : /\ row = [NoJob EXCEPT !.status = "pending", !.mode = job[c].mode]
                            /\ row.status = "pending" /\ row.by = NobodyLeases /\ RoundOK(row)
 BY <1>3, PlainRows
<1>5. PICK old \in JobRow : /\ old = Over("cancelled") /\ old.status = "cancelled"
                            /\ old.by = NobodyLeases /\ RoundOK(old)
 BY PlainRows DEF JobStatus
<1>6. job' = [job EXCEPT ![c] = old, ![d] = row] /\ cur' = d BY <1>1, <1>2, <1>4, <1>5 DEF RetryJob
<1>7. /\ job' \in [JobIds -> JobRow] /\ \A x \in JobIds : RoundOK(job'[x])
      /\ job'[d] = row /\ job'[c] = old /\ \A x \in JobIds : x # c /\ x # d => job'[x] = job[x]
 BY <1>0, <1>2, <1>4, <1>5, <1>6
<1>8. /\ UNCHANGED <<order, code, vmode, carrier, offer, assigned, worker>>
      /\ dlv'.status = dlv.status /\ dlv'.rider = dlv.rider /\ dlv'.pickup = dlv.pickup
      /\ Assignable /\ Assignable' /\ DeliveryOK'
 BY DEF RetryJob, SetDispatch, SearchInv, DeliveryOK, DeliveryTypeOK, Assignable
<1>9. \A x \in JobIds : /\ job[x].status \notin LiveJob /\ job[x].by = NobodyLeases
                        /\ \A y \in Riders : offer[x][y] # "pending"
 BY <1>1, <1>3 DEF SearchInv, LiveJobIsCurrent, LeasedIsDue, Due, LiveJob
<1>10. LiveJobIsCurrent'
 <2>1. \A x \in JobIds : x # d => job'[x].status \notin LiveJob BY <1>5, <1>7, <1>9 DEF LiveJob
 <2> QED BY <1>6, <1>8, <1>9, <2>1 DEF LiveJobIsCurrent
<1>11. LeasedIsDue'
 <2>1. \A x \in JobIds : job'[x].by = NobodyLeases BY <1>4, <1>5, <1>7, <1>9
 <2> QED BY <2>1 DEF LeasedIsDue
<1>12. OneRider' /\ GoodsWithCarrier' /\ Phase' BY <1>6, <1>8 DEF SearchInv, OneRider, GoodsWithCarrier, Phase
<1>13. JobTypes'
 <2>1. d \in 0..MaxJobs BY DispatchAssumption DEF JobIds
 <2> QED BY <1>0, <1>6, <1>7, <1>8, <2>1 DEF SearchInv, JobTypes
<1> QED BY <1>8, <1>10, <1>11, <1>12, <1>13 DEF SearchInv

LEMMA CancelScheduledInv == ASSUME SearchInv, CancelScheduled PROVE SearchInv'
<1>0. /\ job \in [JobIds -> JobRow] /\ \A x \in JobIds : RoundOK(job[x])
      /\ offer \in [JobIds -> [Riders -> OfferStatus]] /\ assigned \in Seq(AssignRow)
 BY DEF SearchInv, JobTypes
<1>1. /\ dlv'.status = "cancelled" /\ dlv.status \in {"pending_assign", "accepted"}
      /\ order'.status = "cancelled" /\ order'.delivery = "cancelled"
      /\ UNCHANGED <<code, vmode, carrier, cur, worker>> /\ DeliveryOK'
 BY DEF CancelScheduled, SearchInv, DeliveryOK, DeliveryTypeOK, DeliveryStatus, OrderStatus
<1>2. PICK row \in JobRow : /\ row = Over("cancelled") /\ row.status = "cancelled"
                            /\ row.by = NobodyLeases /\ RoundOK(row)
 BY PlainRows DEF JobStatus
<1>3. /\ job' = [j \in JobIds |-> IF job[j].status \in LiveJob \cup {"manual_required", "assigned"}
                                  THEN row ELSE job[j]]
      /\ offer' = [j \in JobIds |-> Withdrawn(offer[j])]
 BY <1>2 DEF CancelScheduled
<1>4. /\ job' \in [JobIds -> JobRow] /\ \A x \in JobIds : RoundOK(job'[x])
      /\ \A x \in JobIds : job'[x].status \notin LiveJob
 BY <1>0, <1>2, <1>3 DEF LiveJob
<1>5. /\ offer' \in [JobIds -> [Riders -> OfferStatus]] /\ \A x \in JobIds, y \in Riders : offer'[x][y] # "pending"
 BY <1>0, <1>3, WithdrawnFacts
<1>6. \A x \in JobIds : job'[x].by = NobodyLeases BY <1>2, <1>3 DEF SearchInv, LeasedIsDue, Due
<1>7. LiveJobIsCurrent' /\ LeasedIsDue' BY <1>4, <1>5, <1>6 DEF LiveJobIsCurrent, LeasedIsDue
<1>8. assigned' \in Seq(AssignRow) /\ {i \in DOMAIN assigned' : assigned'[i].status = "active"} = {}
 <2>1. PICK n \in Nat : n = Len(assigned) /\ DOMAIN assigned = 1..n /\ assigned \in [1..n -> AssignRow]
  BY <1>0
 <2>2. ASSUME NEW a \in AssignRow
       PROVE  /\ [a EXCEPT !.status = "cancelled"] \in AssignRow
              /\ [a EXCEPT !.status = "cancelled"].status = "cancelled"
  BY DEF AssignRow
 <2>3. assigned' \in [1..n -> AssignRow] /\ \A i \in 1..n : assigned'[i].status # "active"
  BY <2>1, <2>2 DEF CancelScheduled
 <2> QED BY <2>3
<1>9. OneRider' /\ GoodsWithCarrier' /\ Phase' BY <1>1, <1>8 DEF SearchInv, OneRider, GoodsWithCarrier, Phase
<1>10. JobTypes' BY <1>1, <1>4, <1>5, <1>8 DEF SearchInv, JobTypes
<1> QED BY <1>1, <1>7, <1>9, <1>10 DEF SearchInv

\* A step of shop, codes and rider, with the jobs as they were.
LEMMA JobsFrozen ==
    ASSUME SearchInv, UNCHANGED jvars, DeliveryOK', Phase', OneRider', GoodsWithCarrier',
           Assignable => Assignable'
    PROVE  SearchInv'
<1>1. UNCHANGED <<cur, job, offer, assigned, worker>> BY DEF jvars
<1>2. JobTypes' BY <1>1 DEF SearchInv, JobTypes
<1>3. LeasedIsDue' BY <1>1 DEF SearchInv, LeasedIsDue, Due
<1>4. LiveJobIsCurrent' BY <1>1 DEF SearchInv, LiveJobIsCurrent
<1> QED BY <1>2, <1>3, <1>4 DEF SearchInv

\* A step that writes one code only.
LEMMA CodeWritten ==
    ASSUME SearchInv, UNCHANGED jvars, UNCHANGED <<order, dlv, vmode, carrier>>,
           NEW s \in Stages, NEW row \in CodeRow, code' = [code EXCEPT ![s] = row],
           s = "pickup" /\ dlv.status \in {"delivering", "completed"} => row.status = code[s].status,
           s = "delivery" /\ dlv.status = "completed" => row.status = code[s].status
    PROVE  SearchInv'
<1>1. code \in CodeRows BY DEF SearchInv, DeliveryOK
<1>2. code' \in CodeRows /\ code'[s] = row /\ \A x \in Stages : x # s => code'[x] = code[x]
 BY <1>1 DEF CodeRows
<1>3. code' \in [Stages -> [status : CodeStatus, tries : 0..MaxTries]] BY <1>2 DEF CodeRows, CodeRow
<1>4. DeliveryOK' BY <1>2, <1>3 DEF SearchInv, DeliveryOK, DeliveryTypeOK
<1>5. Phase' /\ OneRider' BY DEF SearchInv, Phase, OneRider, jvars
<1>6. GoodsWithCarrier' BY <1>2 DEF SearchInv, GoodsWithCarrier, Stages
<1> QED BY <1>4, <1>5, <1>6, JobsFrozen DEF Assignable

LEMMA FreshCode == [status |-> "active", tries |-> 0] \in CodeRow
BY DeliveryAssumption DEF CodeRow, CodeStatus

LEMMA CodeStepInv == ASSUME SearchInv, UNCHANGED jvars, CodeStep PROVE SearchInv'
<1>1. ASSUME NEW s \in Stages, Unlock(s) PROVE SearchInv'
 <2>1. PICK row \in CodeRow : row = [status |-> "active", tries |-> 0] BY FreshCode
 <2>2. code' = [code EXCEPT ![s] = row] /\ UNCHANGED <<order, dlv, vmode, carrier>> BY <1>1, <2>1 DEF Unlock
 <2>3. /\ s = "pickup" => dlv.status \in {"pending_assign", "accepted"}
       /\ s = "delivery" => dlv.status = "delivering"
  BY <1>1 DEF Unlock, UnlockableIn
 <2> QED BY <2>2, <2>3, CodeWritten
<1>2. ASSUME NEW s \in Stages, CodeRunsOut(s) PROVE SearchInv'
 <2>1. code \in CodeRows BY DEF SearchInv, DeliveryOK
 <2>2. PICK row : row = [code[s] EXCEPT !.status = "late"] OBVIOUS
 <2>3. row \in CodeRow BY <2>1, <2>2 DEF CodeRows, CodeRow, CodeStatus
 <2>4. code' = [code EXCEPT ![s] = row] /\ UNCHANGED <<order, dlv, vmode, carrier>> /\ code[s].status = "active"
  BY <1>2, <2>1, <2>2 DEF CodeRunsOut, CodeRows
 <2>5. code'[s] = row /\ code' \in CodeRows /\ \A x \in Stages : x # s => code'[x] = code[x]
  BY <2>1, <2>3, <2>4 DEF CodeRows
 <2>6. /\ s = "pickup" /\ dlv.status \in {"delivering", "completed"} => vmode # "enforce"
       /\ s = "delivery" /\ dlv.status = "completed" => vmode # "enforce"
  BY <2>4 DEF SearchInv, GoodsWithCarrier
 <2>7. code' \in [Stages -> [status : CodeStatus, tries : 0..MaxTries]] BY <2>5 DEF CodeRows, CodeRow
 <2>8. DeliveryOK' BY <2>4, <2>5, <2>7 DEF SearchInv, DeliveryOK, DeliveryTypeOK
 <2>9. Phase' /\ OneRider' BY <2>4 DEF SearchInv, Phase, OneRider, jvars
 <2>10. GoodsWithCarrier' BY <2>4, <2>5, <2>6 DEF SearchInv, GoodsWithCarrier, Stages
 <2> QED BY <2>4, <2>8, <2>9, <2>10, JobsFrozen DEF Assignable
<1> QED BY <1>1, <1>2 DEF CodeStep

LEMMA ShopInv == ASSUME SearchInv, UNCHANGED jvars, ShopStep PROVE SearchInv'
<1>1. ASSUME NEW from \in OrderStatus, NEW to \in OrderStatus, StoreTransition(from, to),
             from \in {"paid", "accepted", "preparing"}
      PROVE  SearchInv'
 <2>1. /\ order'.delivery = order.delivery /\ order.status = from
       /\ UNCHANGED <<dlv, code, vmode, carrier, assigned, cur>> /\ DeliveryOK'
  BY <1>1 DEF StoreTransition, SearchInv, DeliveryOK, DeliveryTypeOK, jvars
 <2>2. dlv.status \notin {"delivering", "completed", "cancelled"} BY <1>1, <2>1 DEF SearchInv, Phase
 <2>3. Phase' /\ OneRider' /\ GoodsWithCarrier'
  BY <2>1, <2>2 DEF SearchInv, Phase, OneRider, GoodsWithCarrier
 <2> QED BY <2>1, <2>3, JobsFrozen DEF Assignable
<1>2. CASE PrepareOrder
 <2>1. /\ order'.delivery = IF dlv.rider = NoRider THEN "pending_assign" ELSE "accepted"
       /\ order.status = "preparing" /\ UNCHANGED <<vmode, carrier, assigned, cur>>
       /\ dlv'.status = dlv.status /\ dlv'.rider = dlv.rider /\ dlv.status # "none" /\ code \in CodeRows
  BY <1>2 DEF PrepareOrder, SearchInv, DeliveryOK, DeliveryTypeOK, jvars
 <2>2. code' \in CodeRows BY <1>2, <2>1, GenerateStageFacts DEF PrepareOrder, Stages
 <2>3. code' \in [Stages -> [status : CodeStatus, tries : 0..MaxTries]] BY <2>2 DEF CodeRows, CodeRow
 <2>4. DeliveryOK'
  <3>1. order' \in [kind : {"retail", "redemption"}, status : OrderStatus, delivery : DeliveryStatus]
   BY <1>2 DEF PrepareOrder, SearchInv, DeliveryOK, DeliveryTypeOK, OrderStatus, DeliveryStatus
  <3> QED BY <1>2, <2>1, <2>2, <2>3, <3>1 DEF PrepareOrder, SearchInv, DeliveryOK, DeliveryTypeOK
 <2>5. dlv.status \in {"pending_assign", "accepted"}
  BY <2>1 DEF SearchInv, Phase, DeliveryOK, DeliveryTypeOK, DeliveryStatus
 <2>6. Phase' /\ OneRider' /\ GoodsWithCarrier'
  BY <2>1, <2>5 DEF SearchInv, Phase, OneRider, GoodsWithCarrier
 <2> QED BY <2>1, <2>4, <2>6, JobsFrozen DEF Assignable
<1>3. {"paid", "accepted", "preparing"} \subseteq OrderStatus BY DEF OrderStatus
<1> QED BY <1>1, <1>2, <1>3 DEF ShopStep, AcceptOrder, StartPreparingOrder

LEMMA RiderInv ==
    ASSUME SearchInv, UNCHANGED jvars, NEW r \in Riders, NEW e \in Entries,
           Pickup(r, e) \/ Complete(r, e) \/ \E s \in Stages : Refused(r, s, e)
    PROVE  SearchInv'
<1>0. code \in CodeRows /\ \A s \in Stages : code[s] \in CodeRow BY DEF SearchInv, DeliveryOK, CodeRows
<1>1. CASE Pickup(r, e)
 <2>1. PICK row \in CodeRow : row = Tried(code["pickup"], e) BY <1>0, TriedFacts DEF Stages
 <2>2a. PICK c : c = [code EXCEPT !["pickup"] = row] OBVIOUS
 <2>2. c \in CodeRows /\ c["pickup"] = row BY <1>0, <2>2a DEF CodeRows, Stages
 <2>3. code' = GenerateStage(c, "delivery", TRUE) BY <1>0, <1>1, <2>1, <2>2a DEF Pickup
 <2>4. code' \in CodeRows /\ code'["pickup"] = row BY <2>2, <2>3, GenerateStageFacts DEF Stages
 <2>5. vmode = "enforce" => row.status = "verified"
  BY <1>0, <1>1, <2>1, TriedFacts DEF Pickup, Passes, Stages
 <2>6. /\ dlv'.status = "delivering" /\ dlv'.rider = dlv.rider /\ dlv.rider = r /\ dlv'.pickup = "ready"
       /\ order'.status = "delivering" /\ order'.delivery = "delivering" /\ dlv.status = "accepted"
       /\ UNCHANGED <<vmode, assigned, cur>> /\ carrier' = r
  BY <1>1 DEF Pickup, SearchInv, DeliveryOK, DeliveryTypeOK, jvars
 <2>7. code' \in [Stages -> [status : CodeStatus, tries : 0..MaxTries]] BY <2>4 DEF CodeRows, CodeRow
 <2>8. DeliveryOK'
  BY <1>1, <2>4, <2>6, <2>7 DEF Pickup, SearchInv, DeliveryOK, DeliveryTypeOK, OrderStatus, DeliveryStatus
 <2>9. Phase' /\ OneRider' /\ GoodsWithCarrier'
  BY <2>4, <2>5, <2>6 DEF SearchInv, Phase, OneRider, GoodsWithCarrier
 <2> QED BY <2>6, <2>8, <2>9, JobsFrozen DEF Assignable
<1>2. CASE Complete(r, e)
 <2>1. PICK row \in CodeRow : row = Tried(code["delivery"], e) BY <1>0, TriedFacts DEF Stages
 <2>2a. PICK c : c = [code EXCEPT !["delivery"] = row] OBVIOUS
 <2>2. c \in CodeRows /\ c["delivery"] = row /\ c["pickup"] = code["pickup"]
  BY <1>0, <2>2a DEF CodeRows, Stages
 <2>3. code' = InvalidateStages(c, Stages) BY <1>0, <1>2, <2>1, <2>2a DEF Complete, Invalidate
 <2>4. /\ code' \in CodeRows
       /\ \A x \in Stages : c[x].status = "verified" => code'[x].status = "verified"
  BY <2>2, <2>3, InvalidateFacts
 <2>5. vmode = "enforce" => row.status = "verified"
  BY <1>0, <1>2, <2>1, TriedFacts DEF Complete, Passes, Stages
 <2>6. /\ dlv'.status = "completed" /\ dlv'.rider = dlv.rider /\ dlv'.pickup = dlv.pickup
       /\ order'.status = "completed" /\ order'.delivery = "completed" /\ dlv.status = "delivering"
       /\ UNCHANGED <<vmode, assigned, cur, carrier>>
  BY <1>2 DEF Complete, SearchInv, DeliveryOK, DeliveryTypeOK, jvars
 <2>7. code' \in [Stages -> [status : CodeStatus, tries : 0..MaxTries]] BY <2>4 DEF CodeRows, CodeRow
 <2>8. DeliveryOK'
  BY <1>2, <2>4, <2>6, <2>7 DEF Complete, SearchInv, DeliveryOK, DeliveryTypeOK, OrderStatus, DeliveryStatus
 <2>9. Phase' /\ OneRider' BY <2>6 DEF SearchInv, Phase, OneRider
 <2>10. GoodsWithCarrier' BY <2>2, <2>4, <2>5, <2>6 DEF SearchInv, GoodsWithCarrier, Stages
 <2> QED BY <2>6, <2>8, <2>9, <2>10, JobsFrozen DEF Assignable
<1>3. ASSUME NEW s \in Stages, Refused(r, s, e) PROVE SearchInv'
 <2>1. PICK row \in CodeRow : row = Tried(code[s], e) BY <1>0, <1>3, TriedFacts
 <2>2. code' = [code EXCEPT ![s] = row] /\ UNCHANGED <<order, dlv, vmode, carrier>>
  BY <1>0, <1>3, <2>1 DEF Refused
 <2>3. dlv.status = IF s = "pickup" THEN "accepted" ELSE "delivering" BY <1>3 DEF Refused
 <2> QED BY <2>2, <2>3, CodeWritten
<1> QED BY <1>1, <1>2, <1>3

\* Every step of dispatch and delivery keeps the invariant.
LEMMA SearchStepInv == ASSUME SearchInv, DispatchNext PROVE SearchInv'
<1>1. CASE EnsurePaidOrderTask \/ RetryJob \/ CancelScheduled
 BY <1>1, EnsurePaidInv, RetryJobInv, CancelScheduledInv
<1>2. ASSUME NEW j \in JobIds, WakeUp(j) \/ GrabRunsOut(j) \/ LeaseRunsOut(j) PROVE SearchInv'
 BY <1>2, ProcessJobInv, GrabRunsOutInv, LeaseRunsOutInv DEF WakeUp
<1>3. ASSUME NEW w \in DispatchWorkers, RunJob(w) \/ JobFails(w) \/ RecordJobFailure(w) \/ WorkerDies(w)
      PROVE  SearchInv'
 BY <1>3, LoopsInv
<1>4. ASSUME NEW w \in DispatchWorkers, NEW j \in JobIds, Claim(w, j) PROVE SearchInv' BY <1>4, ClaimInv
<1>5. ASSUME NEW r \in Riders, AcceptOffer(r) \/ Grab(r) \/ ManualAssign(r) \/ Reassign(r) PROVE SearchInv'
 BY <1>5, AssignmentsInv
<1>6. ASSUME NEW r \in Riders, RejectOffer(r) PROVE SearchInv' BY <1>6, RejectOfferInv
<1>7. ASSUME NEW r \in Riders, UpdateWorkStatus(r) \/ Heartbeat(r) \/ RiderGoesStale(r) PROVE SearchInv'
 BY <1>7, JobsKept DEF UpdateWorkStatus, Heartbeat, RiderGoesStale
<1>8. ASSUME NEW j \in JobIds, NEW r \in Riders, OfferRunsOut(j, r) PROVE SearchInv' BY <1>8, OfferRunsOutInv
<1>9. CASE DeliveryStep
 BY <1>9, ShopInv, CodeStepInv, RiderInv DEF DeliveryStep
<1> QED BY <1>1, <1>2, <1>3, <1>4, <1>5, <1>6, <1>7, <1>8, <1>9 DEF DispatchNext

----------------------------------------
(* What is paid back. *)

\* There are finitely many refund rows.
LEMMA RowsFinite == IsFiniteSet(Cases \X Rows)
<1>1. IsFiniteSet(Rows)
 <2>1. IsFiniteSet({1}) BY FS_Singleton
 <2>2. IsFiniteSet({1} \cup {2}) BY <2>1, FS_AddElement
 <2>3. {1} \cup {2} = Rows BY DEF Rows
 <2> QED BY <2>2, <2>3
<1> QED BY <1>1, RefundAssumption, FS_Product

\* Sums of amounts over sets of rows.
LEMMA AmountSums ==
    ASSUME sale \in [Cases -> SaleRow], NEW T \in SUBSET (Cases \X Rows)
    PROVE  /\ \A x \in Cases \X Rows : RefundAmounts[x] = sale[x[1]].amount /\ RefundAmounts[x] \in Nat
           /\ SumFunctionOnSet(RefundAmounts, T) \in Nat
           /\ \A S \in SUBSET T : SumFunctionOnSet(RefundAmounts, S) <= SumFunctionOnSet(RefundAmounts, T)
           /\ \A x \in T : SumFunctionOnSet(RefundAmounts, T) = RefundAmounts[x] + SumFunctionOnSet(RefundAmounts, T \ {x})
           /\ \A x \in (Cases \X Rows) \ T :
                 SumFunctionOnSet(RefundAmounts, T \cup {x}) = RefundAmounts[x] + SumFunctionOnSet(RefundAmounts, T)
<1>1. \A x \in Cases \X Rows : x[1] \in Cases OBVIOUS
<1>2. \A x \in Cases \X Rows : RefundAmounts[x] = sale[x[1]].amount /\ RefundAmounts[x] \in Nat
 BY <1>1 DEF RefundAmounts, SaleRow
<1>3. \A x \in Cases \X Rows : RefundAmounts[x] \in Int BY <1>2
<1>4. IsFiniteSet(T) BY RowsFinite, FS_Subset
<1>5. /\ SumFunctionOnSet(RefundAmounts, T) \in Nat
      /\ \A S \in SUBSET T : SumFunctionOnSet(RefundAmounts, S) <= SumFunctionOnSet(RefundAmounts, T)
 BY <1>2, <1>4, SumSubset
<1>6. \A x \in T : SumFunctionOnSet(RefundAmounts, T) = RefundAmounts[x] + SumFunctionOnSet(RefundAmounts, T \ {x})
 BY <1>3, <1>4, SumTakeOut
<1>7. ASSUME NEW x \in (Cases \X Rows) \ T
      PROVE  SumFunctionOnSet(RefundAmounts, T \cup {x}) = RefundAmounts[x] + SumFunctionOnSet(RefundAmounts, T)
 <2>1. \A y \in T \cup {x} : RefundAmounts[y] \in Int BY <1>3
 <2> QED BY <1>4, <2>1, SumAdd
<1> QED BY <1>2, <1>5, <1>6, <1>7

\* The ledger stays right when no row succeeds and no row becomes payable.
LEMMA LedgerKept ==
    ASSUME MoneyInv, UNCHANGED <<paid, refunded, sale>>,
           Succeeded' = Succeeded, Potential' \subseteq Potential
    PROVE  Ledger'
<1>1. sale \in [Cases -> SaleRow] /\ paid \in Nat /\ refunded \in Nat /\ Ledger BY DEF MoneyInv, MoneyTypes
<1>2. RefundAmounts' = RefundAmounts BY DEF RefundAmounts
<1>3. Potential \in SUBSET (Cases \X Rows) /\ Potential' \in SUBSET Potential BY DEF Potential
<1>4. PICK n \in Nat : n = SumFunctionOnSet(RefundAmounts, Potential) BY <1>1, <1>3, AmountSums
<1>5. PICK m \in Nat : m = SumFunctionOnSet(RefundAmounts, Potential')
 <2>1. Potential' \in SUBSET (Cases \X Rows) BY <1>3
 <2> QED BY <1>1, <2>1, AmountSums
<1>6. m <= n BY <1>1, <1>3, <1>4, <1>5, AmountSums
<1>7. refunded = SumFunctionOnSet(RefundAmounts, Succeeded) /\ refunded + n <= paid BY <1>1, <1>4 DEF Ledger
<1>8. refunded + m <= paid BY <1>1, <1>6, <1>7
<1> QED BY <1>2, <1>5, <1>7, <1>8 DEF Ledger

\* Rows do not disappear.
RowsStay == \A c \in Cases, k \in Rows : rf[c][k].status # "none" => rf'[c][k].status # "none"

\* What a write of one row leaves.
LEMMA RowFacts ==
    ASSUME MoneyTypes, NEW c \in Cases, NEW k \in Rows, NEW row \in RefundRow,
           rf' = [rf EXCEPT ![c][k] = row]
    PROVE  /\ rf' \in [Cases -> [Rows -> RefundRow]] /\ rf'[c][k] = row
           /\ \A d \in Cases, l \in Rows : <<d, l>> # <<c, k>> => rf'[d][l] = rf[d][l]
<1>1. rf \in [Cases -> [Rows -> RefundRow]] BY DEF MoneyTypes
<1>2. PICK line \in [Rows -> RefundRow] : line = [rf[c] EXCEPT ![k] = row] BY <1>1
<1>3. line[k] = row /\ \A l \in Rows : l # k => line[l] = rf[c][l] BY <1>1, <1>2
<1>4. rf' = [rf EXCEPT ![c] = line] BY <1>1, <1>2
<1>5. rf' \in [Cases -> [Rows -> RefundRow]] /\ rf'[c] = line /\ \A d \in Cases : d # c => rf'[d] = rf[d]
 BY <1>1, <1>4
<1> QED BY <1>3, <1>5

\* A write that neither opens a row nor reports a success.
LEMMA RowWritten ==
    ASSUME MoneyInv, NEW c \in Cases, NEW k \in Rows, NEW row \in RefundRow,
           rf' = [rf EXCEPT ![c][k] = row], UNCHANGED <<paid, refunded, prov, inflight, sale>>,
           row.status \in {"none", "succeeded"} \/ rf[c][k].status \in {"none", "succeeded"} =>
              row.status = rf[c][k].status,
           row.status = "failed" => row.seen = "CLOSED",
           rf[c][k].seen = "CLOSED" => row.seen = "CLOSED",
           row.seen = "CLOSED" => "CLOSED" \in prov[c][k] /\ row.status \notin {"none", "succeeded"},
           row.fresh # {} => row.status \in ReservedRefund
    PROVE  MoneyInv' /\ RowsStay
<1>0. MoneyTypes /\ rf[c][k] \in RefundRow BY DEF MoneyInv, MoneyTypes
<1>1. /\ rf' \in [Cases -> [Rows -> RefundRow]] /\ rf'[c][k] = row
      /\ \A d \in Cases, l \in Rows : <<d, l>> # <<c, k>> => rf'[d][l] = rf[d][l]
 BY <1>0, RowFacts, ZenonT(60)
<1>2. MoneyTypes' BY <1>1 DEF MoneyInv, MoneyTypes
<1>3. RowsStay BY <1>1 DEF RowsStay
<1>4. ASSUME NEW d \in Cases, NEW l \in Rows PROVE RowAgrees(d, l)'
 <2>1. RowAgrees(d, l) BY DEF MoneyInv
 <2>2. CASE <<d, l>> = <<c, k>>
  BY <1>1, <2>1, <2>2 DEF RowAgrees
 <2>3. CASE <<d, l>> # <<c, k>>
  BY <1>1, <2>1, <2>3 DEF RowAgrees
 <2> QED BY <2>2, <2>3
<1>5. Succeeded' = Succeeded
 <2>1. ASSUME NEW d \in Cases, NEW l \in Rows
       PROVE  rf'[d][l].status = "succeeded" <=> rf[d][l].status = "succeeded"
  BY <1>1
 <2> QED BY <2>1 DEF Succeeded
<1>6. Potential' \subseteq Potential
 <2>1. ASSUME NEW d \in Cases, NEW l \in Rows,
              rf'[d][l].status \in ReservedRefund, rf'[d][l].seen # "CLOSED"
       PROVE  rf[d][l].status \in ReservedRefund /\ rf[d][l].seen # "CLOSED"
  <3>1. CASE <<d, l>> = <<c, k>>
   <4>1. rf[c][k].seen # "CLOSED" /\ rf[c][k].status # "failed" BY <1>1, <2>1, <3>1 DEF MoneyInv, RowAgrees
   <4>2. rf[c][k].status \notin {"none", "succeeded"} BY <1>1, <2>1, <3>1 DEF ReservedRefund, ActiveRefund
   <4> QED BY <1>0, <3>1, <4>1, <4>2 DEF RefundRow, RefundStatus
  <3>2. CASE <<d, l>> # <<c, k>>
   BY <1>1, <2>1, <3>2
  <3> QED BY <3>1, <3>2
 <2> QED BY <2>1 DEF Potential
<1>7. Ledger' BY <1>5, <1>6, LedgerKept
<1>8. ASSUME NEW d \in Cases PROVE Replaced(d)'
 <2>1. Replaced(d) /\ 1 \in Rows /\ 2 \in Rows BY DEF MoneyInv, Rows
 <2> QED BY <1>1, <2>1 DEF Replaced
<1>9. MoneyHasReason'
 <2> SUFFICES ASSUME NEW d \in Cases
              PROVE  /\ (\E l \in Rows : rf'[d][l].status # "none") <=>
                           sale'[d].status \in {"refund_processing", "completed"}
                     /\ sale'[d].status \in {"refund_processing", "completed"} /\ sale'[d].res = "return_and_refund" =>
                           sale'[d].receipt
                     /\ sale'[d].status = "completed" <=> LatestRefund(d)' = "succeeded"
  BY DEF MoneyHasReason
 <2>1. \A l \in Rows : rf'[d][l].status # "none" <=> rf[d][l].status # "none" BY <1>1
 <2>2. \A l \in Rows : rf'[d][l].status = "succeeded" <=> rf[d][l].status = "succeeded" BY <1>1
 <2>3. LatestRefund(d)' = "succeeded" <=> LatestRefund(d) = "succeeded" BY <2>1, <2>2 DEF LatestRefund, Rows
 <2> QED BY <2>1, <2>3 DEF MoneyInv, MoneyHasReason
<1> QED BY <1>2, <1>3, <1>4, <1>7, <1>8, <1>9 DEF MoneyInv

\* What the provider said stays said.
ProvStays == \A c \in Cases, k \in Rows : prov[c][k] \subseteq prov'[c][k]

\* A step that touches neither rows nor amounts; the provider speaks of rows that exist.
LEMMA RowsSame ==
    ASSUME MoneyInv, UNCHANGED <<paid, refunded, rf, sale>>,
           prov' \in [Cases -> [Rows -> SUBSET Answers]], inflight' \subseteq Cases \X Rows, ProvStays,
           \A c \in Cases, k \in Rows :
              /\ rf[c][k].status = "none" => prov'[c][k] = prov[c][k] /\ <<c, k>> \notin inflight'
              /\ ~("SUCCESS" \in prov'[c][k] /\ "CLOSED" \in prov'[c][k])
    PROVE  MoneyInv' /\ RowsStay
<1>1. MoneyTypes' BY DEF MoneyInv, MoneyTypes
<1>2. Ledger' BY LedgerKept DEF Succeeded, Potential
<1>3. MoneyHasReason' BY DEF MoneyInv, MoneyHasReason, LatestRefund
<1>4. ASSUME NEW c \in Cases, NEW k \in Rows PROVE RowAgrees(c, k)'
 <2>1. RowAgrees(c, k) BY DEF MoneyInv
 <2> QED BY <2>1 DEF RowAgrees, ProvStays
<1>5. ASSUME NEW c \in Cases PROVE Replaced(c)' BY DEF MoneyInv, Replaced
<1> QED BY <1>1, <1>2, <1>3, <1>4, <1>5 DEF MoneyInv, RowsStay

\* Nothing about money moves.
LEMMA MoneyKept ==
    ASSUME MoneyInv, UNCHANGED <<paid, refunded, rf, sale, prov, inflight>>
    PROVE  MoneyInv' /\ RowsStay /\ ProvStays
<1>1. /\ prov' \in [Cases -> [Rows -> SUBSET Answers]] /\ inflight' \subseteq Cases \X Rows /\ ProvStays
 BY DEF MoneyInv, MoneyTypes, ProvStays
<1>2. \A c \in Cases, k \in Rows :
         /\ rf[c][k].status = "none" => prov'[c][k] = prov[c][k] /\ <<c, k>> \notin inflight'
         /\ ~("SUCCESS" \in prov'[c][k] /\ "CLOSED" \in prov'[c][k])
 BY DEF MoneyInv, RowAgrees
<1> QED BY <1>1, <1>2, RowsSame

\* What the provider says of one refund number leaves the others alone.
LEMMA ProvFacts ==
    ASSUME MoneyTypes, NEW c \in Cases, NEW k \in Rows, NEW says \in Answers, SetProvider(c, k, says)
    PROVE  /\ prov' \in [Cases -> [Rows -> SUBSET Answers]] /\ prov'[c][k] = prov[c][k] \cup {says}
           /\ \A d \in Cases, l \in Rows : <<d, l>> # <<c, k>> => prov'[d][l] = prov[d][l]
<1>0. prov \in [Cases -> [Rows -> SUBSET Answers]] BY DEF MoneyTypes
<1>1. PICK s \in SUBSET Answers : s = prov[c][k] \cup {says} BY <1>0
<1>2. PICK line \in [Rows -> SUBSET Answers] : line = [prov[c] EXCEPT ![k] = s] BY <1>0
<1>3. line[k] = s /\ \A l \in Rows : l # k => line[l] = prov[c][l] BY <1>0, <1>2
<1>4. prov' = [prov EXCEPT ![c] = line] BY <1>0, <1>1, <1>2 DEF SetProvider
<1>5. prov' \in [Cases -> [Rows -> SUBSET Answers]] /\ prov'[c] = line /\ \A d \in Cases : d # c => prov'[d] = prov[d]
 BY <1>0, <1>4
<1> QED BY <1>1, <1>3, <1>5

\* The provider says something about a row that exists.
LEMMA ProviderSays ==
    ASSUME MoneyInv, NEW c \in Cases, NEW k \in Rows, NEW says \in Answers,
           prov' \in [Cases -> [Rows -> SUBSET Answers]], prov'[c][k] = prov[c][k] \cup {says},
           \A d \in Cases, l \in Rows : <<d, l>> # <<c, k>> => prov'[d][l] = prov[d][l],
           rf[c][k].status # "none",
           says = "SUCCESS" => "CLOSED" \notin prov[c][k],
           says = "CLOSED" => "SUCCESS" \notin prov[c][k],
           inflight' \subseteq inflight, UNCHANGED <<paid, refunded, rf, sale>>
    PROVE  MoneyInv' /\ RowsStay /\ ProvStays
<1>1. ProvStays BY DEF ProvStays
<1>2. ASSUME NEW d \in Cases, NEW l \in Rows
      PROVE  /\ rf[d][l].status = "none" => prov'[d][l] = prov[d][l] /\ <<d, l>> \notin inflight'
             /\ ~("SUCCESS" \in prov'[d][l] /\ "CLOSED" \in prov'[d][l])
 <2>1. RowAgrees(d, l) BY DEF MoneyInv
 <2> QED BY <2>1 DEF RowAgrees
<1>3. inflight' \subseteq Cases \X Rows BY DEF MoneyInv, MoneyTypes
<1> QED BY <1>1, <1>2, <1>3, RowsSame

\* A step in which the provider says something, and no more.
LEMMA SetProviderMoney ==
    ASSUME MoneyInv, NEW c \in Cases, NEW k \in Rows, NEW says \in Answers,
           SetProvider(c, k, says), rf[c][k].status # "none",
           says = "SUCCESS" => "CLOSED" \notin prov[c][k],
           says = "CLOSED" => "SUCCESS" \notin prov[c][k],
           inflight' \subseteq inflight, UNCHANGED <<paid, refunded, rf, sale>>
    PROVE  MoneyInv' /\ RowsStay /\ ProvStays /\ prov'[c][k] = prov[c][k] \cup {says}
<1>1. MoneyTypes BY DEF MoneyInv
<1>2. /\ prov' \in [Cases -> [Rows -> SUBSET Answers]] /\ prov'[c][k] = prov[c][k] \cup {says}
      /\ \A d \in Cases, l \in Rows : <<d, l>> # <<c, k>> => prov'[d][l] = prov[d][l]
 BY <1>1, ProvFacts
<1> QED BY <1>2, ProviderSays

\* A case without rows in T can change its amount.
LEMMA AmountsAgree ==
    ASSUME MoneyTypes, sale' \in [Cases -> SaleRow], NEW c \in Cases,
           \A d \in Cases : d # c => sale'[d] = sale[d],
           NEW T \in SUBSET (Cases \X Rows), \A x \in T : x[1] # c
    PROVE  SumFunctionOnSet(RefundAmounts', T) = SumFunctionOnSet(RefundAmounts, T)
<1>1. IsFiniteSet(T) BY RowsFinite, FS_Subset
<1>2. ASSUME NEW x \in T PROVE RefundAmounts'[x] = RefundAmounts[x]
 <2>1. x \in Cases \X Rows /\ x[1] \in Cases OBVIOUS
 <2> QED BY <2>1 DEF RefundAmounts
<1> QED BY <1>1, <1>2, SumSame

\* The row createRefundTask inserts.
LEMMA NewRefundRow ==
    /\ NewRefund \in RefundRow /\ NewRefund.status = "creating" /\ NewRefund.seen = "none" /\ NewRefund.fresh = {}
<1>1. NewRefund = [status |-> "creating", seen |-> "none", why |-> "none", fresh |-> {}, lease |-> "free"]
 BY DEF NewRefund, NoRow
<1>2. PICK e \in SUBSET (Refunders \cup {"desk"}) : e = {} OBVIOUS
<1>3. NewRefund = [status |-> "creating", seen |-> "none", why |-> "none", fresh |-> e, lease |-> "free"]
 BY <1>1, <1>2
<1>4. "creating" \in RefundStatus /\ "none" \in Whys
 BY DEF RefundStatus, ReservedRefund, ActiveRefund, Whys, Results
<1>5. NewRefund \in RefundRow BY <1>3, <1>4 DEF RefundRow
<1> QED BY <1>1, <1>5

LEMMA NewRowFacts ==
    ASSUME MoneyTypes, NEW c \in Cases, NEW k \in Rows, rf' = [rf EXCEPT ![c][k] = NewRefund]
    PROVE  /\ rf' \in [Cases -> [Rows -> RefundRow]] /\ rf'[c][k] = NewRefund
           /\ \A d \in Cases, l \in Rows : <<d, l>> # <<c, k>> => rf'[d][l] = rf[d][l]
<1>1. NewRefund \in RefundRow BY NewRefundRow
<1> QED BY <1>1, RowFacts, ZenonT(60)

\* A new row, for which there is money.
LEMMA NewRow ==
    ASSUME MoneyInv, NEW c \in Cases, NEW k \in Rows, rf[c][k].status = "none",
           k = 2 => rf[c][1].seen = "CLOSED",
           rf' = [rf EXCEPT ![c][k] = NewRefund], UNCHANGED <<paid, refunded, prov, inflight>>,
           sale' \in [Cases -> SaleRow], \A d \in Cases : d # c => sale'[d] = sale[d],
           k = 2 => sale' = sale,
           sale'[c].status = "refund_processing",
           sale'[c].res = "return_and_refund" => sale'[c].receipt,
           refunded + SumFunctionOnSet(RefundAmounts, Potential) + sale'[c].amount <= paid
    PROVE  MoneyInv' /\ RowsStay /\ ProvStays
<1> DEFINE x == <<c, k>>
<1>0. /\ MoneyTypes /\ Ledger /\ x \in Cases \X Rows /\ 1 \in Rows /\ 2 \in Rows
      /\ sale \in [Cases -> SaleRow] /\ paid \in Nat /\ refunded \in Nat
 BY DEF MoneyInv, MoneyTypes, Rows
<1>a. \A l \in Rows : RowAgrees(c, l)
 BY DEF MoneyInv
<1>b. NewRefund \in RefundRow /\ NewRefund.status = "creating" /\ NewRefund.seen = "none" /\ NewRefund.fresh = {}
 BY NewRefundRow
<1>1. /\ rf' \in [Cases -> [Rows -> RefundRow]] /\ rf'[c][k] = NewRefund
      /\ \A d \in Cases, l \in Rows : <<d, l>> # <<c, k>> => rf'[d][l] = rf[d][l]
 <2>1. MoneyTypes BY <1>0
 <2> QED BY <2>1, NewRowFacts, ZenonT(60)
<1>2. MoneyTypes' BY <1>0, <1>1 DEF MoneyTypes
<1>3. RowsStay /\ ProvStays BY <1>1 DEF RowsStay, ProvStays
<1>4. \A l \in Rows : rf[c][l].status # "succeeded" /\ (rf[c][l].status \in ReservedRefund => rf[c][l].seen = "CLOSED")
 <2>1. CASE k = 2
  BY <1>0, <1>a, <2>1 DEF RowAgrees, Rows, ReservedRefund, ActiveRefund
 <2>2. CASE k = 1
  <3>1. rf[c][2].status = "none" BY <1>0, <1>a, <2>2 DEF MoneyInv, Replaced, RowAgrees
  <3> QED BY <2>2, <3>1 DEF Rows, ReservedRefund, ActiveRefund
 <2> QED BY <2>1, <2>2 DEF Rows
<1>5. /\ Succeeded \in SUBSET (Cases \X Rows) /\ Potential \in SUBSET (Cases \X Rows)
      /\ \A y \in Succeeded : y[1] # c
      /\ \A y \in Potential : y[1] # c
 BY <1>4 DEF Succeeded, Potential
<1>6. Succeeded' = Succeeded
 <2>1. ASSUME NEW d \in Cases, NEW l \in Rows
       PROVE  rf'[d][l].status = "succeeded" <=> rf[d][l].status = "succeeded"
  BY <1>1, <1>b
 <2> QED BY <2>1 DEF Succeeded
<1>7. Potential' = Potential \cup {x} /\ x \notin Potential
 <2>1. ASSUME NEW d \in Cases, NEW l \in Rows, <<d, l>> # x
       PROVE  rf'[d][l] = rf[d][l]
  BY <1>1, <2>1
 <2>2. rf'[c][k].status \in ReservedRefund /\ rf'[c][k].seen # "CLOSED" /\ rf[c][k].status \notin ReservedRefund
  BY <1>1, <1>b DEF ReservedRefund, ActiveRefund
 <2> QED BY <2>1, <2>2 DEF Potential
<1>8. Ledger'
 <2> HIDE DEF x
 <2>1. SumFunctionOnSet(RefundAmounts', Succeeded) = SumFunctionOnSet(RefundAmounts, Succeeded)
  BY <1>0, <1>5, AmountsAgree
 <2>2. SumFunctionOnSet(RefundAmounts', Potential) = SumFunctionOnSet(RefundAmounts, Potential)
  BY <1>0, <1>5, AmountsAgree
 <2>3. PICK n \in Nat : n = SumFunctionOnSet(RefundAmounts, Potential) BY <1>0, <1>5, AmountSums
 <2>4. PICK m \in Nat : m = sale'[c].amount BY DEF SaleRow
 <2>5. IsFiniteSet(Potential) BY <1>5, RowsFinite, FS_Subset
 <2>6. RefundAmounts'[x] = m BY <1>0, <2>4 DEF RefundAmounts, x
 <2>7. \A y \in Potential \cup {x} : RefundAmounts'[y] \in Int
  <3>1. ASSUME NEW y \in Cases \X Rows PROVE RefundAmounts'[y] \in Int
   <4>1. y[1] \in Cases OBVIOUS
   <4> QED BY <4>1 DEF RefundAmounts, SaleRow
  <3> QED BY <1>0, <1>5, <3>1
 <2>8. SumFunctionOnSet(RefundAmounts', Potential \cup {x}) = RefundAmounts'[x] + SumFunctionOnSet(RefundAmounts', Potential)
  BY <1>7, <2>5, <2>7, SumAdd
 <2>9. SumFunctionOnSet(RefundAmounts', Potential') = m + n BY <1>7, <2>2, <2>3, <2>6, <2>8
 <2>10. refunded + (m + n) <= paid BY <1>0, <2>3, <2>4
 <2> QED BY <1>0, <1>6, <2>1, <2>9, <2>10 DEF Ledger
<1>9. ASSUME NEW d \in Cases, NEW l \in Rows PROVE RowAgrees(d, l)'
 <2>1. RowAgrees(d, l) BY DEF MoneyInv
 <2>2. CASE <<d, l>> = <<c, k>>
  BY <1>1, <1>b, <2>1, <2>2 DEF RowAgrees
 <2>3. CASE <<d, l>> # <<c, k>>
  BY <1>1, <2>1, <2>3 DEF RowAgrees
 <2> QED BY <2>2, <2>3
<1>10. ASSUME NEW d \in Cases PROVE Replaced(d)'
 <2>1. Replaced(d) BY DEF MoneyInv
 <2>2. CASE d # c
  BY <1>0, <1>1, <2>1, <2>2 DEF Replaced
 <2>3. CASE d = c /\ k = 2
  BY <1>0, <1>1, <2>3 DEF Replaced
 <2>4. CASE d = c /\ k = 1
  <3>1. rf[c][2].status = "none" BY <1>0, <1>a, <2>1, <2>4 DEF Replaced, RowAgrees
  <3> QED BY <1>0, <1>1, <2>4, <3>1 DEF Replaced
 <2> QED BY <2>2, <2>3, <2>4 DEF Rows
<1>11. MoneyHasReason'
 <2> SUFFICES ASSUME NEW d \in Cases
              PROVE  /\ (\E l \in Rows : rf'[d][l].status # "none") <=>
                           sale'[d].status \in {"refund_processing", "completed"}
                     /\ sale'[d].status \in {"refund_processing", "completed"} /\ sale'[d].res = "return_and_refund" =>
                           sale'[d].receipt
                     /\ sale'[d].status = "completed" <=> LatestRefund(d)' = "succeeded"
  BY DEF MoneyHasReason
 <2>1. CASE d # c
  <3>1. \A l \in Rows : rf'[d][l] = rf[d][l] BY <1>1, <2>1
  <3>2. LatestRefund(d)' = LatestRefund(d) BY <1>0, <3>1 DEF LatestRefund
  <3> QED BY <2>1, <3>1, <3>2 DEF MoneyInv, MoneyHasReason
 <2>2. CASE d = c
  <3>1. rf'[c][k].status # "none" /\ \A l \in Rows : rf'[c][l].status # "succeeded" BY <1>1, <1>4, <1>b
  <3>2. LatestRefund(c)' # "succeeded" BY <1>0, <3>1 DEF LatestRefund
  <3> QED BY <2>2, <3>1, <3>2
 <2> QED BY <2>1, <2>2
<1> QED BY <1>2, <1>3, <1>8, <1>9, <1>10, <1>11 DEF MoneyInv

\* What a case has asked for counts as long as the provider may pay it.
LEMMA PotentialReserved ==
    ASSUME MoneyInv, NEW except, \A x \in except : x \notin Potential
    PROVE  /\ SumFunctionOnSet(RefundAmounts, Potential) \in Nat /\ Reserved(except) \in Nat
           /\ SumFunctionOnSet(RefundAmounts, Potential) <= Reserved(except)
<1> DEFINE T == {x \in (Cases \X Rows) \ except : rf[x[1]][x[2]].status \in ReservedRefund}
<1>1. Potential \in SUBSET T /\ T \in SUBSET (Cases \X Rows) /\ Potential \in SUBSET (Cases \X Rows)
 BY DEF Potential
<1>2. Reserved(except) = SumFunctionOnSet(RefundAmounts, T) BY DEF Reserved
<1>3. sale \in [Cases -> SaleRow] BY DEF MoneyInv, MoneyTypes
<1> HIDE DEF T
<1> QED BY <1>1, <1>2, <1>3, AmountSums

\* A case without rows changes, and still gets none.
LEMMA SaleWritten ==
    ASSUME MoneyInv, NEW c \in Cases, UNCHANGED <<paid, refunded, rf, prov, inflight>>,
           sale' \in [Cases -> SaleRow], \A d \in Cases : d # c => sale'[d] = sale[d],
           sale[c].status \notin {"refund_processing", "completed"},
           sale'[c].status \notin {"refund_processing", "completed"}
    PROVE  MoneyInv' /\ RowsStay /\ ProvStays
<1>0. MoneyTypes /\ Ledger /\ paid \in Nat /\ refunded \in Nat /\ 1 \in Rows /\ 2 \in Rows
 BY DEF MoneyInv, MoneyTypes, Rows
<1>1. MoneyTypes' BY <1>0 DEF MoneyTypes
<1>2. \A l \in Rows : rf[c][l].status = "none" BY DEF MoneyInv, MoneyHasReason
<1>3. /\ Succeeded \in SUBSET (Cases \X Rows) /\ Potential \in SUBSET (Cases \X Rows)
      /\ \A y \in Succeeded : y[1] # c
      /\ \A y \in Potential : y[1] # c
 BY <1>2 DEF Succeeded, Potential, ReservedRefund, ActiveRefund
<1>4. Succeeded' = Succeeded /\ Potential' = Potential BY DEF Succeeded, Potential
<1>5. Ledger'
 <2>1. SumFunctionOnSet(RefundAmounts', Succeeded) = SumFunctionOnSet(RefundAmounts, Succeeded)
  BY <1>0, <1>3, AmountsAgree
 <2>2. SumFunctionOnSet(RefundAmounts', Potential) = SumFunctionOnSet(RefundAmounts, Potential)
  BY <1>0, <1>3, AmountsAgree
 <2> QED BY <1>0, <1>4, <2>1, <2>2 DEF Ledger
<1>6. ASSUME NEW d \in Cases PROVE Replaced(d)' /\ \A l \in Rows : RowAgrees(d, l)'
 BY DEF MoneyInv, Replaced, RowAgrees
<1>7. MoneyHasReason'
 <2> SUFFICES ASSUME NEW d \in Cases
              PROVE  /\ (\E l \in Rows : rf'[d][l].status # "none") <=>
                           sale'[d].status \in {"refund_processing", "completed"}
                     /\ sale'[d].status \in {"refund_processing", "completed"} /\ sale'[d].res = "return_and_refund" =>
                           sale'[d].receipt
                     /\ sale'[d].status = "completed" <=> LatestRefund(d)' = "succeeded"
  BY DEF MoneyHasReason
 <2>1. LatestRefund(d)' = LatestRefund(d) BY DEF LatestRefund
 <2>2. CASE d # c
  BY <2>1, <2>2 DEF MoneyInv, MoneyHasReason
 <2>3. CASE d = c
  <3>1. LatestRefund(c) = "none" BY <1>0, <1>2 DEF LatestRefund
  <3> QED BY <1>2, <2>1, <2>3, <3>1
 <2> QED BY <2>2, <2>3
<1>8. RowsStay /\ ProvStays BY DEF RowsStay, ProvStays
<1> QED BY <1>1, <1>5, <1>6, <1>7, <1>8 DEF MoneyInv

\* A case whose latest refund succeeded was paid its amount.
LEMMA PaidBack ==
    ASSUME MoneyInv, NEW c \in Cases, LatestRefund(c) = "succeeded", sale[c].amount = paid
    PROVE  refunded = paid
<1>1. PICK k \in Rows : rf[c][k].status = "succeeded" BY DEF LatestRefund, Rows
<1>2. /\ sale \in [Cases -> SaleRow] /\ paid \in Nat /\ refunded \in Nat /\ Ledger
      /\ Succeeded \in SUBSET (Cases \X Rows) /\ Potential \in SUBSET (Cases \X Rows)
 BY DEF MoneyInv, MoneyTypes, Succeeded, Potential
<1>3. PICK x \in Cases \X Rows : x = <<c, k>> OBVIOUS
<1>4. x \in Succeeded /\ x[1] = c BY <1>1, <1>3 DEF Succeeded
<1>5. RefundAmounts[x] = paid BY <1>3, <1>4 DEF RefundAmounts
<1>6. PICK n \in Nat : n = SumFunctionOnSet(RefundAmounts, Potential) BY <1>2, AmountSums
<1>7. PICK T \in SUBSET (Cases \X Rows) : T = Succeeded \ {x} BY <1>2
<1>8. PICK m \in Nat : m = SumFunctionOnSet(RefundAmounts, T) BY <1>2, AmountSums
<1>9. SumFunctionOnSet(RefundAmounts, Succeeded) = RefundAmounts[x] + SumFunctionOnSet(RefundAmounts, Succeeded \ {x})
 BY <1>2, <1>4, AmountSums
<1>10. refunded = paid + m /\ refunded + n <= paid BY <1>2, <1>5, <1>6, <1>7, <1>8, <1>9 DEF Ledger
<1> QED BY <1>2, <1>10

\* A row as Repository.Update leaves it.
LEMMA PutRow ==
    ASSUME NEW old, NEW s \in RefundStatus, NEW answer \in Answers \cup {"none"}, NEW reason \in Whys
    PROVE  /\ Put(old, s, answer, reason) \in RefundRow
           /\ Put(old, s, answer, reason).status = s /\ Put(old, s, answer, reason).seen = answer
           /\ Put(old, s, answer, reason).fresh = {}
<1>1. PICK e \in SUBSET (Refunders \cup {"desk"}) : e = {} OBVIOUS
<1>2. Put(old, s, answer, reason) = [status |-> s, seen |-> answer, why |-> reason, fresh |-> e, lease |-> "free"]
 BY <1>1 DEF Put
<1>3. Put(old, s, answer, reason) \in RefundRow BY <1>2 DEF RefundRow
<1> QED BY <1>1, <1>2, <1>3

\* A refund succeeds: what the provider may pay becomes what it paid.
LEMMA RefundSucceedsMoney ==
    ASSUME MoneyInv, NEW c \in Cases, NEW k \in Rows, rf[c][k].status # "none", ~TerminalRow(rf[c][k]),
           "SUCCESS" \in prov[c][k], RefundSucceeds(c, k), UNCHANGED <<paid, prov, inflight>>
    PROVE  /\ MoneyInv' /\ RowsStay /\ ProvStays
           /\ refunded' \in Nat /\ refunded' = refunded + sale[c].amount /\ refunded' <= paid
           /\ \A d \in Cases : sale'[d].amount = sale[d].amount
           /\ \A d \in Cases : sale'[d].status = IF d = c THEN "completed" ELSE sale[d].status
<1>0. /\ MoneyTypes /\ Ledger /\ sale \in [Cases -> SaleRow] /\ sale[c] \in SaleRow
      /\ paid \in Nat /\ refunded \in Nat /\ rf[c][k] \in RefundRow /\ 1 \in Rows /\ 2 \in Rows
 BY DEF MoneyInv, MoneyTypes, Rows
<1>a. RowAgrees(c, k)
 BY DEF MoneyInv
<1>b. PICK row \in RefundRow : /\ row = Put(rf[c][k], "succeeded", "SUCCESS", "none")
                               /\ row.status = "succeeded" /\ row.seen = "SUCCESS" /\ row.fresh = {}
 <2>1. "succeeded" \in RefundStatus /\ "SUCCESS" \in Answers \cup {"none"} /\ "none" \in Whys
  BY DEF RefundStatus, Answers, Whys, Results
 <2> QED BY <2>1, PutRow
<1>c. rf[c][k].status \in ReservedRefund /\ rf[c][k].seen # "CLOSED"
 BY <1>0 DEF TerminalRow, RefundRow, RefundStatus
<1>1. /\ rf' \in [Cases -> [Rows -> RefundRow]] /\ rf'[c][k] = row
      /\ \A d \in Cases, l \in Rows : <<d, l>> # <<c, k>> => rf'[d][l] = rf[d][l]
 <2>1. MoneyTypes BY <1>0
 <2>2. rf' = [rf EXCEPT ![c][k] = row] BY <1>b DEF RefundSucceeds, SetRow
 <2> QED BY <2>1, <2>2, RowFacts, ZenonT(60)
<1>2. PICK case : case = [sale[c] EXCEPT !.status = "completed"] OBVIOUS
<1>3. /\ case \in SaleRow /\ case.status = "completed" /\ case.amount = sale[c].amount
      /\ case.res = sale[c].res /\ case.receipt = sale[c].receipt
 BY <1>0, <1>2 DEF SaleRow, SaleStatus
<1>4. sale' = [sale EXCEPT ![c] = case] BY <1>0, <1>2 DEF RefundSucceeds
<1>5. sale' \in [Cases -> SaleRow] /\ sale'[c] = case /\ \A d \in Cases : d # c => sale'[d] = sale[d]
 BY <1>0, <1>3, <1>4
<1>6. \A d \in Cases : sale'[d].amount = sale[d].amount BY <1>3, <1>5
<1>7. RefundAmounts' = RefundAmounts
 <2>1. \A x \in Cases \X Rows : sale'[x[1]].amount = sale[x[1]].amount BY <1>6
 <2> QED BY <2>1 DEF RefundAmounts
<1>8. PICK x \in Cases \X Rows : x = <<c, k>> OBVIOUS
<1>9. Succeeded' = Succeeded \cup {x} /\ x \notin Succeeded
 <2>1. ASSUME NEW d \in Cases, NEW l \in Rows, <<d, l>> # x
       PROVE  rf'[d][l] = rf[d][l]
  BY <1>1, <1>8, <2>1
 <2>2. rf'[c][k].status = "succeeded" /\ rf[c][k].status # "succeeded" BY <1>1, <1>b DEF TerminalRow
 <2> QED BY <1>8, <2>1, <2>2 DEF Succeeded
<1>10. Potential' = Potential \ {x} /\ x \in Potential
 <2>1. ASSUME NEW d \in Cases, NEW l \in Rows, <<d, l>> # x
       PROVE  rf'[d][l] = rf[d][l]
  BY <1>1, <1>8, <2>1
 <2>2. rf'[c][k].status \notin ReservedRefund BY <1>1, <1>b DEF ReservedRefund, ActiveRefund
 <2> QED BY <1>8, <1>c, <2>1, <2>2 DEF Potential
<1>11. Succeeded \in SUBSET (Cases \X Rows) /\ Potential \in SUBSET (Cases \X Rows)
 BY DEF Succeeded, Potential
<1>12. Ledger' /\ refunded' \in Nat /\ refunded' = refunded + sale[c].amount /\ refunded' <= paid
 <2>1. PICK a \in Nat : a = sale[c].amount BY <1>0 DEF SaleRow
 <2>2. RefundAmounts[x] = a BY <1>8, <2>1 DEF RefundAmounts
 <2>3. PICK T \in SUBSET (Cases \X Rows) : T = Potential \ {x} BY <1>11
 <2>4. PICK n \in Nat : n = SumFunctionOnSet(RefundAmounts, T) BY <1>0, AmountSums
 <2>5. SumFunctionOnSet(RefundAmounts, Potential) = a + n BY <1>0, <1>10, <1>11, <2>2, <2>3, <2>4, AmountSums
 <2>6. SumFunctionOnSet(RefundAmounts, Succeeded \cup {x}) = RefundAmounts[x] + SumFunctionOnSet(RefundAmounts, Succeeded)
  BY <1>0, <1>9, <1>11, AmountSums
 <2>7. SumFunctionOnSet(RefundAmounts', Succeeded') = a + refunded BY <1>0, <1>7, <1>9, <2>2, <2>6 DEF Ledger
 <2>8. SumFunctionOnSet(RefundAmounts', Potential') = n BY <1>7, <1>10, <2>3, <2>4
 <2>9. refunded + (a + n) <= paid BY <1>0, <2>5 DEF Ledger
 <2>10. refunded' = refunded + a BY <2>1 DEF RefundSucceeds
 <2>11. refunded' \in Nat /\ refunded' = a + refunded /\ refunded' + n <= paid /\ refunded' <= paid
  BY <1>0, <2>9, <2>10
 <2> QED BY <2>1, <2>7, <2>8, <2>10, <2>11 DEF Ledger
<1>13. MoneyTypes' BY <1>0, <1>1, <1>5, <1>12 DEF MoneyTypes
<1>14. ASSUME NEW d \in Cases, NEW l \in Rows PROVE RowAgrees(d, l)'
 <2>1. RowAgrees(d, l) BY DEF MoneyInv
 <2>2. CASE <<d, l>> = <<c, k>>
  BY <1>1, <1>b, <2>1, <2>2 DEF RowAgrees
 <2>3. CASE <<d, l>> # <<c, k>>
  BY <1>1, <2>1, <2>3 DEF RowAgrees
 <2> QED BY <2>2, <2>3
<1>15. k = 1 => rf[c][2].status = "none" BY <1>c DEF MoneyInv, Replaced
<1>16. ASSUME NEW d \in Cases PROVE Replaced(d)'
 <2>1. Replaced(d) BY DEF MoneyInv
 <2> QED BY <1>0, <1>1, <1>15, <2>1 DEF Replaced, Rows
<1>17. MoneyHasReason'
 <2> SUFFICES ASSUME NEW d \in Cases
              PROVE  /\ (\E l \in Rows : rf'[d][l].status # "none") <=>
                           sale'[d].status \in {"refund_processing", "completed"}
                     /\ sale'[d].status \in {"refund_processing", "completed"} /\ sale'[d].res = "return_and_refund" =>
                           sale'[d].receipt
                     /\ sale'[d].status = "completed" <=> LatestRefund(d)' = "succeeded"
  BY DEF MoneyHasReason
 <2>1. CASE d # c
  <3>1. \A l \in Rows : rf'[d][l] = rf[d][l] BY <1>1, <2>1
  <3>2. LatestRefund(d)' = LatestRefund(d) BY <1>0, <3>1 DEF LatestRefund
  <3> QED BY <1>5, <2>1, <3>1, <3>2 DEF MoneyInv, MoneyHasReason
 <2>2. CASE d = c
  <3>1. LatestRefund(c)' = "succeeded" BY <1>0, <1>1, <1>15, <1>b DEF LatestRefund, Rows
  <3>2. rf'[c][k].status # "none" BY <1>1, <1>b
  <3>3. sale[c].res = "return_and_refund" => sale[c].receipt BY DEF MoneyInv, MoneyHasReason
  <3> QED BY <1>3, <1>5, <2>2, <3>1, <3>2, <3>3
 <2> QED BY <2>1, <2>2
<1>18. RowsStay /\ ProvStays BY <1>1, <1>b DEF RowsStay, ProvStays
<1>19. \A d \in Cases : sale'[d].status = IF d = c THEN "completed" ELSE sale[d].status BY <1>3, <1>5
<1> QED BY <1>6, <1>12, <1>13, <1>14, <1>16, <1>17, <1>18, <1>19 DEF MoneyInv

\* Order and codes after a refund.
LEMMA CodesVoid ==
    ASSUME DeliveryOK, CodeUnused, UNCHANGED <<dlv, vmode, carrier>>,
           code' = code \/ code' = Invalidate(code),
           order' = order \/ \E s \in OrderStatus : order' = [order EXCEPT !.status = s]
    PROVE  DeliveryOK' /\ CodeUnused' /\ order'.delivery = order.delivery
<1>1. code \in CodeRows /\ "delivery" \in Stages /\ Stages \in SUBSET Stages BY DEF DeliveryOK, Stages
<1>2. code' \in CodeRows /\ \A s \in Stages : code'[s].status = "verified" => code[s].status = "verified"
 BY <1>1, InvalidateFacts DEF Invalidate
<1>3. code' \in [Stages -> [status : CodeStatus, tries : 0..MaxTries]] BY <1>2 DEF CodeRows, CodeRow
<1>4. /\ order' \in [kind : {"retail", "redemption"}, status : OrderStatus, delivery : DeliveryStatus]
      /\ order'.delivery = order.delivery
 BY DEF DeliveryOK, DeliveryTypeOK
<1>5. DeliveryOK' BY <1>2, <1>3, <1>4 DEF DeliveryOK, DeliveryTypeOK
<1>6. CodeUnused' BY <1>2 DEF CodeUnused, Stages
<1> QED BY <1>4, <1>5, <1>6

\* A return that is tried to be closed.
LEMMA TryCloseFacts ==
    ASSUME NEW r \in ReturnRow, NEW money
    PROVE  /\ TryClose(r, money) \in ReturnRow
           /\ TryClose(r, money).case = r.case /\ TryClose(r, money).receipt = r.receipt
           /\ \/ TryClose(r, money).status = r.status
              \/ TryClose(r, money).status = "closed" /\ r.receipt /\ money
<1>1. /\ [r EXCEPT !.status = "closed"] \in ReturnRow
      /\ [r EXCEPT !.status = "closed"].case = r.case /\ [r EXCEPT !.status = "closed"].receipt = r.receipt
      /\ [r EXCEPT !.status = "closed"].status = "closed"
 BY DEF ReturnRow, ReturnStatus
<1> QED BY <1>1 DEF TryClose

\* What the end of a refund does to the return.
LEMMA ReconcileFacts ==
    ASSUME NEW r \in ReturnRow, NEW c, NEW s
    PROVE  LET new == ReconcileRefund(r, c, s) IN
           /\ new \in ReturnRow /\ new.case = r.case /\ new.receipt = r.receipt
           /\ \/ new.status = r.status
              \/ r.case = c /\ new.status = "closed" /\ r.receipt /\ s = "succeeded"
              \/ r.case = c /\ new.status = "exception" /\ r.status \in {"returning", "arrived", "received"}
<1>1. /\ [r EXCEPT !.status = "exception"] \in ReturnRow /\ [r EXCEPT !.status = "exception"].case = r.case
      /\ [r EXCEPT !.status = "exception"].receipt = r.receipt
      /\ [r EXCEPT !.status = "exception"].status = "exception"
 BY DEF ReturnRow, ReturnStatus
<1>2. PICK done : done = TryClose(r, TRUE) OBVIOUS
<1>3. /\ done \in ReturnRow /\ done.case = r.case /\ done.receipt = r.receipt
      /\ done.status = r.status \/ (done.status = "closed" /\ r.receipt)
 BY <1>2, TryCloseFacts
<1>4. CASE r.case # c
 BY <1>4 DEF ReconcileRefund
<1>5. CASE r.case = c /\ s = "succeeded"
 <2>1. ReconcileRefund(r, c, s) = done BY <1>2, <1>5 DEF ReconcileRefund
 <2> QED BY <1>3, <1>5, <2>1
<1>6. CASE r.case = c /\ s # "succeeded"
 BY <1>1, <1>6 DEF ReconcileRefund
<1> QED BY <1>4, <1>5, <1>6

\* The return while delivery and case stay as they are.
LEMMA ReturnMoves ==
    ASSUME MoneyTypes, ReturnInv, ret' \in ReturnRow, ret'.case = ret.case, ret'.receipt = ret.receipt,
           dlv'.status = dlv.status, order'.delivery = order.delivery, paid' = paid,
           refunded = paid => refunded' = paid,
           ret.case # 0 => /\ sale'[ret.case].amount = sale[ret.case].amount
                           /\ sale'[ret.case].status \in {"refund_processing", "completed"},
           \/ ret'.status = ret.status
           \/ /\ ret.case # 0 /\ ret'.status \notin {"none", "requested"}
              /\ ret'.status = "closed" => ret.receipt /\ refunded' = paid
    PROVE  ReturnInv'
<1>1. ReturnIsWhole' BY DEF ReturnInv, ReturnIsWhole
<1>2. /\ ret'.case # 0 => /\ sale'[ret'.case].amount = paid'
                          /\ sale'[ret'.case].status \in {"refund_processing", "completed"}
      /\ ret'.case = 0 => ~ret'.receipt /\ ret'.status \in {"none", "requested", "disputed"}
      /\ ret'.status \in {"none", "requested"} => ret'.case = 0
 BY DEF ReturnInv
<1> QED BY <1>1, <1>2 DEF ReturnInv

\* Nothing about the return moves.
LEMMA ReturnKept ==
    ASSUME BackInv, UNCHANGED <<ret, dlv, paid>>, order'.delivery = order.delivery,
           refunded = paid => refunded' = paid,
           \A c \in Cases : sale[c].status \in {"refund_processing", "completed"} =>
              /\ sale'[c].amount = sale[c].amount /\ sale'[c].status \in {"refund_processing", "completed"}
    PROVE  ReturnInv'
<1>1. MoneyTypes /\ ReturnInv /\ ret \in ReturnRow BY DEF BackInv, MoneyInv, ReturnInv
<1>2. ret.case # 0 => /\ sale'[ret.case].amount = sale[ret.case].amount
                      /\ sale'[ret.case].status \in {"refund_processing", "completed"}
 BY <1>1 DEF ReturnInv, ReturnRow
<1> QED BY <1>1, <1>2, ReturnMoves

\* What an action on refunds keeps, but for the calls.
BackKept == /\ MoneyInv' /\ DeliveryOK' /\ ReturnInv' /\ CodeUnused' /\ RowsStay /\ ProvStays

\* A step that writes rows of refunds and nothing else.
LEMMA RowsOnly ==
    ASSUME BackInv, MoneyInv', RowsStay, ProvStays, UNCHANGED <<dvars, paid, refunded, sale, ret>>
    PROVE  BackKept
<1>1. UNCHANGED <<dlv, vmode, carrier, code, order>> BY DEF dvars
<1>2. DeliveryOK' /\ CodeUnused' /\ order'.delivery = order.delivery BY <1>1, CodesVoid DEF BackInv
<1>3. ReturnInv' BY <1>1, <1>2, ReturnKept
<1> QED BY <1>2, <1>3 DEF BackKept

\* A row is written, and the return told.
LEMMA RefundMarkedKeeps ==
    ASSUME BackInv, NEW c \in Cases, NEW k \in Rows, NEW s \in RefundStatus, NEW answer \in Answers \cup {"none"},
           NEW reason \in Whys, RefundMarked(c, k, s, answer, reason),
           UNCHANGED <<dlv, vmode, carrier, paid, prov, inflight>>,
           rf[c][k].status \notin {"none", "succeeded"}, s \notin {"none", "succeeded"},
           s = "failed" => answer = "CLOSED", rf[c][k].seen = "CLOSED" => answer = "CLOSED",
           answer = "CLOSED" => "CLOSED" \in prov[c][k]
    PROVE  BackKept
<1>0. MoneyInv /\ MoneyTypes /\ ReturnInv /\ ret \in ReturnRow /\ DeliveryOK /\ CodeUnused
 BY DEF BackInv, MoneyInv, ReturnInv
<1>1. PICK row \in RefundRow : /\ row = Put(rf[c][k], s, answer, reason)
                               /\ row.status = s /\ row.seen = answer /\ row.fresh = {}
 BY PutRow
<1>2. rf' = [rf EXCEPT ![c][k] = row] /\ UNCHANGED <<refunded, order, code, sale>>
 BY <1>1 DEF RefundMarked, SetRow
<1>3. MoneyInv' /\ RowsStay
 <2>1. /\ row.status \in {"none", "succeeded"} \/ rf[c][k].status \in {"none", "succeeded"} =>
             row.status = rf[c][k].status
       /\ row.status = "failed" => row.seen = "CLOSED"
       /\ rf[c][k].seen = "CLOSED" => row.seen = "CLOSED"
       /\ row.seen = "CLOSED" => "CLOSED" \in prov[c][k] /\ row.status \notin {"none", "succeeded"}
       /\ row.fresh # {} => row.status \in ReservedRefund
  BY <1>1
 <2> QED BY <1>0, <1>1, <1>2, <2>1, RowWritten
<1>4. ProvStays BY DEF ProvStays
<1>5. DeliveryOK' /\ CodeUnused' /\ order'.delivery = order.delivery BY <1>0, <1>2, CodesVoid
<1>6. ReturnInv'
 <2>1. PICK new : new = ReconcileRefund(ret, c, s) OBVIOUS
 <2>2. /\ new \in ReturnRow /\ new.case = ret.case /\ new.receipt = ret.receipt
       /\ new.status = ret.status \/ (ret.case = c /\ new.status = "exception")
  BY <1>0, <2>1, ReconcileFacts
 <2>3. ret' = new BY <2>1 DEF RefundMarked
 <2>4. ret.case # 0 => /\ sale'[ret.case].amount = sale[ret.case].amount
                       /\ sale'[ret.case].status \in {"refund_processing", "completed"}
  BY <1>0, <1>2 DEF ReturnInv
 <2>5. c # 0 BY RefundAssumption
 <2> QED BY <1>0, <1>2, <1>5, <2>2, <2>3, <2>4, <2>5, ReturnMoves
<1> QED BY <1>3, <1>4, <1>5, <1>6 DEF BackKept

\* A refund succeeds, with everything that follows.
LEMMA RefundSucceedsKeeps ==
    ASSUME BackInv, NEW c \in Cases, NEW k \in Rows, rf[c][k].status # "none", ~TerminalRow(rf[c][k]),
           "SUCCESS" \in prov[c][k], RefundSucceeds(c, k),
           UNCHANGED <<dlv, vmode, carrier, paid, prov, inflight>>
    PROVE  BackKept
<1>0. MoneyInv /\ MoneyTypes /\ ReturnInv /\ ret \in ReturnRow /\ DeliveryOK /\ CodeUnused
 BY DEF BackInv, MoneyInv, ReturnInv
<1>1. /\ MoneyInv' /\ RowsStay /\ ProvStays
      /\ refunded' \in Nat /\ refunded' = refunded + sale[c].amount /\ refunded' <= paid
      /\ \A d \in Cases : sale'[d].amount = sale[d].amount
      /\ \A d \in Cases : sale'[d].status = IF d = c THEN "completed" ELSE sale[d].status
 BY <1>0, RefundSucceedsMoney
<1>2. PICK s \in OrderStatus : s = IF refunded' = paid THEN "refunded" ELSE "refunding" BY DEF OrderStatus
<1>3. DeliveryOK' /\ CodeUnused' /\ order'.delivery = order.delivery
 <2>1. order' = [order EXCEPT !.status = s] /\ (code' = code \/ code' = Invalidate(code))
  BY <1>2 DEF RefundSucceeds
 <2> QED BY <1>0, <2>1, CodesVoid
<1>4. PICK a \in Nat : a = sale[c].amount BY <1>0 DEF MoneyTypes, SaleRow
<1>5. refunded \in Nat /\ paid \in Nat /\ refunded' = refunded + a BY <1>0, <1>1, <1>4 DEF MoneyTypes
<1>6. refunded = paid => refunded' = paid BY <1>1, <1>5
<1>7. a = paid => refunded' = paid BY <1>1, <1>5
<1>8. ReturnInv'
 <2>1. PICK new : new = ReconcileRefund(ret, c, "succeeded") OBVIOUS
 <2>2. /\ new \in ReturnRow /\ new.case = ret.case /\ new.receipt = ret.receipt
       /\ \/ new.status = ret.status
          \/ ret.case = c /\ new.status = "closed" /\ ret.receipt
          \/ ret.case = c /\ new.status = "exception"
  BY <1>0, <2>1, ReconcileFacts
 <2>3. ret' = new BY <2>1 DEF RefundSucceeds
 <2>4. ret.case # 0 => /\ sale'[ret.case].amount = sale[ret.case].amount
                       /\ sale'[ret.case].status \in {"refund_processing", "completed"}
  BY <1>0, <1>1 DEF ReturnInv, ReturnRow
 <2>5. c # 0 BY RefundAssumption
 <2>6. ret.case = c => refunded' = paid BY <1>0, <1>4, <1>7, <2>5 DEF ReturnInv
 <2> QED BY <1>0, <1>3, <1>6, <2>2, <2>3, <2>4, <2>5, <2>6, ReturnMoves
<1> QED BY <1>1, <1>3, <1>8 DEF BackKept

\* applyState, for an answer the provider gave.
LEMMA ApplyStateKeeps ==
    ASSUME BackInv, NEW c \in Cases, NEW k \in Rows, NEW answer \in Answers, answer \in prov[c][k],
           ApplyState(c, k, answer), UNCHANGED <<dlv, vmode, carrier, paid, prov, inflight>>
    PROVE  BackKept
<1>0. MoneyInv /\ RowAgrees(c, k) /\ rf[c][k] \in RefundRow BY DEF BackInv, MoneyInv, MoneyTypes
<1>1. rf[c][k].status # "none" BY <1>0 DEF RowAgrees
<1>2. CASE UNCHANGED <<rf, refunded, order, code, sale, ret>>
 <2>1. MoneyInv' /\ RowsStay /\ ProvStays BY <1>0, <1>2, MoneyKept
 <2>2. UNCHANGED <<dvars, paid, refunded, sale, ret>> BY <1>2 DEF dvars
 <2> QED BY <2>1, <2>2, RowsOnly
<1>3. CASE ~TerminalRow(rf[c][k])
 <2>1. rf[c][k].status \notin {"none", "succeeded"} /\ rf[c][k].seen # "CLOSED" BY <1>1, <1>3 DEF TerminalRow
 <2>2. /\ {"pending", "failed", "exception"} \subseteq RefundStatus /\ Answers \subseteq Answers \cup {"none"}
       /\ Answers \cup {"none"} \subseteq Whys
  BY DEF RefundStatus, ReservedRefund, ActiveRefund, Whys, Results
 <2>3. CASE answer = "SUCCESS" /\ RefundSucceeds(c, k)
  BY <1>1, <1>3, <2>3, RefundSucceedsKeeps
 <2>4. CASE answer = "PROCESSING" /\ RefundMarked(c, k, "pending", answer, "none")
  BY <2>1, <2>2, <2>4, RefundMarkedKeeps
 <2>5. CASE answer = "CLOSED" /\ RefundMarked(c, k, "failed", answer, answer)
  BY <2>1, <2>2, <2>5, RefundMarkedKeeps
 <2>6. CASE answer = "ABNORMAL" /\ RefundMarked(c, k, "exception", answer, answer)
  BY <2>1, <2>2, <2>6, RefundMarkedKeeps
 <2> QED BY <1>2, <1>3, <2>3, <2>4, <2>5, <2>6 DEF ApplyState
<1> QED BY <1>2, <1>3 DEF ApplyState

\* A callback that does not fit.
LEMMA MismatchKeeps ==
    ASSUME BackInv, NEW c \in Cases, NEW k \in Rows, rf[c][k].status # "none", Mismatch(c, k),
           UNCHANGED <<dlv, vmode, carrier, paid, prov, inflight>>
    PROVE  BackKept
<1>0. MoneyInv /\ RowAgrees(c, k) /\ rf[c][k] \in RefundRow BY DEF BackInv, MoneyInv, MoneyTypes
<1>1. CASE UNCHANGED <<rf, refunded, order, code, sale, ret>>
 <2>1. MoneyInv' /\ RowsStay /\ ProvStays BY <1>0, <1>1, MoneyKept
 <2>2. UNCHANGED <<dvars, paid, refunded, sale, ret>> BY <1>1 DEF dvars
 <2> QED BY <2>1, <2>2, RowsOnly
<1>2. CASE ~TerminalRow(rf[c][k]) /\ RefundMarked(c, k, "exception", rf[c][k].seen, "mismatch")
 <2>1. rf[c][k].status \notin {"none", "succeeded"} /\ rf[c][k].seen # "CLOSED" BY <1>2 DEF TerminalRow
 <2>2. "exception" \in RefundStatus /\ rf[c][k].seen \in Answers \cup {"none"} /\ "mismatch" \in Whys
  BY <1>0 DEF RefundStatus, ReservedRefund, Whys, RefundRow
 <2>3. PICK answer \in Answers \cup {"none"} : answer = rf[c][k].seen BY <2>2
 <2>4. RefundMarked(c, k, "exception", answer, "mismatch") BY <1>2, <2>3
 <2> QED BY <2>1, <2>2, <2>3, <2>4, RefundMarkedKeeps
<1> QED BY <1>1, <1>2 DEF Mismatch

----------------------------------------
(* The steps of refunds. *)

\* A call that is real after the step.
RealNext(call) ==
    /\ call.case \in Cases /\ call.row \in Rows /\ rf'[call.case][call.row].status # "none"
    /\ call.res \in Answers => call.res \in prov'[call.case][call.row]

\* Rows and answers stay, so what was real remains it.
LEMMA CallsFrom ==
    ASSUME Calls, RowsStay, ProvStays, refunder' \in [Refunders -> CallRow], desk' \in DeskRow,
           \A w \in Refunders : \/ refunder'[w] = refunder[w] \/ refunder'[w].pc = "idle"
                                \/ RealNext(refunder'[w]),
           desk' = desk \/ desk' = NoDesk \/ RealNext(desk')
    PROVE  Calls'
<1>1. ASSUME NEW w \in Refunders, refunder'[w].pc # "idle" PROVE CallIsReal(refunder[w])'
 <2>1. CASE refunder'[w] = refunder[w]
  BY <1>1, <2>1 DEF Calls, CallIsReal, RowsStay, ProvStays
 <2>2. CASE RealNext(refunder'[w])
  BY <2>2 DEF RealNext, CallIsReal
 <2> QED BY <1>1, <2>1, <2>2
<1>2. ASSUME desk' # NoDesk PROVE CallIsReal(desk)'
 <2>1. CASE desk' = desk
  BY <1>2, <2>1 DEF Calls, CallIsReal, RowsStay, ProvStays
 <2>2. CASE RealNext(desk')
  BY <2>2 DEF RealNext, CallIsReal
 <2> QED BY <1>2, <2>1, <2>2
<1> QED BY <1>1, <1>2 DEF Calls, NoDesk

LEMMA CallsKept == ASSUME Calls, RowsStay, ProvStays, UNCHANGED <<refunder, desk>> PROVE Calls'
BY CallsFrom DEF Calls

\* One worker's call changes.
LEMMA CallWritten ==
    ASSUME Calls, RowsStay, ProvStays, NEW w \in Refunders, NEW call \in CallRow,
           refunder' = [refunder EXCEPT ![w] = call], desk' = desk,
           call.pc = "idle" \/ RealNext(call)
    PROVE  Calls'
<1>1. refunder \in [Refunders -> CallRow] /\ desk \in DeskRow BY DEF Calls
<1>2. refunder' \in [Refunders -> CallRow] /\ refunder'[w] = call /\ \A v \in Refunders : v # w => refunder'[v] = refunder[v]
 BY <1>1
<1> QED BY <1>1, <1>2, CallsFrom

\* A worker is done.
LEMMA CallOver ==
    ASSUME Calls, RowsStay, ProvStays, NEW w \in Refunders, refunder' = [refunder EXCEPT ![w] = NoCall],
           desk' = desk
    PROVE  Calls'
<1>1. "none" \in RefundStatus /\ "none" \in Whys /\ "none" \in Results BY DEF RefundStatus, Whys, Results
<1>2. NoCall \in CallRow /\ NoCall.pc = "idle" BY <1>1 DEF NoCall, CallRow
<1>3. PICK call \in CallRow : call = NoCall /\ call.pc = "idle" BY <1>2
<1>4. refunder' = [refunder EXCEPT ![w] = call] BY <1>3
<1> QED BY <1>3, <1>4, CallWritten

\* A worker has an answer, or goes on to submit.
LEMMA CallMoves ==
    ASSUME Calls, RowsStay, ProvStays, NEW w \in Refunders, NEW pc \in {"submit", "answered"}, NEW res \in Results,
           refunder' = [refunder EXCEPT ![w].pc = pc, ![w].res = res], desk' = desk,
           refunder[w].pc # "idle",
           res \in Answers => res \in prov'[refunder[w].case][refunder[w].row]
    PROVE  Calls'
<1>1. refunder \in [Refunders -> CallRow] /\ refunder[w] \in CallRow /\ CallIsReal(refunder[w]) BY DEF Calls
<1>2. PICK call : call = [refunder[w] EXCEPT !.pc = pc, !.res = res] OBVIOUS
<1>3. call \in CallRow /\ call.case = refunder[w].case /\ call.row = refunder[w].row /\ call.res = res
 BY <1>1, <1>2 DEF CallRow
<1>4. refunder' = [refunder EXCEPT ![w] = call] BY <1>1, <1>2 DEF CallRow
<1>5. RealNext(call) BY <1>1, <1>3 DEF RealNext, CallIsReal, RowsStay
<1> QED BY <1>3, <1>4, <1>5, CallWritten

\* What the provider says when it is asked, it has said.
LEMMA AtProviderFacts ==
    ASSUME NEW p \in SUBSET Answers
    PROVE  /\ p = {} <=> AtProvider(p) = "missing"
           /\ p # {} => AtProvider(p) \in p /\ AtProvider(p) \in Answers
           /\ AtProvider(p) \in Results
           /\ AtProvider(p) \in {"PROCESSING", "ABNORMAL"} => "SUCCESS" \notin p /\ "CLOSED" \notin p
BY DEF AtProvider, Answers, Results

LEMMA QueryRefundInv == ASSUME BackInv, NEW w \in Refunders, QueryRefund(w) PROVE BackInv'
<1> DEFINE call == refunder[w]
           p == prov[call.case][call.row]
<1>0. MoneyInv /\ Calls /\ refunder \in [Refunders -> CallRow] /\ call \in CallRow BY DEF BackInv, Calls
<1>1. call.pc = "query" /\ CallIsReal(call) BY <1>0 DEF QueryRefund, Calls
<1>2. p \in SUBSET Answers BY <1>0, <1>1 DEF MoneyInv, MoneyTypes, CallIsReal
<1>3. UNCHANGED <<dvars, paid, refunded, rf, prov, inflight, sale, ret, desk>> BY DEF QueryRefund
<1>4. MoneyInv' /\ RowsStay /\ ProvStays BY <1>0, <1>3, MoneyKept
<1>5. BackKept BY <1>3, <1>4, RowsOnly
<1>6. Calls'
 <2>1. CASE \E res \in {"missing", "given_up"} : Returned(w, res)
  <3>1. PICK res \in {"missing", "given_up"} : Returned(w, res) BY <2>1
  <3>2. res \in Results /\ res \notin Answers BY DEF Results, Answers
  <3> QED BY <1>0, <1>1, <1>3, <1>4, <3>1, <3>2, CallMoves DEF Returned
 <2>2. CASE AtProvider(p) # "missing" /\ Returned(w, AtProvider(p))
  <3>1. PICK res \in Results : res = AtProvider(p) /\ res \in p BY <1>2, <2>2, AtProviderFacts
  <3>2. res \in prov'[refunder[w].case][refunder[w].row] BY <1>3, <3>1
  <3>3. refunder' = [refunder EXCEPT ![w].pc = "answered", ![w].res = res] BY <2>2, <3>1 DEF Returned
  <3> QED BY <1>0, <1>1, <1>3, <1>4, <3>2, <3>3, CallMoves
 <2>3. CASE refunder' = [refunder EXCEPT ![w].pc = "submit"]
  <3>1. PICK new : new = [call EXCEPT !.pc = "submit"] OBVIOUS
  <3>2. new \in CallRow /\ new.case = call.case /\ new.row = call.row /\ new.res = call.res
   BY <1>0, <3>1 DEF CallRow
  <3>3. refunder' = [refunder EXCEPT ![w] = new] BY <1>0, <2>3, <3>1
  <3>4. RealNext(new) BY <1>1, <1>3, <3>2 DEF RealNext, CallIsReal
  <3> HIDE DEF call
  <3> QED BY <1>0, <1>3, <1>4, <3>2, <3>3, <3>4, CallWritten
 <2> QED BY <2>1, <2>2, <2>3 DEF QueryRefund
<1> QED BY <1>5, <1>6 DEF BackKept, BackInv

LEMMA SubmitRefundInv == ASSUME BackInv, NEW w \in Refunders, SubmitRefund(w) PROVE BackInv'
<1>0. MoneyInv /\ Calls /\ refunder[w] \in CallRow BY DEF BackInv, Calls
<1>1. refunder[w].pc = "submit" /\ CallIsReal(refunder[w]) BY <1>0 DEF SubmitRefund, Calls
<1>2. PICK c \in Cases, k \in Rows : c = refunder[w].case /\ k = refunder[w].row BY <1>1 DEF CallIsReal
<1>3. rf[c][k].status # "none" /\ UNCHANGED <<dvars, paid, refunded, rf, inflight, sale, ret, desk>>
 BY <1>1, <1>2 DEF CallIsReal, SubmitRefund
<1>4. CASE /\ prov' = [prov EXCEPT ![c][k] = @ \cup {"PROCESSING"}] /\ Returned(w, AtProvider(prov'[c][k]))
 <2>1. /\ MoneyInv' /\ RowsStay /\ ProvStays /\ prov'[c][k] = prov[c][k] \cup {"PROCESSING"}
  <3>1. SetProvider(c, k, "PROCESSING") BY <1>4 DEF SetProvider
  <3>2. inflight' \subseteq inflight /\ UNCHANGED <<paid, refunded, rf, sale>> /\ "PROCESSING" \in Answers
   BY <1>3 DEF Answers
  <3> QED BY <1>0, <1>3, <3>1, <3>2, SetProviderMoney
 <2>2. PICK p \in SUBSET Answers : p = prov'[c][k]
  <3>1. prov' \in [Cases -> [Rows -> SUBSET Answers]] BY <2>1 DEF MoneyInv, MoneyTypes
  <3> QED BY <3>1
 <2>3. PICK res \in Results : res = AtProvider(p) /\ res \in p BY <2>1, <2>2, AtProviderFacts
 <2>4. refunder' = [refunder EXCEPT ![w].pc = "answered", ![w].res = res] BY <1>4, <2>2, <2>3 DEF Returned
 <2>5. Calls' BY <1>0, <1>1, <1>2, <1>3, <2>1, <2>2, <2>3, <2>4, CallMoves
 <2> QED BY <1>3, <2>1, <2>5, RowsOnly DEF BackKept, BackInv
<1>5. CASE (\E res \in {"not_enough", "rejected"} : Returned(w, res)) /\ UNCHANGED prov
 <2>1. MoneyInv' /\ RowsStay /\ ProvStays BY <1>0, <1>3, <1>5, MoneyKept
 <2>2. PICK res \in {"not_enough", "rejected"} : Returned(w, res) BY <1>5
 <2>3. res \in Results /\ res \notin Answers BY DEF Results, Answers
 <2>4. Calls' BY <1>0, <1>1, <1>3, <2>1, <2>2, <2>3, CallMoves DEF Returned
 <2> QED BY <1>3, <2>1, <2>4, RowsOnly DEF BackKept, BackInv
<1> QED BY <1>2, <1>4, <1>5 DEF SubmitRefund

LEMMA RefundCallFailsInv == ASSUME BackInv, NEW w \in Refunders, RefundCallFails(w) PROVE BackInv'
<1>0. MoneyInv /\ MoneyTypes /\ Calls /\ refunder[w] \in CallRow BY DEF BackInv, Calls, MoneyInv
<1>1. refunder[w].pc # "idle" /\ CallIsReal(refunder[w]) BY <1>0 DEF RefundCallFails, Calls
<1>2. PICK c \in Cases, k \in Rows : c = refunder[w].case /\ k = refunder[w].row BY <1>1 DEF CallIsReal
<1>3. /\ rf[c][k].status # "none" /\ UNCHANGED <<dvars, paid, refunded, rf, prov, sale, ret, desk>>
      /\ inflight' \subseteq inflight \cup {<<c, k>>}
 BY <1>1, <1>2 DEF CallIsReal, RefundCallFails
<1>4. MoneyInv' /\ RowsStay /\ ProvStays
 <2>1. /\ prov' \in [Cases -> [Rows -> SUBSET Answers]] /\ inflight' \subseteq Cases \X Rows /\ ProvStays
  BY <1>0, <1>3 DEF MoneyTypes, ProvStays
 <2>2. ASSUME NEW d \in Cases, NEW l \in Rows
       PROVE  /\ rf[d][l].status = "none" => prov'[d][l] = prov[d][l] /\ <<d, l>> \notin inflight'
              /\ ~("SUCCESS" \in prov'[d][l] /\ "CLOSED" \in prov'[d][l])
  <3>1. RowAgrees(d, l) BY <1>0 DEF MoneyInv
  <3> QED BY <1>3, <3>1 DEF RowAgrees
 <2> QED BY <1>0, <1>3, <2>1, <2>2, RowsSame
<1>5. PICK res \in {"unavailable", "other"} : Returned(w, res) BY DEF RefundCallFails
<1>6. res \in Results /\ res \notin Answers BY DEF Results, Answers
<1>7. Calls' BY <1>0, <1>1, <1>3, <1>4, <1>5, <1>6, CallMoves DEF Returned
<1> QED BY <1>3, <1>4, <1>7, RowsOnly DEF BackKept, BackInv

\* What a worker's write of its row keeps.
LEMMA RowPut ==
    ASSUME BackInv, NEW c \in Cases, NEW k \in Rows, NEW row \in RefundRow, SetRow(c, k, row),
           UNCHANGED <<dvars, paid, refunded, prov, inflight, sale, ret>>,
           row.status \in {"none", "succeeded"} \/ rf[c][k].status \in {"none", "succeeded"} =>
              row.status = rf[c][k].status,
           row.status = "failed" => rf[c][k].status = "failed",
           row.seen = rf[c][k].seen,
           row.fresh # {} => row.status \in ReservedRefund
    PROVE  BackKept
<1>0. MoneyInv /\ RowAgrees(c, k) BY DEF BackInv, MoneyInv
<1>1. rf' = [rf EXCEPT ![c][k] = row] BY DEF SetRow
<1>2. /\ row.status = "failed" => row.seen = "CLOSED"
      /\ rf[c][k].seen = "CLOSED" => row.seen = "CLOSED"
      /\ row.seen = "CLOSED" => "CLOSED" \in prov[c][k] /\ row.status \notin {"none", "succeeded"}
 BY <1>0 DEF RowAgrees
<1>3. MoneyInv' /\ RowsStay BY <1>0, <1>1, <1>2, RowWritten
<1>4. ProvStays BY DEF ProvStays
<1> QED BY <1>3, <1>4, RowsOnly

LEMMA ApplyResultInv == ASSUME BackInv, NEW w \in Refunders, ApplyResult(w) PROVE BackInv'
<1>0. MoneyInv /\ MoneyTypes /\ Calls /\ refunder[w] \in CallRow BY DEF BackInv, Calls, MoneyInv
<1>1. refunder[w].pc # "idle" /\ CallIsReal(refunder[w]) BY <1>0 DEF ApplyResult, Calls
<1>2. PICK c \in Cases, k \in Rows : c = refunder[w].case /\ k = refunder[w].row BY <1>1 DEF CallIsReal
<1>3. PICK res \in Results : res = refunder[w].res BY <1>0 DEF CallRow
<1>4. /\ UNCHANGED <<dlv, vmode, carrier, paid, prov, inflight, desk>>
      /\ refunder' = [refunder EXCEPT ![w] = NoCall] /\ rf[c][k].status # "none" /\ rf[c][k] \in RefundRow
      /\ res \in Answers => res \in prov[c][k]
 BY <1>0, <1>1, <1>2, <1>3 DEF ApplyResult, CallIsReal, MoneyTypes
<1>5. w \in rf[c][k].fresh => rf[c][k].status \in ReservedRefund BY <1>0 DEF MoneyInv, RowAgrees
<1>6. BackKept
 <2>1. CASE UNCHANGED <<rf, refunded, order, code, sale, ret>>
  <3>1. UNCHANGED <<dvars, paid, refunded, sale, ret, rf, prov, inflight>> BY <1>4, <2>1 DEF dvars
  <3>2. MoneyInv' /\ RowsStay /\ ProvStays BY <1>0, <3>1, MoneyKept
  <3> QED BY <3>1, <3>2, RowsOnly
 <2>2. CASE res \in Answers /\ ApplyState(c, k, res)
  BY <1>4, <2>2, ApplyStateKeeps
 <2>3. CASE /\ w \in rf[c][k].fresh /\ res \in {"unavailable", "other", "not_enough", "rejected", "missing", "given_up"}
            /\ \E s \in ReservedRefund : SetRow(c, k, Put(rf[c][k], s, rf[c][k].seen, res))
            /\ UNCHANGED <<refunded, order, code, sale, ret>>
  <3>1. PICK s \in ReservedRefund : SetRow(c, k, Put(rf[c][k], s, rf[c][k].seen, res)) BY <2>3
  <3>2. s \in RefundStatus /\ rf[c][k].seen \in Answers \cup {"none"} /\ res \in Whys
   BY <1>4 DEF RefundStatus, RefundRow, Whys
  <3>3. PICK row \in RefundRow : /\ row = Put(rf[c][k], s, rf[c][k].seen, res)
                                 /\ row.status = s /\ row.seen = rf[c][k].seen /\ row.fresh = {}
   BY <3>2, PutRow
  <3>4. s \notin {"none", "succeeded", "failed"} /\ rf[c][k].status \notin {"none", "succeeded", "failed"}
   BY <1>5, <2>3 DEF ReservedRefund, ActiveRefund
  <3>5. UNCHANGED <<dvars, paid, refunded, prov, inflight, sale, ret>> BY <1>4, <2>3 DEF dvars
  <3>6. SetRow(c, k, row) BY <3>1, <3>3
  <3> QED BY <3>3, <3>4, <3>5, <3>6, RowPut
 <2>4. w \in rf[c][k].fresh => /\ (IF rf[c][k].status = "creating" THEN "submission_unknown" ELSE rf[c][k].status) \in ReservedRefund
                               /\ "exception" \in ReservedRefund
  BY <1>5 DEF ReservedRefund, ActiveRefund
 <2> QED BY <1>2, <1>3, <2>1, <2>2, <2>3, <2>4 DEF ApplyResult
<1>7. Calls' BY <1>0, <1>4, <1>6, CallOver DEF BackKept
<1> QED BY <1>6, <1>7 DEF BackKept, BackInv

LEMMA RefunderDiesInv == ASSUME BackInv, NEW w \in Refunders, RefunderDies(w) PROVE BackInv'
<1>0. MoneyInv /\ Calls BY DEF BackInv
<1>1. UNCHANGED <<dvars, paid, refunded, rf, prov, inflight, sale, ret, desk>> /\ refunder' = [refunder EXCEPT ![w] = NoCall]
 BY DEF RefunderDies
<1>2. MoneyInv' /\ RowsStay /\ ProvStays BY <1>0, <1>1, MoneyKept
<1>3. Calls' BY <1>0, <1>1, <1>2, CallOver
<1> QED BY <1>1, <1>2, <1>3, RowsOnly DEF BackKept, BackInv

LEMMA ClaimRefundInv ==
    ASSUME BackInv, NEW w \in Refunders, NEW c \in Cases, NEW k \in Rows, ClaimRefund(w, c, k)
    PROVE  BackInv'
<1>0. MoneyInv /\ Calls /\ rf[c][k] \in RefundRow /\ rf[c][k].status \in ActiveRefund
 BY DEF BackInv, MoneyInv, MoneyTypes, ClaimRefund
<1>1. rf[c][k].status \in ReservedRefund /\ rf[c][k].status \notin {"none", "succeeded", "failed"}
 BY <1>0 DEF ReservedRefund, ActiveRefund
<1>2. PICK row : row = [rf[c][k] EXCEPT !.lease = "held", !.fresh = {w}] OBVIOUS
<1>3. row \in RefundRow /\ row.status = rf[c][k].status /\ row.seen = rf[c][k].seen
 <2>1. PICK f \in SUBSET (Refunders \cup {"desk"}) : f = {w} OBVIOUS
 <2>2. row = [rf[c][k] EXCEPT !.lease = "held", !.fresh = f] BY <1>2, <2>1
 <2> QED BY <1>0, <2>2 DEF RefundRow
<1>4. /\ SetRow(c, k, row) /\ UNCHANGED <<dvars, paid, refunded, prov, inflight, sale, ret, desk>>
 BY <1>2 DEF ClaimRefund
<1>5. BackKept BY <1>1, <1>3, <1>4, RowPut
<1>6. PICK pc \in {"submit", "query"} : pc = IF rf[c][k].status = "creating" THEN "submit" ELSE "query"
 OBVIOUS
<1>7. PICK call : call = [pc |-> pc, case |-> c, row |-> k, as |-> rf[c][k].status, why |-> rf[c][k].why, res |-> "none"]
 OBVIOUS
<1>8. call \in CallRow /\ call.case = c /\ call.row = k /\ call.res \notin Answers
 <2>1. "none" \in Results /\ "none" \notin Answers BY DEF Results, Answers
 <2> QED BY <1>0, <1>6, <1>7, <2>1 DEF CallRow, RefundRow
<1>9. RealNext(call) BY <1>1, <1>5, <1>8 DEF RealNext, BackKept, RowsStay
<1>10. refunder' = [refunder EXCEPT ![w] = call] BY <1>6, <1>7 DEF ClaimRefund
<1>11. Calls' BY <1>0, <1>4, <1>5, <1>8, <1>9, <1>10, CallWritten DEF BackKept
<1> QED BY <1>5, <1>11 DEF BackKept, BackInv

LEMMA RetryClosedInv == ASSUME BackInv, NEW c \in Cases, RetryClosed(c) PROVE BackInv'
<1>0. /\ MoneyInv /\ MoneyTypes /\ Calls /\ 1 \in Rows /\ 2 \in Rows /\ sale \in [Cases -> SaleRow]
      /\ paid \in Nat /\ refunded \in Nat
 BY DEF BackInv, MoneyInv, MoneyTypes, Rows
<1>1. /\ rf[c][1].status = "failed" /\ rf[c][1].seen = "CLOSED" /\ rf[c][2].status = "none"
      /\ refunded + Reserved({<<c, 1>>}) + sale[c].amount <= paid /\ rf' = [rf EXCEPT ![c][2] = NewRefund]
      /\ UNCHANGED <<dvars, paid, refunded, prov, inflight, refunder, desk, sale, ret>>
 BY DEF RetryClosed, DeskWrite, SetRow
<1>2. \A x \in {<<c, 1>>} : x \notin Potential BY <1>1 DEF Potential
<1>3. PICK n \in Nat, m \in Nat : /\ n = SumFunctionOnSet(RefundAmounts, Potential) /\ m = Reserved({<<c, 1>>})
                                  /\ n <= m
 BY <1>0, <1>2, PotentialReserved
<1>4. PICK a \in Nat : a = sale[c].amount BY <1>0 DEF SaleRow
<1>5. refunded + n + a <= paid BY <1>0, <1>1, <1>3, <1>4
<1>6. /\ sale[c].status = "refund_processing"
      /\ sale[c].res = "return_and_refund" => sale[c].receipt
 <2>1. LatestRefund(c) # "succeeded" /\ \E k \in Rows : rf[c][k].status # "none"
  BY <1>0, <1>1 DEF LatestRefund
 <2> QED BY <1>0, <2>1 DEF MoneyInv, MoneyHasReason
<1>7. MoneyInv' /\ RowsStay /\ ProvStays
 <2>1. /\ sale' \in [Cases -> SaleRow] /\ \A d \in Cases : d # c => sale'[d] = sale[d]
       /\ sale'[c].status = "refund_processing"
       /\ sale'[c].res = "return_and_refund" => sale'[c].receipt
       /\ refunded + SumFunctionOnSet(RefundAmounts, Potential) + sale'[c].amount <= paid
       /\ UNCHANGED <<paid, refunded, prov, inflight>> /\ sale' = sale
  BY <1>0, <1>1, <1>3, <1>4, <1>5, <1>6
 <2>2. MoneyInv /\ 2 \in Rows /\ rf[c][2].status = "none" /\ rf[c][1].seen = "CLOSED" BY <1>0, <1>1
 <2>3. rf' = [rf EXCEPT ![c][2] = NewRefund] BY <1>1
 <2> QED BY <2>1, <2>2, <2>3, NewRow, Zenon
<1>8. Calls' BY <1>0, <1>1, <1>7, CallsKept
<1> QED BY <1>1, <1>7, <1>8, RowsOnly DEF BackKept, BackInv

LEMMA RefundLeaseRunsOutInv ==
    ASSUME BackInv, NEW c \in Cases, NEW k \in Rows, RefundLeaseRunsOut(c, k) PROVE BackInv'
<1>0. MoneyInv /\ Calls /\ rf[c][k] \in RefundRow /\ RowAgrees(c, k) BY DEF BackInv, MoneyInv, MoneyTypes
<1>1. PICK row : row = [rf[c][k] EXCEPT !.lease = "lapsed"] OBVIOUS
<1>2. /\ row \in RefundRow /\ row.status = rf[c][k].status /\ row.seen = rf[c][k].seen /\ row.fresh = rf[c][k].fresh
 BY <1>0, <1>1 DEF RefundRow
<1>3. SetRow(c, k, row) /\ UNCHANGED <<dvars, paid, refunded, prov, inflight, sale, ret, refunder, desk>>
 BY <1>1 DEF RefundLeaseRunsOut
<1>4. row.fresh # {} => row.status \in ReservedRefund BY <1>0, <1>2 DEF RowAgrees
<1>5. BackKept BY <1>2, <1>3, <1>4, RowPut
<1>6. Calls' BY <1>0, <1>3, <1>5, CallsKept DEF BackKept
<1> QED BY <1>5, <1>6 DEF BackKept, BackInv

LEMMA ProviderInv ==
    ASSUME BackInv, NEW c \in Cases, NEW k \in Rows, ProviderDecides(c, k) \/ LateSubmission(c, k)
    PROVE  BackInv'
<1>0. MoneyInv /\ Calls /\ RowAgrees(c, k) /\ prov[c][k] \in SUBSET Answers
 BY DEF BackInv, MoneyInv, MoneyTypes
<1>1. PICK says \in Answers :
         /\ SetProvider(c, k, says) /\ rf[c][k].status # "none"
         /\ says = "SUCCESS" => "CLOSED" \notin prov[c][k]
         /\ says = "CLOSED" => "SUCCESS" \notin prov[c][k]
         /\ inflight' \subseteq inflight /\ UNCHANGED <<dvars, paid, refunded, rf, sale, ret, refunder, desk>>
 <2>1. CASE ProviderDecides(c, k)
  <3>1. AtProvider(prov[c][k]) \in {"PROCESSING", "ABNORMAL"} BY <2>1 DEF ProviderDecides
  <3>2. prov[c][k] # {} /\ "SUCCESS" \notin prov[c][k] /\ "CLOSED" \notin prov[c][k]
   BY <1>0, <3>1, AtProviderFacts
  <3>3. \E says \in {"SUCCESS", "CLOSED", "ABNORMAL"} : SetProvider(c, k, says) BY <2>1 DEF ProviderDecides
  <3>4. rf[c][k].status # "none" BY <1>0, <3>2 DEF RowAgrees
  <3>5. inflight' \subseteq inflight /\ UNCHANGED <<dvars, paid, refunded, rf, sale, ret, refunder, desk>>
   BY <2>1 DEF ProviderDecides
  <3> QED BY <3>2, <3>3, <3>4, <3>5 DEF Answers
 <2>2. CASE LateSubmission(c, k)
  <3>1. <<c, k>> \in inflight /\ SetProvider(c, k, "PROCESSING") /\ inflight' \subseteq inflight
   BY <2>2 DEF LateSubmission
  <3>2. UNCHANGED <<dvars, paid, refunded, rf, sale, ret, refunder, desk>> BY <2>2 DEF LateSubmission
  <3>3. rf[c][k].status # "none" BY <1>0, <3>1 DEF RowAgrees
  <3> QED BY <3>1, <3>2, <3>3 DEF Answers
 <2> QED BY <2>1, <2>2
<1>2. MoneyInv' /\ RowsStay /\ ProvStays BY <1>0, <1>1, SetProviderMoney
<1>3. Calls' BY <1>0, <1>1, <1>2, CallsKept
<1> QED BY <1>1, <1>2, <1>3, RowsOnly DEF BackKept, BackInv

\* A row the administrator touches.
LEMMA DeskInv ==
    ASSUME BackInv, NEW c \in Cases, NEW k \in Rows, RetryAlive(c, k) \/ Reconcile(c, k) \/ MarkException(c, k)
    PROVE  BackInv'
<1>0. MoneyInv /\ Calls /\ rf[c][k] \in RefundRow BY DEF BackInv, MoneyInv, MoneyTypes
<1>1. PICK s \in RefundStatus, answer \in Answers \cup {"none"}, reason \in Whys :
         /\ DeskWrite(c, k, Put(rf[c][k], s, answer, reason)) /\ answer = rf[c][k].seen
         /\ s \notin {"none", "succeeded", "failed"} /\ rf[c][k].status \notin {"none", "succeeded"}
 <2>1. /\ rf[c][k].seen \in Answers \cup {"none"} /\ rf[c][k].why \in Whys /\ rf[c][k].status \in RefundStatus
       /\ {"submission_unknown", "pending", "exception"} \subseteq RefundStatus
       /\ {"manual_retry", "none", "manual"} \subseteq Whys
  BY <1>0 DEF RefundRow, RefundStatus, ReservedRefund, ActiveRefund, Whys, Results
 <2>2. CASE RetryAlive(c, k)
  BY <2>1, <2>2 DEF RetryAlive
 <2>3. CASE Reconcile(c, k)
  <3>1. DeskWrite(c, k, Put(rf[c][k], "pending", rf[c][k].seen, "none")) /\ rf[c][k].status = "exception"
   BY <2>3 DEF Reconcile
  <3> QED BY <2>1, <3>1
 <2>4. CASE MarkException(c, k)
  BY <2>1, <2>4 DEF MarkException
 <2> QED BY <2>2, <2>3, <2>4
<1>2. PICK row \in RefundRow : /\ row = Put(rf[c][k], s, answer, reason)
                               /\ row.status = s /\ row.seen = rf[c][k].seen /\ row.fresh = {}
 BY <1>1, PutRow
<1>3. SetRow(c, k, row) /\ UNCHANGED <<dvars, paid, refunded, prov, inflight, sale, ret, refunder, desk>>
 BY <1>1, <1>2 DEF DeskWrite
<1>4. BackKept BY <1>1, <1>2, <1>3, RowPut
<1>5. Calls' BY <1>0, <1>3, <1>4, CallsKept DEF BackKept
<1> QED BY <1>4, <1>5 DEF BackKept, BackInv

LEMMA RepairReadsInv == ASSUME BackInv, NEW c \in Cases, NEW k \in Rows, RepairReads(c, k) PROVE BackInv'
<1>0. /\ MoneyInv /\ Calls /\ rf[c][k] \in RefundRow /\ prov[c][k] \in SUBSET Answers
      /\ refunder \in [Refunders -> CallRow]
 BY DEF BackInv, MoneyInv, MoneyTypes, Calls
<1>1. rf[c][k].status \in ReservedRefund /\ rf[c][k].status \notin {"none", "succeeded", "failed"}
 BY DEF RepairReads, RepairEligible, ReservedRefund, ActiveRefund
<1>2. PICK f \in SUBSET (Refunders \cup {"desk"}) : f = rf[c][k].fresh \cup {"desk"} BY <1>0 DEF RefundRow
<1>3. PICK row : row = [rf[c][k] EXCEPT !.fresh = f] OBVIOUS
<1>4. row \in RefundRow /\ row.status = rf[c][k].status /\ row.seen = rf[c][k].seen
 BY <1>0, <1>3 DEF RefundRow
<1>5. SetRow(c, k, row) /\ UNCHANGED <<dvars, paid, refunded, prov, inflight, sale, ret, refunder>>
 BY <1>2, <1>3 DEF RepairReads
<1>6. BackKept BY <1>1, <1>4, <1>5, RowPut
<1>7. PICK res \in Results : res = AtProvider(prov[c][k]) /\ (res \in Answers => res \in prov[c][k])
 BY <1>0, AtProviderFacts DEF Answers
<1>8. PICK visit : visit = [case |-> c, row |-> k, res |-> res] OBVIOUS
<1>9. visit \in DeskRow /\ visit.case = c /\ visit.row = k /\ visit.res = res /\ desk' = visit
 BY <1>7, <1>8 DEF DeskRow, RepairReads
<1>10. RealNext(visit) BY <1>1, <1>5, <1>6, <1>7, <1>9 DEF RealNext, BackKept, RowsStay
<1>11. Calls' BY <1>0, <1>5, <1>6, <1>9, <1>10, CallsFrom DEF BackKept
<1> QED BY <1>6, <1>11 DEF BackKept, BackInv

LEMMA ProcessCallbackInv ==
    ASSUME BackInv, NEW c \in Cases, NEW k \in Rows, NEW event, ProcessCallback(c, k, event)
    PROVE  BackInv'
<1>0. MoneyInv /\ Calls /\ RowAgrees(c, k) /\ prov[c][k] \in SUBSET Answers
 BY DEF BackInv, MoneyInv, MoneyTypes
<1>1. UNCHANGED <<dlv, vmode, carrier, paid, prov, inflight, refunder, desk>> BY DEF ProcessCallback
<1>2. BackKept
 <2>1. CASE event \in prov[c][k] /\ ApplyState(c, k, event)
  BY <1>0, <1>1, <2>1, ApplyStateKeeps
 <2>2. CASE prov[c][k] # {} /\ Mismatch(c, k)
  <3>1. rf[c][k].status # "none" BY <1>0, <2>2 DEF RowAgrees
  <3> QED BY <1>1, <2>2, <3>1, MismatchKeeps
 <2> QED BY <2>1, <2>2 DEF ProcessCallback
<1>3. Calls' BY <1>0, <1>1, <1>2, CallsKept DEF BackKept
<1> QED BY <1>2, <1>3 DEF BackKept, BackInv

LEMMA RepairAppliesInv == ASSUME BackInv, RepairApplies PROVE BackInv'
<1>0. MoneyInv /\ MoneyTypes /\ Calls /\ desk \in DeskRow /\ desk # NoDesk /\ CallIsReal(desk)
 BY DEF BackInv, MoneyInv, Calls, RepairApplies
<1>1. PICK c \in Cases, k \in Rows, res \in Results : c = desk.case /\ k = desk.row /\ res = desk.res
 BY <1>0 DEF CallIsReal, DeskRow
<1>2. /\ UNCHANGED <<dlv, vmode, carrier, paid, prov, inflight, refunder>> /\ desk' = NoDesk
      /\ rf[c][k].status # "none" /\ rf[c][k] \in RefundRow
      /\ res \in Answers => res \in prov[c][k]
 BY <1>0, <1>1 DEF RepairApplies, CallIsReal, MoneyTypes
<1>3. "desk" \in rf[c][k].fresh => rf[c][k].status \in ReservedRefund BY <1>0 DEF MoneyInv, RowAgrees
<1>4. BackKept
 <2>1. CASE UNCHANGED <<rf, refunded, order, code, sale, ret>>
  <3>1. UNCHANGED <<dvars, paid, refunded, sale, ret, rf, prov, inflight>> BY <1>2, <2>1 DEF dvars
  <3>2. MoneyInv' /\ RowsStay /\ ProvStays BY <1>0, <3>1, MoneyKept
  <3> QED BY <3>1, <3>2, RowsOnly
 <2>2. CASE res \in Answers /\ ApplyState(c, k, res)
  BY <1>2, <2>2, ApplyStateKeeps
 <2>3. CASE "desk" \in rf[c][k].fresh /\ RefundMarked(c, k, "submission_unknown", rf[c][k].seen, "none")
  <3>1. PICK answer \in Answers \cup {"none"} : answer = rf[c][k].seen BY <1>2 DEF RefundRow
  <3>2. "submission_unknown" \in RefundStatus /\ "none" \in Whys
   BY DEF RefundStatus, ReservedRefund, ActiveRefund, Whys, Results
  <3>3. rf[c][k].status \notin {"none", "succeeded"} BY <1>3, <2>3 DEF ReservedRefund, ActiveRefund
  <3>4. answer = "CLOSED" => "CLOSED" \in prov[c][k] BY <1>0, <3>1 DEF MoneyInv, RowAgrees
  <3>5. RefundMarked(c, k, "submission_unknown", answer, "none") BY <2>3, <3>1
  <3> QED BY <1>2, <3>1, <3>2, <3>3, <3>4, <3>5, RefundMarkedKeeps
 <2> QED BY <1>1, <2>1, <2>2, <2>3 DEF RepairApplies
<1>5. Calls'
 <2>1. NoDesk \in DeskRow BY DEF NoDesk, DeskRow, Results
 <2> QED BY <1>0, <1>2, <1>4, <2>1, CallsFrom DEF BackKept, Calls
<1> QED BY <1>4, <1>5 DEF BackKept, BackInv

\* Every step of refunds keeps the invariant.
LEMMA RefundStepInv == ASSUME BackInv, RefundStep PROVE BackInv'
<1>1. ASSUME NEW w \in Refunders, QueryRefund(w) \/ SubmitRefund(w) \/ RefundCallFails(w) PROVE BackInv'
 BY <1>1, QueryRefundInv, SubmitRefundInv, RefundCallFailsInv
<1>2. ASSUME NEW w \in Refunders, ApplyResult(w) \/ RefunderDies(w) PROVE BackInv'
 BY <1>2, ApplyResultInv, RefunderDiesInv
<1>3. ASSUME NEW w \in Refunders, NEW c \in Cases, NEW k \in Rows, ClaimRefund(w, c, k) PROVE BackInv'
 BY <1>3, ClaimRefundInv
<1>4. ASSUME NEW c \in Cases, RetryClosed(c) PROVE BackInv' BY <1>4, RetryClosedInv
<1>5. ASSUME NEW c \in Cases, NEW k \in Rows,
             RefundLeaseRunsOut(c, k) \/ ProviderDecides(c, k) \/ LateSubmission(c, k) \/ RepairReads(c, k)
      PROVE  BackInv'
 BY <1>5, RefundLeaseRunsOutInv, ProviderInv, RepairReadsInv
<1>6. ASSUME NEW c \in Cases, NEW k \in Rows, RetryAlive(c, k) \/ Reconcile(c, k) \/ MarkException(c, k)
      PROVE  BackInv'
 BY <1>6, DeskInv
<1>7. ASSUME NEW c \in Cases, NEW k \in Rows, NEW event \in Answers \cup {"garbled"}, ProcessCallback(c, k, event)
      PROVE  BackInv'
 BY <1>7, ProcessCallbackInv
<1>8. CASE RepairApplies
 BY <1>8, RepairAppliesInv
<1> QED BY <1>1, <1>2, <1>3, <1>4, <1>5, <1>6, <1>7, <1>8 DEF RefundStep

----------------------------------------
(* The steps of the customer's cases. *)

\* A case changes, and no money is asked for.
LEMMA SaleMoves ==
    ASSUME BackInv, NEW c \in Cases, NEW row \in SaleRow, sale' = [sale EXCEPT ![c] = row], onlySale,
           sale[c].status \notin {"refund_processing", "completed"},
           row.status \notin {"refund_processing", "completed"}
    PROVE  BackInv'
<1>0. MoneyInv /\ Calls /\ DeliveryOK /\ CodeUnused /\ sale \in [Cases -> SaleRow]
 BY DEF BackInv, MoneyInv, MoneyTypes
<1>1. UNCHANGED <<paid, refunded, rf, prov, inflight, refunder, desk, ret, dlv, vmode, carrier, code, order>>
 BY DEF onlySale, keepRefund, dvars
<1>2. sale' \in [Cases -> SaleRow] /\ sale'[c] = row /\ \A d \in Cases : d # c => sale'[d] = sale[d] BY <1>0
<1>3. MoneyInv' /\ RowsStay /\ ProvStays BY <1>0, <1>1, <1>2, SaleWritten
<1>4. DeliveryOK' /\ CodeUnused' /\ order'.delivery = order.delivery BY <1>0, <1>1, CodesVoid
<1>5. ReturnInv' BY <1>1, <1>2, <1>4, ReturnKept
<1>6. Calls' BY <1>0, <1>1, <1>3, CallsKept
<1> QED BY <1>3, <1>4, <1>5, <1>6 DEF BackInv

\* A case gets its refund: there is money for it.
LEMMA SaleRefunds ==
    ASSUME BackInv, NEW c \in Cases, NEW row \in SaleRow, sale' = [sale EXCEPT ![c] = row],
           rf' = [rf EXCEPT ![c][1] = NewRefund], UNCHANGED <<dvars, ret>>, keepRefund,
           sale[c].status \notin {"refund_processing", "completed"},
           row.status = "refund_processing", row.res = "return_and_refund" => row.receipt,
           row.amount = sale[c].amount, Refundable(sale[c].amount)
    PROVE  BackInv'
<1>0. /\ MoneyInv /\ Calls /\ DeliveryOK /\ CodeUnused /\ sale \in [Cases -> SaleRow] /\ paid \in Nat
      /\ refunded \in Nat /\ 1 \in Rows
 BY DEF BackInv, MoneyInv, MoneyTypes, Rows
<1>1. UNCHANGED <<paid, refunded, prov, inflight, refunder, desk, ret, dlv, vmode, carrier, code, order>>
 BY DEF keepRefund, dvars
<1>2. sale' \in [Cases -> SaleRow] /\ sale'[c] = row /\ \A d \in Cases : d # c => sale'[d] = sale[d] BY <1>0
<1>3. rf[c][1].status = "none" BY <1>0 DEF MoneyInv, MoneyHasReason
<1>4. PICK n \in Nat, m \in Nat : n = SumFunctionOnSet(RefundAmounts, Potential) /\ m = Reserved({}) /\ n <= m
 BY <1>0, PotentialReserved
<1>5. PICK a \in Nat : a = sale[c].amount /\ a = sale'[c].amount BY <1>0, <1>2 DEF SaleRow
<1>6. refunded + n + a <= paid BY <1>0, <1>4, <1>5 DEF Refundable
<1>7. MoneyInv' /\ RowsStay /\ ProvStays
 <2>1. /\ sale'[c].status = "refund_processing"
       /\ sale'[c].res = "return_and_refund" => sale'[c].receipt
       /\ refunded + SumFunctionOnSet(RefundAmounts, Potential) + sale'[c].amount <= paid
       /\ UNCHANGED <<paid, refunded, prov, inflight>>
  BY <1>1, <1>2, <1>4, <1>5, <1>6
 <2>2. PICK k \in Rows : k = 1 /\ k # 2 BY DEF Rows
 <2>3. rf' = [rf EXCEPT ![c][k] = NewRefund] /\ rf[c][k].status = "none" BY <1>3, <2>2
 <2> QED BY <1>0, <1>2, <2>1, <2>2, <2>3, NewRow, Zenon
<1>8. DeliveryOK' /\ CodeUnused' /\ order'.delivery = order.delivery BY <1>0, <1>1, CodesVoid
<1>9. ReturnInv' BY <1>1, <1>2, <1>8, ReturnKept
<1>10. Calls' BY <1>0, <1>1, <1>7, CallsKept
<1> QED BY <1>7, <1>8, <1>9, <1>10 DEF BackInv

\* Every step of the customer's cases keeps the invariant.
LEMMA SaleStepInv == ASSUME BackInv, SaleStep PROVE BackInv'
<1>0. sale \in [Cases -> SaleRow] /\ \A c \in Cases : sale[c] \in SaleRow BY DEF BackInv, MoneyInv, MoneyTypes
<1>1. ASSUME NEW c \in Cases, NEW s \in SaleStatus
      PROVE  /\ [sale[c] EXCEPT !.status = s] \in SaleRow
             /\ [sale[c] EXCEPT !.status = s].status = s /\ [sale[c] EXCEPT !.status = s].amount = sale[c].amount
             /\ [sale[c] EXCEPT !.status = s].res = sale[c].res /\ [sale[c] EXCEPT !.status = s].receipt = sale[c].receipt
 BY <1>0 DEF SaleRow
<1>2. ASSUME NEW c \in Cases, NEW s \in SaleStatus, SetSale(c, s), onlySale,
             sale[c].status \notin {"refund_processing", "completed"},
             s \notin {"refund_processing", "completed"}
      PROVE  BackInv'
 <2>1. PICK row \in SaleRow : row = [sale[c] EXCEPT !.status = s] /\ row.status = s BY <1>1
 <2>2. sale' = [sale EXCEPT ![c] = row] BY <1>0, <1>2, <2>1 DEF SetSale
 <2> QED BY <1>2, <2>1, <2>2, SaleMoves
<1>3. ASSUME NEW c \in Cases, CreateSale(c) PROVE BackInv'
 <2>1. PICK res \in Resolutions, s \in Reviewable :
          /\ sale' = [sale EXCEPT ![c] = [NoSale EXCEPT !.status = s, !.res = res, !.amount = 1]]
          /\ onlySale /\ sale[c].status = "none"
  BY <1>3 DEF CreateSale
 <2>2. PICK row : row = [NoSale EXCEPT !.status = s, !.res = res, !.amount = 1] OBVIOUS
 <2>3. row \in SaleRow /\ row.status = s BY <2>2 DEF NoSale, SaleRow, SaleStatus, Reviewable
 <2>4. s \notin {"refund_processing", "completed"} BY DEF Reviewable
 <2> QED BY <2>1, <2>2, <2>3, <2>4, SaleMoves
<1>4. ASSUME NEW c \in Cases, AddEvidence(c) \/ Withdraw(c) \/ Review(c) PROVE BackInv'
 <2>1. \E s \in {"submitted", "withdrawn", "rejected", "evidence_required", "platform_reviewing"} : SetSale(c, s)
  BY <1>4 DEF AddEvidence, Withdraw, Review
 <2>2. onlySale /\ sale[c].status \notin {"refund_processing", "completed"}
  BY <1>4 DEF AddEvidence, Withdraw, Review, Reviewable
 <2> QED BY <1>2, <2>1, <2>2 DEF SaleStatus
<1>5. ASSUME NEW c \in Cases, Appeal(c) PROVE BackInv'
 <2>1. PICK row : row = [sale[c] EXCEPT !.status = "platform_reviewing", !.appealed = TRUE] OBVIOUS
 <2>2. row \in SaleRow /\ row.status = "platform_reviewing" BY <1>0, <2>1 DEF SaleRow, SaleStatus
 <2>3. sale' = [sale EXCEPT ![c] = row] /\ onlySale /\ sale[c].status = "rejected"
  BY <1>0, <1>5, <2>1 DEF Appeal
 <2> QED BY <2>2, <2>3, SaleMoves
<1>6. ASSUME NEW c \in Cases, ReserveReplacement(c) PROVE BackInv'
 <2>1. PICK row : row = [sale[c] EXCEPT !.receipt = TRUE] OBVIOUS
 <2>2. row \in SaleRow /\ row.status = sale[c].status BY <1>0, <2>1 DEF SaleRow
 <2>3. sale' = [sale EXCEPT ![c] = row] /\ onlySale /\ sale[c].status = "replacement_processing"
  BY <1>0, <1>6, <2>1 DEF ReserveReplacement
 <2> QED BY <2>2, <2>3, SaleMoves
<1>7. ASSUME NEW c \in Cases, Approve(c) PROVE BackInv'
 <2>0. sale[c].status \notin {"refund_processing", "completed"} /\ UNCHANGED <<dvars, ret, inc>> /\ keepRefund
  BY <1>7 DEF Approve, Reviewable
 <2>1. CASE /\ sale[c].res = "refund_only" /\ Refundable(sale[c].amount)
            /\ SetSale(c, "refund_processing") /\ rf' = [rf EXCEPT ![c][1] = NewRefund]
  <3>0. "refund_processing" \in SaleStatus /\ sale[c].res = "refund_only" BY <2>1 DEF SaleStatus
  <3>1. PICK row : row = [sale[c] EXCEPT !.status = "refund_processing"] OBVIOUS
  <3>a. /\ row \in SaleRow /\ row.status = "refund_processing" /\ row.amount = sale[c].amount
        /\ row.res = "refund_only"
   BY <1>1, <3>0, <3>1
  <3>2. sale' = [sale EXCEPT ![c] = row] BY <1>0, <2>1, <3>1 DEF SetSale
  <3> QED BY <2>0, <2>1, <3>a, <3>2, SaleRefunds
 <2>2. CASE UNCHANGED rf /\ \E s \in {"waiting_return", "replacement_processing", "compensation_processing"} : SetSale(c, s)
  <3>1. onlySale BY <2>0, <2>2 DEF onlySale
  <3> QED BY <1>2, <2>0, <2>2, <3>1 DEF SaleStatus
 <2> QED BY <1>7, <2>1, <2>2 DEF Approve
<1>8. ASSUME NEW c \in Cases, ReceiveReturn(c) PROVE BackInv'
 <2>0. sale[c].status = "waiting_return" /\ UNCHANGED <<dvars, ret, inc>> /\ keepRefund
  BY <1>8 DEF ReceiveReturn
 <2>1. ASSUME NEW s \in {"refund_processing", "platform_reviewing"}
       PROVE  LET row == [sale[c] EXCEPT !.status = s, !.receipt = TRUE] IN
              /\ row \in SaleRow /\ row.status = s /\ row.receipt = TRUE /\ row.amount = sale[c].amount
              /\ [sale EXCEPT ![c].status = s, ![c].receipt = TRUE] = [sale EXCEPT ![c] = row]
  BY <1>0 DEF SaleRow, SaleStatus
 <2>2. CASE /\ Refundable(sale[c].amount) /\ rf' = [rf EXCEPT ![c][1] = NewRefund]
            /\ sale' = [sale EXCEPT ![c].status = "refund_processing", ![c].receipt = TRUE]
  <3>1. PICK row \in SaleRow : /\ sale' = [sale EXCEPT ![c] = row] /\ row.status = "refund_processing"
                               /\ row.receipt = TRUE /\ row.amount = sale[c].amount
   BY <2>1, <2>2
  <3> QED BY <2>0, <2>2, <3>1, SaleRefunds
 <2>3. CASE /\ UNCHANGED rf /\ sale' = [sale EXCEPT ![c].status = "platform_reviewing", ![c].receipt = TRUE]
  <3>1. PICK row \in SaleRow : sale' = [sale EXCEPT ![c] = row] /\ row.status = "platform_reviewing"
   BY <2>1, <2>3
  <3>2. onlySale BY <2>0, <2>3 DEF onlySale
  <3> QED BY <2>0, <3>1, <3>2, SaleMoves
 <2> QED BY <1>8, <2>2, <2>3 DEF ReceiveReturn
<1> QED BY <1>3, <1>4, <1>5, <1>6, <1>7, <1>8 DEF SaleStep

----------------------------------------
(* The steps of the return, and of the delivery on the way. *)

\* A step of the return alone.
LEMMA ReturnOnly ==
    ASSUME BackInv, UNCHANGED <<dvars, sale, rf>>, keepRefund, ret' = ret \/ ReturnInv'
    PROVE  BackInv'
<1>0. MoneyInv /\ Calls /\ DeliveryOK /\ CodeUnused BY DEF BackInv
<1>1. UNCHANGED <<paid, refunded, rf, prov, inflight, refunder, desk, dlv, vmode, carrier, code, order, sale>>
 BY DEF keepRefund, dvars
<1>2. MoneyInv' /\ RowsStay /\ ProvStays BY <1>0, <1>1, MoneyKept
<1>3. DeliveryOK' /\ CodeUnused' /\ order'.delivery = order.delivery BY <1>0, <1>1, CodesVoid
<1>4. Calls' BY <1>0, <1>1, <1>2, CallsKept
<1>5. ReturnInv' BY <1>1, <1>3, ReturnKept
<1> QED BY <1>2, <1>3, <1>4, <1>5 DEF BackInv

\* The return moves on, with its case and receipt.
LEMMA ReturnRowMoves ==
    ASSUME BackInv, UNCHANGED <<dvars, sale, rf>>, keepRefund, ret' \in ReturnRow,
           ret'.case = ret.case, ret'.receipt = ret.receipt,
           \/ ret'.status = ret.status
           \/ /\ ret.case # 0 /\ ret'.status \notin {"none", "requested"}
              /\ ret'.status = "closed" => ret.receipt /\ refunded = paid
    PROVE  BackInv'
<1>0. MoneyTypes /\ ReturnInv BY DEF BackInv, MoneyInv
<1>1. UNCHANGED <<paid, refunded, rf, dlv, order, sale>> BY DEF keepRefund, dvars
<1>2. ret.case # 0 => /\ sale'[ret.case].amount = sale[ret.case].amount
                      /\ sale'[ret.case].status \in {"refund_processing", "completed"}
 BY <1>0, <1>1 DEF ReturnInv
<1>3. ReturnInv' BY <1>0, <1>1, <1>2, ReturnMoves
<1> QED BY <1>3, ReturnOnly

\* Request, arrival, refused handoffs, deadlines and the closing of a return.
LEMMA ReturnSteps ==
    ASSUME BackInv, \/ \E r \in Riders : CreateReturn(r) \/ Arrive(r)
                    \/ HandoffRejected \/ HandoffRunsOut \/ CloseReturn \/ SlaBreach
    PROVE  BackInv'
<1>0. ReturnInv /\ ret \in ReturnRow /\ MoneyInv BY DEF BackInv, ReturnInv
<1>1. ASSUME NEW r \in Riders, CreateReturn(r) PROVE BackInv'
 <2>1. PICK linked \in BOOLEAN : ret' = [NoReturn EXCEPT !.status = "requested", !.incident = linked]
  BY <1>1 DEF CreateReturn
 <2>2. ret' \in ReturnRow /\ ret'.status = "requested" /\ ret'.case = 0 /\ ret'.receipt = FALSE
  BY <2>1 DEF NoReturn, ReturnRow, ReturnStatus
 <2>3. UNCHANGED <<dvars, sale, rf>> /\ keepRefund /\ dlv.status = "delivering" BY <1>1 DEF CreateReturn
 <2>4. dlv' = dlv BY <2>3 DEF dvars
 <2>5. ReturnInv' BY <2>2, <2>3, <2>4 DEF ReturnInv, ReturnIsWhole
 <2> QED BY <2>3, <2>5, ReturnOnly
<1>2. ASSUME NEW r \in Riders, Arrive(r) PROVE BackInv'
 <2>1. /\ UNCHANGED <<dvars, sale, rf>> /\ keepRefund /\ ret.status \in {"returning", "arrived"}
       /\ ret' = [ret EXCEPT !.status = "arrived", !.code = "active", !.tries = 0]
  BY <1>2 DEF Arrive
 <2>2. ret' \in ReturnRow /\ ret'.status = "arrived" /\ ret'.case = ret.case /\ ret'.receipt = ret.receipt
  BY <1>0, <2>1 DEF ReturnRow, ReturnStatus
 <2>3. ret.case # 0 BY <1>0, <2>1 DEF ReturnInv
 <2> QED BY <2>1, <2>2, <2>3, ReturnRowMoves
<1>3. CASE HandoffRejected
 <2>1. UNCHANGED <<dvars, sale, rf>> /\ keepRefund /\ ret.tries \in Nat
  BY <1>0, <1>3 DEF HandoffRejected, ReturnRow
 <2>2. PICK n \in Nat : n = ret.tries + 1 BY <2>1
 <2>3. ret' = [ret EXCEPT !.tries = n] BY <1>3, <2>2 DEF HandoffRejected
 <2>4. ret' \in ReturnRow /\ ret'.status = ret.status /\ ret'.case = ret.case /\ ret'.receipt = ret.receipt
  BY <1>0, <2>3 DEF ReturnRow
 <2> QED BY <2>1, <2>4, ReturnRowMoves
<1>4. CASE HandoffRunsOut
 <2>1. UNCHANGED <<dvars, sale, rf>> /\ keepRefund /\ ret' = [ret EXCEPT !.code = "late"]
  BY <1>4 DEF HandoffRunsOut
 <2>2. ret' \in ReturnRow /\ ret'.status = ret.status /\ ret'.case = ret.case /\ ret'.receipt = ret.receipt
  BY <1>0, <2>1 DEF ReturnRow
 <2> QED BY <2>1, <2>2, ReturnRowMoves
<1>5. CASE CloseReturn
 <2>1. /\ UNCHANGED <<dvars, sale, rf>> /\ keepRefund /\ ret.case \in Cases
       /\ ret' = TryClose(ret, LatestRefund(ret.case) = "succeeded")
  BY <1>5 DEF CloseReturn
 <2>2. /\ ret' \in ReturnRow /\ ret'.case = ret.case /\ ret'.receipt = ret.receipt
       /\ \/ ret'.status = ret.status
          \/ ret'.status = "closed" /\ ret.receipt /\ LatestRefund(ret.case) = "succeeded"
  BY <1>0, <2>1, TryCloseFacts
 <2>3. ret.case # 0 BY <2>1, RefundAssumption
 <2>4. LatestRefund(ret.case) = "succeeded" => refunded = paid BY <1>0, <2>1, <2>3, PaidBack DEF ReturnInv
 <2> QED BY <2>1, <2>2, <2>3, <2>4, ReturnRowMoves
<1>6. CASE SlaBreach
 <2>1. /\ UNCHANGED <<dvars, sale, rf>> /\ keepRefund /\ ret.status \in {"returning", "arrived"}
       /\ ret' = [ret EXCEPT !.status = "exception"]
  BY <1>6 DEF SlaBreach
 <2>2. ret' \in ReturnRow /\ ret'.status = "exception" /\ ret'.case = ret.case /\ ret'.receipt = ret.receipt
  BY <1>0, <2>1 DEF ReturnRow, ReturnStatus
 <2>3. ret.case # 0 BY <1>0, <2>1 DEF ReturnInv
 <2> QED BY <2>1, <2>2, <2>3, ReturnRowMoves
<1> QED BY <1>1, <1>2, <1>3, <1>4, <1>5, <1>6

\* approveReturnLocked: nothing was paid or promised before, so all of it can be.
LEMMA ApproveLockedInv ==
    ASSUME BackInv, NEW request \in ReturnRow, request.receipt = FALSE, ApproveLocked(request), keepRefund,
           ~SystemCaseConflicts, dlv.status = "delivering"
    PROVE  BackInv'
<1>0. /\ MoneyInv /\ Calls /\ DeliveryOK /\ sale \in [Cases -> SaleRow] /\ paid \in Nat /\ refunded \in Nat
      /\ 1 \in Rows /\ code \in CodeRows
 BY DEF BackInv, MoneyInv, MoneyTypes, Rows, DeliveryOK
<1>1. PICK c \in FirstFree :
        /\ sale' = [sale EXCEPT ![c] = [NoSale EXCEPT !.status = "refund_processing",
                                             !.res = "refund_only", !.amount = paid]]
        /\ rf' = [rf EXCEPT ![c][1] = NewRefund] /\ ret' = [request EXCEPT !.status = "returning", !.case = c]
        /\ dlv' = [dlv EXCEPT !.status = "returning"] /\ code' = Invalidate(code)
        /\ order' = [order EXCEPT !.status = "refunding", !.delivery = "returning"] /\ UNCHANGED <<vmode, carrier>>
 BY DEF ApproveLocked
<1>2. c \in Cases /\ sale[c].status = "none" /\ c # 0 BY RefundAssumption DEF FirstFree
<1>3. UNCHANGED <<paid, refunded, prov, inflight, refunder, desk>> BY DEF keepRefund
<1>4. PICK row : row = [NoSale EXCEPT !.status = "refund_processing", !.res = "refund_only", !.amount = paid]
 OBVIOUS
<1>5. row \in SaleRow /\ row.status = "refund_processing" /\ row.res = "refund_only" /\ row.amount = paid
 BY <1>0, <1>4 DEF NoSale, SaleRow, SaleStatus, Resolutions
<1>6. sale' \in [Cases -> SaleRow] /\ sale'[c] = row /\ \A d \in Cases : d # c => sale'[d] = sale[d]
 BY <1>0, <1>1, <1>2, <1>4, <1>5
<1>7. rf[c][1].status = "none" BY <1>0, <1>2 DEF MoneyInv, MoneyHasReason
<1>8. PICK n \in Nat, m \in Nat : n = SumFunctionOnSet(RefundAmounts, Potential) /\ m = Reserved({}) /\ n <= m
 BY <1>0, PotentialReserved
<1>9. refunded = 0 /\ m = 0 BY <1>0, <1>8 DEF SystemCaseConflicts
<1>10. refunded + n + paid <= paid BY <1>0, <1>8, <1>9
<1>11. MoneyInv' /\ RowsStay /\ ProvStays
 <2>1. /\ sale'[c].status = "refund_processing"
       /\ sale'[c].res = "return_and_refund" => sale'[c].receipt
       /\ refunded + SumFunctionOnSet(RefundAmounts, Potential) + sale'[c].amount <= paid
       /\ UNCHANGED <<paid, refunded, prov, inflight>>
  BY <1>3, <1>5, <1>6, <1>8, <1>10
 <2>2. PICK k \in Rows : k = 1 /\ k # 2 BY DEF Rows
 <2>3. rf' = [rf EXCEPT ![c][k] = NewRefund] /\ rf[c][k].status = "none" BY <1>1, <1>7, <2>2
 <2>4. MoneyInv /\ c \in Cases BY <1>0, <1>2
 <2> QED BY <1>6, <2>1, <2>2, <2>3, <2>4, NewRow, Zenon
<1>12. Calls' BY <1>0, <1>3, <1>11, CallsKept
<1>13. code' \in CodeRows
 <2>1. Stages \in SUBSET Stages OBVIOUS
 <2> QED BY <1>0, <1>1, <2>1, InvalidateFacts DEF Invalidate
<1>14. code' \in [Stages -> [status : CodeStatus, tries : 0..MaxTries]] BY <1>13 DEF CodeRows, CodeRow
<1>15. dlv'.status = "returning" /\ order'.delivery = "returning" BY <1>0, <1>1 DEF DeliveryOK, DeliveryTypeOK
<1>16. DeliveryOK' BY <1>0, <1>1, <1>13, <1>14 DEF DeliveryOK, DeliveryTypeOK, OrderStatus, DeliveryStatus
<1>17. CodeUnused' BY <1>15 DEF CodeUnused
<1>18. ret' \in ReturnRow /\ ret'.status = "returning" /\ ret'.case = c /\ ret'.receipt = FALSE
 BY <1>1, <1>2 DEF ReturnRow, ReturnStatus
<1>19. ReturnInv' BY <1>2, <1>3, <1>5, <1>6, <1>15, <1>18 DEF ReturnInv, ReturnIsWhole
<1> QED BY <1>11, <1>12, <1>16, <1>17, <1>19 DEF BackInv

\* Approve, and an incident that ends in a return.
LEMMA ApprovalsInv == ASSUME BackInv, ApproveReturn \/ ResolveByReturn PROVE BackInv'
<1>0. ReturnInv /\ ret \in ReturnRow BY DEF BackInv, ReturnInv
<1>1. ret.status \in {"none", "requested"} => ret.case = 0 /\ ret.receipt = FALSE
 BY <1>0 DEF ReturnInv, ReturnRow
<1>2. CASE ApproveReturn
 <2>1. ret.status = "requested" /\ dlv.status = "delivering" /\ keepRefund BY <1>2 DEF ApproveReturn
 <2>2. CASE ~SystemCaseConflicts /\ ApproveLocked(ret)
  BY <1>0, <1>1, <2>1, <2>2, ApproveLockedInv
 <2>3. CASE ret' = [ret EXCEPT !.status = "disputed"] /\ UNCHANGED <<dvars, sale, rf>>
  <3>1. ret' \in ReturnRow /\ ret'.status = "disputed" /\ ret'.case = 0 /\ ret'.receipt = FALSE
   BY <1>0, <1>1, <2>1, <2>3 DEF ReturnRow, ReturnStatus
  <3>2. dlv' = dlv BY <2>3 DEF dvars
  <3>3. ReturnInv' BY <2>1, <3>1, <3>2 DEF ReturnInv, ReturnIsWhole
  <3> QED BY <2>1, <2>3, <3>3, ReturnOnly
 <2> QED BY <1>2, <2>2, <2>3 DEF ApproveReturn
<1>3. CASE ResolveByReturn
 <2>1. /\ ret.status \in {"none", "requested"} /\ dlv.status = "delivering" /\ ~SystemCaseConflicts /\ keepRefund
       /\ ApproveLocked(IF ret.status = "none" THEN [NoReturn EXCEPT !.incident = TRUE] ELSE ret)
  BY <1>3 DEF ResolveByReturn
 <2>2. [NoReturn EXCEPT !.incident = TRUE] \in ReturnRow /\ [NoReturn EXCEPT !.incident = TRUE].receipt = FALSE
  BY DEF NoReturn, ReturnRow, ReturnStatus
 <2>3. PICK request \in ReturnRow : request.receipt = FALSE /\ ApproveLocked(request)
  BY <1>0, <1>1, <2>1, <2>2
 <2> QED BY <2>1, <2>3, ApproveLockedInv
<1> QED BY <1>2, <1>3

\* The delivery, its order and its codes end, or turn.
LEMMA DeliveryTurns ==
    ASSUME BackInv, NEW s \in {"completed", "returned"}, NEW t \in OrderStatus,
           code' \in CodeRows, UNCHANGED <<vmode, carrier>>,
           dlv' = [dlv EXCEPT !.status = s],
           order' = [order EXCEPT !.status = t, !.delivery = s]
    PROVE  DeliveryOK' /\ CodeUnused' /\ dlv'.status = s /\ order'.delivery = s
<1>1. code' \in [Stages -> [status : CodeStatus, tries : 0..MaxTries]] BY DEF CodeRows, CodeRow
<1>2. dlv'.status = s /\ order'.delivery = s BY DEF BackInv, DeliveryOK, DeliveryTypeOK
<1>3. DeliveryOK' BY <1>1 DEF BackInv, DeliveryOK, DeliveryTypeOK, OrderStatus, DeliveryStatus
<1> QED BY <1>2, <1>3 DEF CodeUnused

LEMMA ReceiveInv == ASSUME BackInv, Receive PROVE BackInv'
<1>0. ReturnInv /\ ret \in ReturnRow /\ MoneyInv /\ Calls /\ code \in CodeRows
 BY DEF BackInv, ReturnInv, DeliveryOK
<1>1. ret.status \in {"arrived", "exception"} /\ UNCHANGED <<sale, rf, inc>> /\ keepRefund
 BY DEF Receive, Receivable
<1>2. ret.case # 0 /\ ret.case \in Cases BY <1>0, <1>1 DEF ReturnInv, ReturnRow
<1>3. CASE ret' = [ret EXCEPT !.status = "disputed"] /\ UNCHANGED dvars
 <2>1. ret' \in ReturnRow /\ ret'.status = "disputed" /\ ret'.case = ret.case /\ ret'.receipt = ret.receipt
  BY <1>0, <1>3 DEF ReturnRow, ReturnStatus
 <2>2. UNCHANGED <<dvars, sale, rf>> BY <1>1, <1>3
 <2> QED BY <1>1, <1>2, <2>1, <2>2, ReturnRowMoves
<1>4. ASSUME NEW booked, booked = [ret EXCEPT !.status = "received", !.receipt = TRUE], ~ret.receipt,
             ret' \in {booked, TryClose(booked, LatestRefund(ret.case) = "succeeded")},
             dlv' = [dlv EXCEPT !.status = "returned"], order' = [order EXCEPT !.delivery = "returned"],
             code' = Invalidate(code), UNCHANGED <<vmode, carrier>>
      PROVE  BackInv'
 <2>1. booked \in ReturnRow /\ booked.status = "received" /\ booked.case = ret.case /\ booked.receipt = TRUE
  BY <1>0, <1>4 DEF ReturnRow, ReturnStatus
 <2>2. LatestRefund(ret.case) = "succeeded" => refunded = paid BY <1>0, <1>2, PaidBack DEF ReturnInv
 <2>3. /\ ret' \in ReturnRow /\ ret'.case = ret.case /\ ret'.receipt = TRUE
       /\ ret'.status = "received" \/ (ret'.status = "closed" /\ refunded = paid)
  <3>1. PICK done : done = TryClose(booked, LatestRefund(ret.case) = "succeeded") OBVIOUS
  <3>2. /\ done \in ReturnRow /\ done.case = ret.case /\ done.receipt = TRUE
        /\ done.status = "received" \/ (done.status = "closed" /\ refunded = paid)
   <4>1. PICK closed : closed = [booked EXCEPT !.status = "closed"] OBVIOUS
   <4>2. /\ closed \in ReturnRow /\ closed.case = booked.case /\ closed.receipt = booked.receipt
         /\ closed.status = "closed"
    BY <2>1, <4>1 DEF ReturnRow, ReturnStatus
   <4>3. (done = closed /\ LatestRefund(ret.case) = "succeeded") \/ done = booked
    BY <3>1, <4>1 DEF TryClose
   <4> QED BY <2>1, <2>2, <4>2, <4>3
  <3>3. ret' = booked \/ ret' = done BY <1>4, <3>1
  <3> QED BY <2>1, <3>2, <3>3
 <2>4. code' \in CodeRows
  <3>1. Stages \in SUBSET Stages OBVIOUS
  <3> QED BY <1>0, <1>4, <3>1, InvalidateFacts DEF Invalidate
 <2>5. PICK t \in OrderStatus : t = order.status BY DEF BackInv, DeliveryOK, DeliveryTypeOK
 <2>6. order' = [order EXCEPT !.status = t, !.delivery = "returned"]
  BY <1>4, <2>5 DEF BackInv, DeliveryOK, DeliveryTypeOK
 <2>7. DeliveryOK' /\ CodeUnused' /\ dlv'.status = "returned" /\ order'.delivery = "returned"
  BY <1>4, <2>4, <2>6, DeliveryTurns
 <2>8. UNCHANGED <<paid, refunded, rf, prov, inflight, refunder, desk, sale>> BY <1>1 DEF keepRefund
 <2>9. MoneyInv' /\ RowsStay /\ ProvStays BY <1>0, <2>8, MoneyKept
 <2>10. Calls' BY <1>0, <2>8, <2>9, CallsKept
 <2>11. ReturnInv' BY <1>0, <1>2, <2>3, <2>7, <2>8 DEF ReturnInv, ReturnIsWhole
 <2> QED BY <2>7, <2>9, <2>10, <2>11 DEF BackInv
<1> QED BY <1>3, <1>4 DEF Receive

\* Completed, with or without the code, and nothing is on its way back.
LEMMA CompletionInv ==
    ASSUME BackInv, \/ \E r \in Riders, e \in Entries : CompleteDelivery(r, e)
                    \/ ForceCompleteDelivery
    PROVE  BackInv'
<1>0. ReturnInv /\ ret \in ReturnRow /\ MoneyInv /\ Calls /\ code \in CodeRows /\ "delivery" \in Stages
 BY DEF BackInv, ReturnInv, DeliveryOK, Stages
<1>1. /\ ~ActiveReturn /\ UNCHANGED rvars /\ dlv.status = "delivering" /\ UNCHANGED <<vmode, carrier>>
      /\ dlv' = [dlv EXCEPT !.status = "completed"]
      /\ order' = [order EXCEPT !.status = "completed", !.delivery = "completed"]
 BY DEF CompleteDelivery, ForceCompleteDelivery, Complete, ForceComplete
<1>2. PICK c \in CodeRows : code' = InvalidateStages(c, Stages)
 <2>1. ASSUME NEW r \in Riders, NEW e \in Entries, CompleteDelivery(r, e)
       PROVE  \E c \in CodeRows : code' = InvalidateStages(c, Stages)
  <3>1. PICK row \in CodeRow : row = Tried(code["delivery"], e) BY <1>0, TriedFacts DEF CodeRows
  <3>2. PICK c : c = [code EXCEPT !["delivery"] = row] OBVIOUS
  <3>3. c \in CodeRows BY <1>0, <3>2 DEF CodeRows
  <3>4. code' = InvalidateStages(c, Stages)
   BY <1>0, <2>1, <3>1, <3>2 DEF CompleteDelivery, Complete, Invalidate
  <3> QED BY <3>3, <3>4
 <2>2. ASSUME ForceCompleteDelivery PROVE \E c \in CodeRows : code' = InvalidateStages(c, Stages)
  <3>1. PICK row : row = [code["delivery"] EXCEPT !.status = "overridden"] OBVIOUS
  <3>2. row \in CodeRow BY <1>0, <3>1 DEF CodeRows, CodeRow, CodeStatus
  <3>3. PICK c : c = [code EXCEPT !["delivery"] = row] OBVIOUS
  <3>4. c \in CodeRows BY <1>0, <3>2, <3>3 DEF CodeRows
  <3>5. code' = InvalidateStages(c, Stages) \/ code' = InvalidateStages(code, Stages)
   BY <1>0, <2>2, <3>1, <3>3 DEF ForceCompleteDelivery, ForceComplete, Invalidate, CodeRows
  <3> QED BY <1>0, <3>4, <3>5
 <2> QED BY <2>1, <2>2
<1>3. code' \in CodeRows
 <2>1. Stages \in SUBSET Stages OBVIOUS
 <2> QED BY <1>2, <2>1, InvalidateFacts
<1>4. DeliveryOK' /\ CodeUnused' /\ dlv'.status = "completed" /\ order'.delivery = "completed"
 <2>1. "completed" \in OrderStatus BY DEF OrderStatus
 <2> QED BY <1>1, <1>3, <2>1, DeliveryTurns
<1>5. UNCHANGED <<paid, refunded, rf, prov, inflight, refunder, desk, sale, ret>> BY <1>1 DEF rvars
<1>6. MoneyInv' /\ RowsStay /\ ProvStays BY <1>0, <1>5, MoneyKept
<1>7. Calls' BY <1>0, <1>5, <1>6, CallsKept
<1>8. ret.case = 0 /\ ret.status = "none" BY <1>0, <1>1 DEF ReturnInv, ReturnIsWhole, ActiveReturn
<1>9. ReturnInv' BY <1>0, <1>4, <1>5, <1>8 DEF ReturnInv, ReturnIsWhole
<1> QED BY <1>4, <1>6, <1>7, <1>9 DEF BackInv

\* A code is tried, runs out or is replaced.
LEMMA CodeBackInv ==
    ASSUME BackInv, UNCHANGED rvars,
           CodeStep \/ \E r \in Riders, e \in Entries : Refused(r, "delivery", e)
    PROVE  BackInv'
<1>0. /\ MoneyInv /\ Calls /\ ReturnInv /\ code \in CodeRows /\ "delivery" \in Stages
      /\ \A s \in Stages : code[s] \in CodeRow
 BY DEF BackInv, DeliveryOK, Stages, CodeRows
<1>1. PICK s \in Stages, row \in CodeRow :
         /\ code' = [code EXCEPT ![s] = row] /\ UNCHANGED <<order, dlv, vmode, carrier>>
         /\ row.status = "verified" => vmode # "enforce"
 <2>1. ASSUME NEW s \in Stages, Unlock(s)
       PROVE  \E row \in CodeRow : /\ code' = [code EXCEPT ![s] = row] /\ UNCHANGED <<order, dlv, vmode, carrier>>
                                   /\ row.status = "verified" => vmode # "enforce"
  <3>1. PICK row \in CodeRow : row = [status |-> "active", tries |-> 0] BY FreshCode
  <3>2. code' = [code EXCEPT ![s] = row] /\ UNCHANGED <<order, dlv, vmode, carrier>> /\ row.status = "active"
   BY <2>1, <3>1 DEF Unlock
  <3> QED BY <3>2
 <2>2. ASSUME NEW s \in Stages, CodeRunsOut(s)
       PROVE  \E row \in CodeRow : /\ code' = [code EXCEPT ![s] = row] /\ UNCHANGED <<order, dlv, vmode, carrier>>
                                   /\ row.status = "verified" => vmode # "enforce"
  <3>1. PICK row : row = [code[s] EXCEPT !.status = "late"] OBVIOUS
  <3>2. row \in CodeRow /\ row.status = "late" BY <1>0, <3>1 DEF CodeRow, CodeStatus
  <3>3. code' = [code EXCEPT ![s] = row] /\ UNCHANGED <<order, dlv, vmode, carrier>>
   BY <1>0, <2>2, <3>1 DEF CodeRunsOut, CodeRows
  <3> QED BY <3>2, <3>3
 <2>3. ASSUME NEW r \in Riders, NEW e \in Entries, Refused(r, "delivery", e)
       PROVE  \E row \in CodeRow : /\ code' = [code EXCEPT !["delivery"] = row]
                                   /\ UNCHANGED <<order, dlv, vmode, carrier>>
                                   /\ row.status = "verified" => vmode # "enforce"
  <3>1. PICK row \in CodeRow : row = Tried(code["delivery"], e) BY <1>0, TriedFacts
  <3>2. code' = [code EXCEPT !["delivery"] = row] /\ UNCHANGED <<order, dlv, vmode, carrier>>
   BY <1>0, <2>3, <3>1 DEF Refused
  <3>3. row.status = "verified" => vmode # "enforce" BY <1>0, <2>3, <3>1, TriedFacts DEF Refused, Passes
  <3> QED BY <3>2, <3>3
 <2> QED BY <1>0, <2>1, <2>2, <2>3 DEF CodeStep
<1>2. code' \in CodeRows /\ code'[s] = row /\ \A x \in Stages : x # s => code'[x] = code[x]
 BY <1>0, <1>1 DEF CodeRows
<1>3. code' \in [Stages -> [status : CodeStatus, tries : 0..MaxTries]] BY <1>2 DEF CodeRows, CodeRow
<1>4. DeliveryOK' BY <1>1, <1>2, <1>3 DEF BackInv, DeliveryOK, DeliveryTypeOK
<1>5. CodeUnused' BY <1>0, <1>1, <1>2 DEF BackInv, CodeUnused
<1>6. UNCHANGED <<paid, refunded, rf, prov, inflight, refunder, desk, sale, ret>> BY DEF rvars
<1>7. MoneyInv' /\ RowsStay /\ ProvStays BY <1>0, <1>6, MoneyKept
<1>8. Calls' BY <1>0, <1>6, <1>7, CallsKept
<1>9. ReturnInv' BY <1>1, <1>6, ReturnKept
<1> QED BY <1>4, <1>5, <1>7, <1>8, <1>9 DEF BackInv

\* Every step of the return keeps the invariant.
LEMMA ReturnStepInv == ASSUME BackInv, ReturnStep PROVE BackInv'
<1>1. ASSUME NEW r \in Riders, CreateReturn(r) \/ Arrive(r) PROVE BackInv' BY <1>1, ReturnSteps
<1>2. ASSUME NEW r \in Riders, ReportIncident(r) \/ AddIncidentEvidence(r) PROVE BackInv'
 <2>1. UNCHANGED <<dvars, sale, rf, ret>> /\ keepRefund
  BY <1>2 DEF ReportIncident, AddIncidentEvidence, keepAll
 <2> QED BY <2>1, ReturnOnly
<1>3. CASE ReviewIncident
 <2>1. UNCHANGED <<dvars, sale, rf, ret>> /\ keepRefund BY <1>3 DEF ReviewIncident, keepAll
 <2> QED BY <2>1, ReturnOnly
<1>4. ASSUME NEW r \in Riders, NEW e \in Entries, CompleteDelivery(r, e) PROVE BackInv' BY <1>4, CompletionInv
<1>5. ASSUME NEW r \in Riders, NEW e \in Entries, Refused(r, "delivery", e), UNCHANGED <<rvars, inc>> PROVE BackInv'
 BY <1>5, CodeBackInv
<1>6. CASE CodeStep /\ UNCHANGED <<rvars, inc>>
 BY <1>6, CodeBackInv
<1>7. CASE ForceCompleteDelivery
 BY <1>7, CompletionInv
<1>8. CASE ApproveReturn \/ ResolveByReturn
 BY <1>8, ApprovalsInv
<1>9. CASE Receive
 BY <1>9, ReceiveInv
<1>10. CASE HandoffRejected \/ HandoffRunsOut \/ CloseReturn \/ SlaBreach
 BY <1>10, ReturnSteps
<1> QED BY <1>1, <1>2, <1>3, <1>4, <1>5, <1>6, <1>7, <1>8, <1>9, <1>10 DEF ReturnStep

----------------------------------------
(* The whole. *)

\* The books are empty at first.
LEMMA MoneyInit ==
    ASSUME RefundInit, NothingToReturn, paid \in Nat \ {0}
    PROVE  MoneyInv /\ Calls /\ refunded = 0 /\ ret = NoReturn
<1>1. NoRow \in RefundRow /\ NoRow.status = "none" /\ NoRow.seen = "none" /\ NoRow.fresh = {}
 <2>1. PICK e \in SUBSET (Refunders \cup {"desk"}) : e = {} OBVIOUS
 <2>2. NoRow = [status |-> "none", seen |-> "none", why |-> "none", fresh |-> e, lease |-> "free"]
  BY <2>1 DEF NoRow
 <2>3. "none" \in RefundStatus /\ "none" \in Whys BY DEF RefundStatus, Whys, Results
 <2> QED BY <2>1, <2>2, <2>3 DEF RefundRow
<1>2. NoSale \in SaleRow /\ NoSale.status = "none" BY DEF NoSale, SaleRow, SaleStatus
<1>3. /\ \A c \in Cases, k \in Rows : rf[c][k] = NoRow /\ prov[c][k] = {}
      /\ \A c \in Cases : sale[c] = NoSale
      /\ inflight = {} /\ refunded = 0 /\ ret = NoReturn
 BY DEF RefundInit, NothingToReturn
<1>4. MoneyTypes
 <2>1. rf \in [Cases -> [Rows -> RefundRow]] BY <1>1 DEF RefundInit
 <2>2. prov \in [Cases -> [Rows -> SUBSET Answers]] BY DEF RefundInit
 <2>3. sale \in [Cases -> SaleRow] BY <1>2 DEF NothingToReturn
 <2> QED BY <1>3, <2>1, <2>2, <2>3 DEF MoneyTypes
<1>5. Ledger
 <2>1. Succeeded = {} /\ Potential = {} BY <1>1, <1>3 DEF Succeeded, Potential, ReservedRefund, ActiveRefund
 <2>2. SumFunctionOnSet(RefundAmounts, {}) = 0 BY SumEmpty
 <2> QED BY <1>3, <2>1, <2>2 DEF Ledger
<1>6. MoneyHasReason
 <2>1. 1 \in Rows /\ 2 \in Rows BY DEF Rows
 <2> QED BY <1>1, <1>2, <1>3, <2>1 DEF MoneyHasReason, LatestRefund
<1>7. \A c \in Cases : Replaced(c) /\ \A k \in Rows : RowAgrees(c, k)
 <2>1. 1 \in Rows /\ 2 \in Rows BY DEF Rows
 <2> QED BY <1>1, <1>3, <2>1 DEF Replaced, RowAgrees
<1>8. Calls
 <2>1. "none" \in RefundStatus /\ "none" \in Whys /\ "none" \in Results BY DEF RefundStatus, Whys, Results
 <2>2. NoCall \in CallRow /\ NoCall.pc = "idle" /\ NoDesk \in DeskRow
  BY <2>1 DEF NoCall, CallRow, NoDesk, DeskRow
 <2> QED BY <2>2 DEF Calls, RefundInit
<1> QED BY <1>3, <1>4, <1>5, <1>6, <1>7, <1>8 DEF MoneyInv

\* The row of a job that does not exist yet.
LEMMA NewJobRow ==
    NoJob \in JobRow /\ NoJob.status = "none" /\ NoJob.by = NobodyLeases /\ RoundOK(NoJob)
<1>1. NoJob \in JobRow BY PlainRows
<1>2. /\ NoJob.status = "none" /\ NoJob.by = NobodyLeases /\ NoJob.round = 0 /\ NoJob.cands = <<>>
 BY DEF NoJob
<1>3. Len(<<>>) = 0 OBVIOUS
<1>4. RoundOK(NoJob) BY <1>2, <1>3 DEF RoundOK
<1> QED BY <1>1, <1>2, <1>4

\* The search has not begun.
LEMMA SearchInit == ASSUME DispatchInit PROVE SearchInv
<1>1. NoJob \in JobRow /\ NoJob.status = "none" /\ NoJob.by = NobodyLeases /\ RoundOK(NoJob) BY NewJobRow
<1>2. /\ job \in [JobIds -> JobRow] /\ \A j \in JobIds : job[j] = NoJob
      /\ offer \in [JobIds -> [Riders -> OfferStatus]] /\ \A j \in JobIds, r \in Riders : offer[j][r] = "none"
      /\ assigned = <<>> /\ cur = 0
 BY <1>1 DEF DispatchInit, OfferStatus
<1>3. JobTypes
 <2>1. worker \in [DispatchWorkers -> LoopRow] /\ \A w \in DispatchWorkers : worker[w].pc = "idle"
  BY DispatchAssumption DEF DispatchInit, LoopRow
 <2>2. cur \in 0..MaxJobs /\ assigned \in Seq(AssignRow) BY <1>2, DispatchAssumption
 <2> QED BY <1>1, <1>2, <2>1, <2>2 DEF JobTypes
<1>4. DeliveryOK
 <2>1. NoCode \in CodeRow BY DeliveryAssumption DEF NoCode, CodeRow, CodeStatus
 <2>2. code \in CodeRows BY <2>1 DEF DispatchInit, CodeRows
 <2>3. code \in [Stages -> [status : CodeStatus, tries : 0..MaxTries]] BY <2>2 DEF CodeRows, CodeRow
 <2> QED BY <2>2, <2>3 DEF DispatchInit, DeliveryOK, DeliveryTypeOK, OrderStatus, DeliveryStatus
<1>5. LeasedIsDue BY <1>1, <1>2 DEF LeasedIsDue
<1>6. Phase BY <1>2 DEF Phase, DispatchInit
<1>7. LiveJobIsCurrent BY <1>1, <1>2 DEF LiveJobIsCurrent, LiveJob
<1>8. OneRider /\ GoodsWithCarrier BY <1>2 DEF OneRider, GoodsWithCarrier, DispatchInit
<1> QED BY <1>3, <1>4, <1>5, <1>6, <1>7, <1>8 DEF SearchInv

\* The other stretches start on the way, with the search over.
LEMMA WayInit ==
    ASSUME OnTheWay, dlv.rider = r1, ret = NoReturn,
           cur = 1, job = [j \in JobIds |-> IF j = 1 THEN Over("assigned") ELSE NoJob],
           offer = [j \in JobIds |-> [r \in Riders |-> "none"]],
           assigned = <<[rider |-> r1, status |-> "active"]>>,
           worker = [w \in DispatchWorkers |-> [pc |-> "idle", job |-> 0]]
    PROVE  DeliveryOK /\ ReturnInv /\ CodeUnused /\ JobTypes /\ JobsQuiet
<1>1. PICK r \in Riders :
         /\ dlv = [status |-> "delivering", rider |-> r, dispatch |-> "assigned", pickup |-> "ready"] /\ carrier = r
 BY DEF OnTheWay
<1>2. r1 \in Riders /\ dlv.status = "delivering" BY <1>1
<1>3. code \in CodeRows /\ (vmode = "enforce" => code["delivery"].status = "active")
 <2>1. CASE vmode = "off"
  <3>1. NoCode \in CodeRow BY DeliveryAssumption DEF NoCode, CodeRow, CodeStatus
  <3>2. code = [s \in Stages |-> NoCode] BY <2>1 DEF OnTheWay
  <3> QED BY <2>1, <3>1, <3>2 DEF CodeRows
 <2>2. CASE vmode # "off"
  <3>1. PICK row1 : row1 = [status |-> "verified", tries |-> 0] OBVIOUS
  <3>2. PICK row2 : row2 = [status |-> "active", tries |-> 0] OBVIOUS
  <3>3. row1 \in CodeRow /\ row2 \in CodeRow /\ row2.status = "active"
   BY <3>1, <3>2, DeliveryAssumption DEF CodeRow, CodeStatus
  <3>4. code = [s \in Stages |-> [status |-> IF s = "pickup" THEN "verified" ELSE "active",
                                  tries |-> 0]]
   BY <2>2 DEF OnTheWay
  <3>5. code = [s \in Stages |-> IF s = "pickup" THEN row1 ELSE row2] BY <3>1, <3>2, <3>4
  <3>6. code \in [Stages -> CodeRow] /\ code["delivery"] = row2 BY <3>3, <3>5 DEF Stages
  <3> QED BY <3>3, <3>6 DEF CodeRows
 <2> QED BY <2>1, <2>2
<1>4. DeliveryOK
 <2>1. code \in [Stages -> [status : CodeStatus, tries : 0..MaxTries]] BY <1>3 DEF CodeRows, CodeRow
 <2> QED BY <1>1, <1>3, <2>1 DEF OnTheWay, DeliveryOK, DeliveryTypeOK, OrderStatus, DeliveryStatus
<1>5. ReturnInv
 <2>1. /\ NoReturn \in ReturnRow /\ NoReturn.status = "none" /\ NoReturn.case = 0 /\ NoReturn.receipt = FALSE
  BY DEF NoReturn, ReturnRow, ReturnStatus
 <2> QED BY <1>2, <2>1 DEF ReturnInv, ReturnIsWhole
<1>6. CodeUnused BY <1>2, <1>3 DEF CodeUnused
<1>7. /\ "assigned" \in JobStatus /\ "none" \in JobStatus /\ "assigned" \notin LiveJob /\ "none" \notin LiveJob
 BY DEF JobStatus, LiveJob
<1>8. PICK done \in JobRow : done = Over("assigned") /\ done.status = "assigned" /\ RoundOK(done)
 BY <1>7, PlainRows
<1>9. NoJob \in JobRow /\ NoJob.status = "none" /\ RoundOK(NoJob) BY NewJobRow
<1>10. job = [j \in JobIds |-> IF j = 1 THEN done ELSE NoJob] BY <1>8
<1>11. job \in [JobIds -> JobRow] /\ \A j \in JobIds : job[j] = done \/ job[j] = NoJob BY <1>8, <1>9, <1>10
<1>12. offer \in [JobIds -> [Riders -> OfferStatus]] /\ \A j \in JobIds, x \in Riders : offer[j][x] = "none"
 BY DEF OfferStatus
<1>13. JobTypes
 <2>1. [rider |-> r1, status |-> "active"] \in AssignRow BY <1>2 DEF AssignRow
 <2>2. assigned \in Seq(AssignRow) BY <2>1
 <2>3. worker \in [DispatchWorkers -> LoopRow] /\ \A w \in DispatchWorkers : worker[w].pc = "idle"
  BY DispatchAssumption DEF LoopRow
 <2>4. cur \in 0..MaxJobs BY DispatchAssumption
 <2> QED BY <1>8, <1>9, <1>11, <1>12, <2>2, <2>3, <2>4 DEF JobTypes
<1>14. JobsQuiet BY <1>7, <1>8, <1>9, <1>11, <1>12 DEF JobsQuiet
<1> QED BY <1>4, <1>5, <1>6, <1>13, <1>14

----------------------------------------
(* The whole. *)

LEMMA FulfilInitInv == FulfilInit => FulfilInv
<1> SUFFICES ASSUME FulfilInit PROVE FulfilInv
 OBVIOUS
<1>1. RefundInit /\ NothingToReturn /\ paid \in Nat \ {0} BY DEF FulfilInit
<1>2. MoneyInv /\ Calls /\ refunded = 0 /\ ret = NoReturn BY <1>1, MoneyInit
<1>3. CASE side \in {"search", "handover"}
 <2>1. DispatchInit BY <1>3 DEF FulfilInit
 <2> QED BY <1>2, <1>3, <2>1, SearchInit DEF FulfilInv
<1>4. CASE side \in {"back", "refund", "claims"}
 <2>1. /\ OnTheWay /\ dlv.rider = r1
       /\ cur = 1 /\ job = [j \in JobIds |-> IF j = 1 THEN Over("assigned") ELSE NoJob]
       /\ offer = [j \in JobIds |-> [r \in Riders |-> "none"]]
       /\ assigned = <<[rider |-> r1, status |-> "active"]>>
       /\ worker = [w \in DispatchWorkers |-> [pc |-> "idle", job |-> 0]]
  BY <1>4 DEF FulfilInit
 <2>2. DeliveryOK /\ ReturnInv /\ CodeUnused /\ JobTypes /\ JobsQuiet BY <1>2, <2>1, WayInit, Zenon
 <2> QED BY <1>2, <1>4, <2>2 DEF FulfilInv, BackInv
<1>5. CASE side = "pickup"
 <2>1. DispatchInit /\ vmode = "enforce" /\ paid # 0 BY <1>1, <1>5 DEF FulfilInit
 <2>2. SearchInv BY <2>1, SearchInit
 <2>3. CodeUnused BY <2>1 DEF DispatchInit, CodeUnused, NoCode, Stages
 <2>4. ReturnInv
  <3>1. /\ NoReturn \in ReturnRow /\ NoReturn.status = "none" /\ NoReturn.case = 0 /\ NoReturn.receipt = FALSE
   BY DEF NoReturn, ReturnRow, ReturnStatus
  <3> QED BY <1>2, <2>2, <3>1 DEF ReturnInv, ReturnIsWhole, SearchInv, Phase
 <2> QED BY <1>2, <1>5, <2>1, <2>2, <2>3, <2>4 DEF FulfilInv, BackInv, SearchInv
<1>6. side \in {"search", "handover", "pickup", "back", "refund", "claims"} BY DEF FulfilInit
<1> QED BY <1>3, <1>4, <1>5, <1>6

\* Void codes are not usable.
LEMMA VoidCode ==
    ASSUME NEW c \in CodeRows PROVE \A s \in Stages : Invalidate(c)[s].status # "active"
BY InvalidateFacts DEF Invalidate

\* What dispatch and delivery do to the codes and to the delivery under enforce.
DispatchKeeps ==
    /\ CodeUnused' /\ vmode' = vmode
    /\ order.status \notin Unready =>
          /\ order'.status \notin Unready
          /\ code'["pickup"].status = "active" =>
                code["pickup"].status = "active" \/ Unlock("pickup") \/ \E r \in Riders : Reassign(r)
    /\ code'["delivery"].status = "active" =>
          \/ code["delivery"].status = "active" \/ Unlock("delivery")
          \/ dlv.status = "accepted" /\ code["pickup"].status = "active"
    /\ dlv'.status = "delivering" => dlv.status = "delivering" \/ code["pickup"].status = "active"
    /\ dlv'.status = "completed" => dlv.status = "completed" \/ code["delivery"].status = "active"

LEMMA DispatchCodes ==
    ASSUME SearchInv, CodeUnused, vmode = "enforce", DispatchNext PROVE DispatchKeeps
<1>0. /\ code \in [Stages -> CodeRow] /\ code \in CodeRows /\ "delivery" \in Stages /\ "pickup" \in Stages
      /\ code["delivery"] \in CodeRow /\ code["pickup"] \in CodeRow
 BY DEF SearchInv, DeliveryOK, CodeRows, Stages
<1>a. /\ \A x : [dlv EXCEPT !.status = x].status = x /\ [dlv EXCEPT !.dispatch = x].status = dlv.status
      /\ \A x : [order EXCEPT !.delivery = x].status = order.status
 BY DEF SearchInv, DeliveryOK, DeliveryTypeOK
<1>1. ASSUME UNCHANGED <<code, vmode>>, order'.status = order.status \/ order'.status \notin Unready,
             \/ dlv'.status = dlv.status \/ dlv'.status = "cancelled"
             \/ /\ dlv.status \in {"none", "pending_assign", "accepted"}
                /\ dlv'.status \in {"pending_assign", "accepted"}
      PROVE  DispatchKeeps
 BY <1>1 DEF DispatchKeeps, CodeUnused
<1>2. CASE UNCHANGED dvars
 BY <1>1, <1>2 DEF dvars
<1>3. ASSUME NEW j, ProcessJob(j) PROVE DispatchKeeps
 <2>1. UNCHANGED <<order, code, vmode>> /\ \E x : dlv' = [dlv EXCEPT !.dispatch = x]
  BY <1>3 DEF ProcessJob, StartJob, NextRound, GrabExpires, NextOfferOrFallback, OpenManual, OpenGrab,
              SetDispatch
 <2> QED BY <1>1, <1>a, <2>1
<1>4. ASSUME NEW w, RecordJobFailure(w) PROVE DispatchKeeps
 <2>1. UNCHANGED <<order, code, vmode>> /\ (dlv' = dlv \/ \E x : dlv' = [dlv EXCEPT !.dispatch = x])
  BY <1>4 DEF RecordJobFailure, OpenManual, SetDispatch
 <2> QED BY <1>1, <1>a, <2>1
<1>5. CASE EnsurePaidOrderTask \/ RetryJob \/ CancelScheduled
 <2>1. CASE EnsurePaidOrderTask
  <3>1. dlv.status = "none" /\ dlv'.status = "pending_assign" /\ UNCHANGED <<order, code, vmode>>
   BY <2>1 DEF EnsurePaidOrderTask, SearchInv, DeliveryOK, DeliveryTypeOK
  <3> QED BY <1>1, <3>1
 <2>2. CASE RetryJob
  BY <1>1, <1>a, <2>2 DEF RetryJob, SetDispatch
 <2>3. CASE CancelScheduled
  <3>1. dlv'.status = "cancelled" /\ order'.status = "cancelled" /\ UNCHANGED <<code, vmode>>
   BY <2>3 DEF CancelScheduled, SearchInv, DeliveryOK, DeliveryTypeOK
  <3> QED BY <1>1, <3>1 DEF Unready
 <2> QED BY <1>5, <2>1, <2>2, <2>3
<1>6. ASSUME NEW r \in Riders, AcceptOffer(r) \/ Grab(r) \/ ManualAssign(r) \/ Reassign(r)
      PROVE  DispatchKeeps
 <2>1. /\ dlv.status \in {"pending_assign", "accepted"} /\ dlv'.status = "accepted"
       /\ order'.status = order.status /\ vmode' = vmode
  BY <1>6, <1>a DEF AcceptOffer, Grab, ManualAssign, Reassign, Assign, Assignable, SearchInv,
                    DeliveryOK, DeliveryTypeOK
 <2>2. CASE code' = code
  BY <1>1, <2>1, <2>2
 <2>3. CASE Reassign(r) /\ code' = InvalidateAndRegenerate(code)
  <3>0. PICK st \in SUBSET Stages : st = {"delivery"} BY <1>0
  <3>1. PICK c \in CodeRows : c["delivery"].status # "active" /\ code' = GenerateStage(c, "pickup", TRUE)
   BY <1>0, <2>3, <3>0, InvalidateFacts DEF InvalidateAndRegenerate
  <3>2. code'["delivery"] = c["delivery"] BY <1>0, <3>1, GenerateStageFacts
  <3>3. code'["pickup"].status = "active" BY <1>0, <3>1 DEF GenerateStage, CodeRows
  <3> QED BY <2>1, <2>3, <3>1, <3>2, <3>3 DEF DispatchKeeps, CodeUnused
 <2> QED BY <1>6, <2>2, <2>3 DEF AcceptOffer, Grab, ManualAssign, Reassign
<1>7. CASE ShopStep
 <2>1. CASE AcceptOrder \/ StartPreparingOrder
  <3>1. order.status \in Unready /\ UNCHANGED <<dlv, code, vmode>>
   BY <2>1 DEF AcceptOrder, StartPreparingOrder, StoreTransition, Unready
  <3> QED BY <3>1 DEF DispatchKeeps, CodeUnused
 <2>2. CASE PrepareOrder
  <3>1. /\ order.status \in Unready /\ dlv'.status = dlv.status /\ vmode' = vmode
        /\ code' = GenerateStage(code, "pickup", FALSE)
   BY <2>2 DEF PrepareOrder, Unready, SearchInv, DeliveryOK, DeliveryTypeOK
  <3>2. code'["delivery"] = code["delivery"] BY <1>0, <3>1, GenerateStageFacts
  <3>3. code'["pickup"].status = "verified" => code["pickup"].status = "verified"
   BY <1>0, <3>1, GenerateStageFacts
  <3> QED BY <3>1, <3>2, <3>3 DEF DispatchKeeps, CodeUnused
 <2> QED BY <1>7, <2>1, <2>2 DEF ShopStep
<1>8. ASSUME NEW s \in Stages, Unlock(s) \/ CodeRunsOut(s) PROVE DispatchKeeps
 <2>1. /\ UNCHANGED <<order, dlv, vmode>> /\ \A x \in Stages : x # s => code'[x] = code[x]
       /\ code'[s].status # "verified" /\ (code'[s].status = "active" => Unlock(s))
  BY <1>0, <1>8 DEF Unlock, CodeRunsOut, CodeRow
 <2> QED BY <1>0, <2>1 DEF DispatchKeeps, CodeUnused, Stages
<1>9. ASSUME NEW r \in Riders, NEW e \in Entries, Pickup(r, e) PROVE DispatchKeeps
 <2>1. /\ dlv.status = "accepted" /\ dlv'.status = "delivering" /\ order'.status = "delivering"
       /\ vmode' = vmode /\ Passes(code["pickup"], e)
  BY <1>9 DEF Pickup, SearchInv, DeliveryOK, DeliveryTypeOK
 <2>2. code["pickup"].status = "active" BY <2>1 DEF Passes, CodeUnused
 <2>3. PICK c \in CodeRows : code' = GenerateStage(c, "delivery", TRUE)
  <3>1. PICK row \in CodeRow : row = Tried(code["pickup"], e) BY <1>0, TriedFacts
  <3>2. [code EXCEPT !["pickup"] = row] \in CodeRows BY <1>0 DEF CodeRows
  <3> QED BY <1>9, <3>1, <3>2 DEF Pickup
 <2>4. code'["delivery"].status = "active" BY <1>0, <2>3 DEF GenerateStage, CodeRows
 <2> QED BY <2>1, <2>2, <2>4 DEF DispatchKeeps, CodeUnused, Unready
<1>10. ASSUME NEW r \in Riders, NEW e \in Entries, Complete(r, e) PROVE DispatchKeeps
 <2>1. /\ dlv.status = "delivering" /\ dlv'.status = "completed" /\ order'.status = "completed"
       /\ vmode' = vmode /\ Passes(code["delivery"], e)
  BY <1>10 DEF Complete, SearchInv, DeliveryOK, DeliveryTypeOK
 <2>2. code["delivery"].status = "active" BY <2>1 DEF Passes, CodeUnused
 <2>3. PICK c \in CodeRows : code' = Invalidate(c)
  <3>1. PICK row \in CodeRow : row = Tried(code["delivery"], e) BY <1>0, TriedFacts
  <3>2. [code EXCEPT !["delivery"] = row] \in CodeRows BY <1>0 DEF CodeRows
  <3> QED BY <1>10, <3>1, <3>2 DEF Complete
 <2>4. \A s \in Stages : code'[s].status # "active" BY <2>3, VoidCode
 <2> QED BY <1>0, <2>1, <2>2, <2>4 DEF DispatchKeeps, CodeUnused, Unready
<1>11. ASSUME NEW r \in Riders, NEW e \in Entries, NEW s \in Stages, Refused(r, s, e)
       PROVE  DispatchKeeps
 <2>1. /\ UNCHANGED <<order, dlv, vmode>> /\ code'[s] = Tried(code[s], e) /\ ~Passes(code[s], e)
       /\ \A x \in Stages : x # s => code'[x] = code[x]
  BY <1>0, <1>11 DEF Refused
 <2>2. code'[s].status = "active" => code[s].status = "active"
  <3>1. ASSUME NEW row \in CodeRow, row.status # "active" PROVE Tried(row, e).status # "active"
   BY <3>1 DEF Tried, CodeRow
  <3> QED BY <1>0, <2>1, <3>1
 <2>3. code'[s].status # "verified" BY <1>0, <2>1, TriedFacts DEF Passes
 <2> QED BY <1>0, <2>1, <2>2, <2>3 DEF DispatchKeeps, CodeUnused, Stages
<1>12. CASE DeliveryStep
 BY <1>7, <1>8, <1>9, <1>10, <1>11, <1>12 DEF DeliveryStep, CodeStep
<1>13. ASSUME NEW j \in JobIds, WakeUp(j) \/ GrabRunsOut(j) \/ LeaseRunsOut(j) PROVE DispatchKeeps
 BY <1>2, <1>3, <1>13 DEF WakeUp, GrabRunsOut, LeaseRunsOut
<1>14. ASSUME NEW w \in DispatchWorkers, RunJob(w) \/ JobFails(w) \/ RecordJobFailure(w) \/ WorkerDies(w)
       PROVE  DispatchKeeps
 BY <1>2, <1>3, <1>4, <1>14 DEF RunJob, JobFails, WorkerDies
<1>15. ASSUME NEW r \in Riders,
              RejectOffer(r) \/ UpdateWorkStatus(r) \/ Heartbeat(r) \/ RiderGoesStale(r)
              \/ (\E j \in JobIds : OfferRunsOut(j, r)) \/ \E w \in DispatchWorkers, j \in JobIds : Claim(w, j)
       PROVE  DispatchKeeps
 BY <1>2, <1>15 DEF RejectOffer, UpdateWorkStatus, Heartbeat, RiderGoesStale, OfferRunsOut, Claim
<1>16. ASSUME NEW w \in DispatchWorkers, NEW j \in JobIds, Claim(w, j) PROVE DispatchKeeps
 BY <1>2, <1>16 DEF Claim
<1> QED BY <1>5, <1>6, <1>12, <1>13, <1>14, <1>15, <1>16 DEF DispatchNext

\* What a step of a refund does to order, code and return.
RefundEffect ==
    /\ UNCHANGED <<dlv, vmode, carrier, paid>>
    /\ \/ UNCHANGED <<refunded, order, code>>
       \/ /\ order' = [order EXCEPT !.status = IF refunded' = paid THEN "refunded" ELSE "refunding"]
          /\ code' = IF refunded' = paid THEN Invalidate(code) ELSE code
    /\ ret.case = 0 => ret' = ret

LEMMA RefundEffects == ASSUME BackInv, RefundStep PROVE RefundEffect
<1>0. 0 \notin Cases BY RefundAssumption
<1>1. ASSUME NEW c \in Cases, NEW k, NEW answer, UNCHANGED <<dlv, vmode, carrier, paid>>,
             ApplyState(c, k, answer) \/ Mismatch(c, k)
      PROVE  RefundEffect
 BY <1>0, <1>1 DEF ApplyState, Mismatch, RefundMarked, RefundSucceeds, ReconcileRefund, RefundEffect
<1>2. ASSUME UNCHANGED <<dvars, paid, refunded, ret>> PROVE RefundEffect BY <1>2 DEF RefundEffect, dvars
<1>4. ASSUME NEW w \in Refunders, ApplyResult(w) PROVE RefundEffect
 <2>1. refunder[w].case \in Cases BY <1>4 DEF ApplyResult, BackInv, Calls, CallIsReal
 <2>2. UNCHANGED <<dlv, vmode, carrier, paid>> BY <1>4 DEF ApplyResult
 <2>3. UNCHANGED <<order, code, refunded, ret>> \/ \E k, answer : ApplyState(refunder[w].case, k, answer)
  BY <1>4 DEF ApplyResult
 <2> QED BY <1>1, <1>2, <2>1, <2>2, <2>3 DEF dvars
<1>5. ASSUME NEW c \in Cases, NEW k \in Rows, NEW event \in Answers \cup {"garbled"},
             ProcessCallback(c, k, event)
      PROVE  RefundEffect
 BY <1>1, <1>5 DEF ProcessCallback
<1>6. CASE RepairApplies
 <2>1. desk.case \in Cases BY <1>6 DEF RepairApplies, BackInv, Calls, CallIsReal
 <2>2. UNCHANGED <<dlv, vmode, carrier, paid>> BY <1>6 DEF RepairApplies
 <2>3. \/ UNCHANGED <<order, code, refunded, ret>>
       \/ \E k, answer : ApplyState(desk.case, k, answer)
       \/ \E k, seen : RefundMarked(desk.case, k, "submission_unknown", seen, "none")
  BY <1>6 DEF RepairApplies
 <2>4. ASSUME NEW k, NEW seen, RefundMarked(desk.case, k, "submission_unknown", seen, "none")
       PROVE  RefundEffect
  BY <1>0, <2>1, <2>2, <2>4 DEF RefundMarked, ReconcileRefund, RefundEffect
 <2> QED BY <1>1, <1>2, <2>1, <2>2, <2>3, <2>4 DEF dvars
<1>7. ASSUME NEW w \in Refunders,
             \/ QueryRefund(w) \/ SubmitRefund(w) \/ RefundCallFails(w) \/ RefunderDies(w)
             \/ \E c \in Cases, k \in Rows : ClaimRefund(w, c, k)
      PROVE  RefundEffect
 BY <1>2, <1>7 DEF QueryRefund, SubmitRefund, RefundCallFails, RefunderDies, ClaimRefund
<1>8. ASSUME NEW c \in Cases, RetryClosed(c) PROVE RefundEffect BY <1>2, <1>8 DEF RetryClosed, DeskWrite
<1>9. ASSUME NEW c \in Cases, NEW k \in Rows,
             \/ RefundLeaseRunsOut(c, k) \/ ProviderDecides(c, k) \/ LateSubmission(c, k)
             \/ RepairReads(c, k)
      PROVE  RefundEffect
 BY <1>2, <1>9 DEF RefundLeaseRunsOut, ProviderDecides, LateSubmission, RepairReads
<1>10. ASSUME NEW c \in Cases, NEW k \in Rows,
              RetryAlive(c, k) \/ Reconcile(c, k) \/ MarkException(c, k)
       PROVE  RefundEffect
 BY <1>2, <1>10 DEF RetryAlive, Reconcile, MarkException, DeskWrite
<1> QED BY <1>4, <1>5, <1>6, <1>7, <1>8, <1>9, <1>10 DEF RefundStep

\* What a case does, it does without the delivery.
LEMMA SaleEffects == ASSUME SaleStep PROVE UNCHANGED <<dvars, paid, refunded, ret>>
BY DEF SaleStep, CreateSale, AddEvidence, Withdraw, Appeal, Review, Approve, ReceiveReturn,
       ReserveReplacement, onlySale, keepRefund

\* Every step while the goods are at the shop and the money is asked back.
LEMMA PickupStepInv ==
    ASSUME SearchInv, BackInv, vmode = "enforce", ret = NoReturn,
           refunded = paid => order.status \notin Unready, PickupStep
    PROVE  /\ SearchInv' /\ BackInv' /\ vmode' = "enforce" /\ ret' = NoReturn
           /\ refunded' = paid' => order'.status \notin Unready
<1>0. NoReturn.case = 0 /\ NoReturn.status = "none" BY DEF NoReturn
<1>1. CASE ByHand /\ UNCHANGED <<rvars, inc>>
 <2>1. UNCHANGED <<paid, refunded, rf, sale, prov, inflight, refunder, desk, ret>> /\ DispatchNext
  BY <1>1 DEF rvars, ByHand
 <2>2. MoneyInv' /\ RowsStay /\ ProvStays BY <2>1, MoneyKept DEF BackInv
 <2>3. Calls' BY <2>1, <2>2, CallsKept DEF BackInv
 <2>4. SearchInv' /\ DispatchKeeps BY <2>1, SearchStepInv, DispatchCodes DEF BackInv
 <2>5. ReturnInv' BY <1>0, <2>1, <2>4 DEF BackInv, ReturnInv, ReturnIsWhole, SearchInv, Phase
 <2> QED BY <2>1, <2>2, <2>3, <2>4, <2>5 DEF BackInv, SearchInv, DispatchKeeps
<1>2. CASE SaleStep /\ UNCHANGED jvars
 <2>1. UNCHANGED <<dvars, paid, refunded, ret>> BY <1>2, SaleEffects
 <2>2. SearchInv' BY <1>2, <2>1, JobsKept DEF jvars
 <2> QED BY <1>2, <2>1, <2>2, SaleStepInv DEF dvars
<1>3. CASE RefundStep /\ UNCHANGED jvars
 <2>1. BackInv' /\ RefundEffect BY <1>3, RefundStepInv, RefundEffects
 <2>2. /\ UNCHANGED <<dlv, vmode, carrier, paid>> /\ ret' = ret /\ order'.delivery = order.delivery
       /\ order'.status \in {order.status, "refunding", "refunded"}
       /\ refunded' = refunded \/ order'.status \notin Unready
  BY <1>0, <2>1 DEF RefundEffect, BackInv, DeliveryOK, DeliveryTypeOK, Unready
 <2>3. \A s \in Stages : code[s].status = "verified" => code'[s].status = "verified"
  BY <2>1, InvalidateFacts DEF RefundEffect, Invalidate, BackInv, DeliveryOK
 <2>4. DeliveryOK' /\ UNCHANGED <<assigned, cur>> BY <1>3, <2>1 DEF BackInv, jvars
 <2>5. Phase' BY <2>2, <2>4 DEF SearchInv, Phase
 <2>6. OneRider' /\ GoodsWithCarrier' BY <2>2, <2>3, <2>4 DEF SearchInv, OneRider, GoodsWithCarrier, Stages
 <2>7. SearchInv' BY <1>3, <2>2, <2>4, <2>5, <2>6, JobsFrozen DEF Assignable
 <2>8. refunded' = paid' => order'.status \notin Unready BY <2>1, <2>2 DEF RefundEffect, Unready
 <2> QED BY <2>1, <2>2, <2>7, <2>8
<1>4. OneSale => SaleStep BY FulfilAssumption DEF OneSale, SaleStep
<1> QED BY <1>1, <1>2, <1>3, <1>4 DEF PickupStep

\* The search and the handover do not touch the money.
LEMMA EarlyStepInv ==
    ASSUME SearchInv, MoneyInv, Calls, ret = NoReturn, refunded = 0,
           DispatchNext \/ UNCHANGED <<dvars, jvars>>, UNCHANGED rvars
    PROVE  SearchInv' /\ MoneyInv' /\ Calls' /\ ret' = NoReturn /\ refunded' = 0
<1>1. UNCHANGED <<paid, refunded, rf, sale, prov, inflight, refunder, desk, ret>> BY DEF rvars
<1>2. MoneyInv' /\ RowsStay /\ ProvStays BY <1>1, MoneyKept
<1>3. Calls' BY <1>1, <1>2, CallsKept
<1>4. CASE DispatchNext
 BY <1>1, <1>2, <1>3, <1>4, SearchStepInv
<1>5. CASE UNCHANGED <<dvars, jvars>>
 <2>1. SearchInv' BY <1>5, JobsKept DEF jvars
 <2> QED BY <1>1, <1>2, <1>3, <2>1
<1> QED BY <1>4, <1>5

\* Once the goods are on the way dispatch has nothing to do.
LEMMA QuietJobs == ASSUME JobTypes, JobsQuiet, UNCHANGED jvars PROVE JobTypes' /\ JobsQuiet'
BY DEF JobTypes, JobsQuiet, jvars

\* Every step on the way, and on the way back.
LEMMA LateStepInv ==
    ASSUME BackInv, BackStep \/ OneRefundStep \/ ClaimStep
    PROVE  BackInv' /\ UNCHANGED jvars /\ side' = side
<1>1. CASE BackStep
 BY <1>1, ReturnStepInv, RefundStepInv DEF BackStep
<1>2. CASE OneRefundStep
 <2>1. 1 \in Cases BY FulfilAssumption
 <2>2. SaleStep \/ RefundStep BY <1>2, <2>1 DEF OneRefundStep, OneSale, SaleStep
 <2> QED BY <1>2, <2>2, SaleStepInv, RefundStepInv DEF OneRefundStep
<1>3. CASE ClaimStep
 <2>1. UNCHANGED jvars /\ side' = side BY <1>3 DEF ClaimStep
 <2>2. CASE SaleStep \/ RefundStep
  BY <2>1, <2>2, SaleStepInv, RefundStepInv
 <2>3. ASSUME NEW r \in Riders, CreateReturn(r) \/ \E e \in Entries : CompleteDelivery(r, e)
       PROVE  BackInv'
  BY <2>3, ReturnSteps, CompletionInv
 <2>4. CASE ForceCompleteDelivery \/ ApproveReturn
  BY <2>1, <2>4, CompletionInv, ApprovalsInv
 <2>5. CASE /\ CodeStep \/ \E r \in Riders : Refused(r, "delivery", "empty")
            /\ UNCHANGED <<rvars, inc>>
  <3>1. "empty" \in Entries BY DEF Entries
  <3> QED BY <2>1, <2>5, <3>1, CodeBackInv
 <2> QED BY <1>3, <2>1, <2>2, <2>3, <2>4, <2>5 DEF ClaimStep
<1> QED BY <1>1, <1>2, <1>3

\* Nothing happens.
LEMMA BackSame == ASSUME BackInv, UNCHANGED <<dvars, rvars>> PROVE BackInv'
<1>1. UNCHANGED <<paid, refunded, rf, sale, prov, inflight, refunder, desk, ret>> BY DEF rvars
<1>2. MoneyInv' /\ RowsStay /\ ProvStays BY <1>1, MoneyKept DEF BackInv
<1>3. Calls' BY <1>1, <1>2, CallsKept DEF BackInv
<1>4. DeliveryOK' /\ ReturnInv' /\ CodeUnused'
 BY <1>1 DEF BackInv, dvars, DeliveryOK, DeliveryTypeOK, ReturnInv, ReturnIsWhole, CodeUnused
<1> QED BY <1>2, <1>3, <1>4 DEF BackInv

LEMMA FulfilNextInv == FulfilInv /\ [FulfilNext]_all => FulfilInv'
<1> SUFFICES ASSUME FulfilInv, [FulfilNext]_all PROVE FulfilInv'
 OBVIOUS
<1>1. CASE side \in {"search", "handover"}
 <2>1. SearchInv /\ MoneyInv /\ Calls /\ ret = NoReturn /\ refunded = 0 BY <1>1 DEF FulfilInv
 <2>2. side' = side /\ (DispatchNext \/ UNCHANGED <<dvars, jvars>>) /\ UNCHANGED rvars
  BY <1>1 DEF FulfilNext, SearchStep, HandoverStep, ByHand, PickupStep, BackStep, OneRefundStep, ClaimStep, all
 <2>3. SearchInv' /\ MoneyInv' /\ Calls' /\ ret' = NoReturn /\ refunded' = 0 BY <2>1, <2>2, EarlyStepInv
 <2> QED BY <1>1, <2>2, <2>3 DEF FulfilInv
<1>3. CASE side = "pickup"
 <2>1. /\ SearchInv /\ BackInv /\ vmode = "enforce" /\ ret = NoReturn
       /\ refunded = paid => order.status \notin Unready
  BY <1>3 DEF FulfilInv
 <2>2. CASE PickupStep
  <3>1. side' = side BY <2>2 DEF PickupStep
  <3> QED BY <1>3, <2>1, <2>2, <3>1, PickupStepInv DEF FulfilInv
 <2>3. CASE UNCHANGED all
  <3>1. UNCHANGED <<dvars, rvars>> /\ UNCHANGED jvars /\ side' = side BY <2>3 DEF all
  <3>2. BackInv' /\ SearchInv' BY <2>1, <3>1, BackSame, JobsKept DEF jvars
  <3> QED BY <1>3, <2>1, <3>1, <3>2 DEF FulfilInv, dvars, rvars
 <2> QED BY <1>3, <2>2, <2>3 DEF FulfilNext, SearchStep, HandoverStep, BackStep, OneRefundStep, ClaimStep
<1>2. CASE side \in {"back", "refund", "claims"}
 <2>1. BackInv /\ JobTypes /\ JobsQuiet BY <1>2 DEF FulfilInv
 <2>2. CASE BackStep \/ OneRefundStep \/ ClaimStep
  <3>1. BackInv' /\ UNCHANGED jvars /\ side' = side BY <2>1, <2>2, LateStepInv
  <3>2. JobTypes' /\ JobsQuiet' BY <2>1, <3>1, QuietJobs
  <3> QED BY <1>2, <3>1, <3>2 DEF FulfilInv
 <2>3. CASE UNCHANGED all
  <3>1. UNCHANGED <<dvars, rvars>> /\ UNCHANGED jvars /\ side' = side BY <2>3 DEF all
  <3>2. BackInv' /\ JobTypes' /\ JobsQuiet' BY <2>1, <3>1, BackSame, QuietJobs
  <3> QED BY <1>2, <3>1, <3>2 DEF FulfilInv
 <2> QED BY <1>2, <2>2, <2>3 DEF FulfilNext, SearchStep, HandoverStep, PickupStep
<1> QED BY <1>1, <1>2, <1>3 DEF FulfilInv

\* The invariant holds of every behaviour.
LEMMA FulfilAlways == FulfilSpec => []FulfilInv
BY FulfilInitInv, FulfilNextInv, PTL DEF FulfilSpec

----------------------------------------
(* What follows. *)

\* The records of who delivers are well formed and agree, for any number of riders,
\* dispatch workers and jobs, whatever CommitAssignment, Reassign, RetryJob, the workers
\* and the cancellation do to them.
THEOREM RecordsAgreeAlways == FulfilSpec => []RecordsAgree
<1>1. FulfilInv => RecordsAgree
 <2> SUFFICES ASSUME FulfilInv PROVE RecordsAgree
  OBVIOUS
 <2>1. DeliveryOK /\ JobTypes BY DEF FulfilInv, SearchInv, BackInv
 <2>2. DispatchTypeOK
  <3>1. ASSUME NEW j \in JobIds
        PROVE  /\ job[j].status \in LiveJob \cup {"none", "manual_required", "assigned", "cancelled"}
               /\ job[j].round \in 0..Len(job[j].cands) /\ job[j].attempts \in 0..(DispatchAttempts - 1)
   <4>1. job[j] \in JobRow /\ RoundOK(job[j]) BY <2>1, <3>1 DEF JobTypes
   <4>2. job[j].cands \in Seq(Riders) /\ job[j].round \in Nat BY <4>1 DEF JobRow
   <4>3. Len(job[j].cands) \in Nat BY <4>2
   <4>4. job[j].round \in 0..Len(job[j].cands) BY <4>1, <4>2, <4>3 DEF RoundOK
   <4> QED BY <4>1, <4>4 DEF JobRow, JobStatus
  <3>2. \A i \in DOMAIN assigned : assigned[i].status \in {"active", "superseded", "cancelled"}
   <4>1. assigned \in Seq(AssignRow) BY <2>1 DEF JobTypes
   <4>2. \A i \in DOMAIN assigned : assigned[i] \in AssignRow BY <4>1
   <4> QED BY <4>2 DEF AssignRow
  <3> QED BY <2>1, <3>1, <3>2 DEF DispatchTypeOK, JobTypes, OfferStatus
 <2>3. LiveJobIsCurrent BY DEF FulfilInv, SearchInv, JobsQuiet, LiveJobIsCurrent
 <2>4. side \in {"search", "handover", "pickup"} => OneRider BY DEF FulfilInv, SearchInv
 <2> QED BY <2>1, <2>2, <2>3, <2>4 DEF RecordsAgree, DeliveryOK
<1> QED BY <1>1, FulfilAlways, PTL

\* The goods stay with the rider who took them over, codes included, through any number
\* of reassignments, unlocks, retries and cancellations (Pickup, CompleteWithCode, Reassign).
THEOREM HandoverKeptAlways == FulfilSpec => []HandoverKept
<1>1. FulfilInv => HandoverKept BY DEF FulfilInv, SearchInv, HandoverKept
<1> QED BY <1>1, FulfilAlways, PTL

\* No case is paid twice, no row claims an end the provider did not report, and the
\* ledger is the sum of the succeeded rows and within the payment, for any number of
\* cases and refund workers (createRefundTask, RetryClosed, applyState).
THEOREM RefundedOnceAlways == FulfilSpec => []RefundedOnce
<1>1. FulfilInv => MoneyInv BY DEF FulfilInv, BackInv
<1>2. MoneyInv => RefundedOnce
 <2> SUFFICES ASSUME MoneyInv PROVE RefundedOnce
  OBVIOUS
 <2>0. /\ \A c \in Cases : Replaced(c) /\ \A k \in Rows : RowAgrees(c, k)
       /\ Ledger /\ MoneyTypes /\ 1 \in Rows /\ 2 \in Rows
  BY DEF MoneyInv, Rows
 <2>1. ASSUME NEW c \in Cases PROVE ~("SUCCESS" \in prov[c][1] /\ "SUCCESS" \in prov[c][2])
  BY <2>0 DEF Replaced, RowAgrees
 <2>2. ASSUME NEW c \in Cases, NEW k \in Rows, NEW l \in Rows,
              "SUCCESS" \in prov[c][k], "SUCCESS" \in prov[c][l]
       PROVE  k = l
  BY <2>1, <2>2 DEF Rows
 <2>3. ASSUME NEW c \in Cases, NEW k \in Rows
       PROVE  /\ rf[c][k].status = "succeeded" => "SUCCESS" \in prov[c][k]
              /\ rf[c][k].status = "failed" => "CLOSED" \in prov[c][k]
  BY <2>0 DEF RowAgrees
 <2>4. refunded <= paid
  <3>1. PICK n \in Nat : n = SumFunctionOnSet(RefundAmounts, Potential)
   <4>1. PICK except : except = {} OBVIOUS
   <4>2. \A x \in except : x \notin Potential BY <4>1
   <4>3. SumFunctionOnSet(RefundAmounts, Potential) \in Nat BY <4>2, PotentialReserved
   <4> QED BY <4>3, Zenon
  <3> QED BY <2>0, <3>1 DEF Ledger, MoneyTypes
 <2>5. refunded = SumFunctionOnSet(RefundAmounts,
                     {x \in Cases \X Rows : rf[x[1]][x[2]].status = "succeeded"})
  BY <2>0 DEF Ledger, Succeeded
 <2> QED BY <2>2, <2>3, <2>4, <2>5 DEF RefundedOnce
<1> QED BY <1>1, <1>2, FulfilAlways, PTL

\* Goods and money come back together (approveReturnLocked, Receive,
\* TryCloseByAfterSaleWithTx, HasActiveLocked).
THEOREM ReturnIsWholeAlways == FulfilSpec => []ReturnIsWhole
<1>1. FulfilInv => ReturnIsWhole
 <2> SUFFICES ASSUME FulfilInv PROVE ReturnIsWhole
  OBVIOUS
 <2>1. CASE side \in {"search", "handover"}
  <3>1. ret = NoReturn /\ dlv.status \notin {"returning", "returned"}
   BY <2>1 DEF FulfilInv, SearchInv, Phase
  <3>2. ret.case = 0 /\ ret.status = "none" BY <3>1 DEF NoReturn
  <3> QED BY <3>1, <3>2 DEF ReturnIsWhole
 <2>2. CASE side \notin {"search", "handover"}
  BY <2>2 DEF FulfilInv, BackInv, ReturnInv
 <2> QED BY <2>1, <2>2
<1> QED BY <1>1, FulfilAlways, PTL

\* Money leaves only for a case that was approved and still stands, for returned goods
\* only after their receipt (approve, ReceiveReturn, customerTransition, applyState).
THEOREM MoneyHasReasonAlways == FulfilSpec => []MoneyHasReason
<1>1. FulfilInv => MoneyHasReason BY DEF FulfilInv, BackInv, MoneyInv
<1> QED BY <1>1, FulfilAlways, PTL

\* What a step on the way does to codes and delivery, as RefundedStaysWithShop wants it: a
\* code that is usable at the end was so, with the same money back, or is an
\* administrator's; and who completes the delivery has a usable code.
ShopKeeps ==
    /\ \A s \in Stages : code'[s].status = "active" =>
          \/ code[s].status = "active" /\ (refunded' = refunded \/ refunded' # paid)
          \/ Unlock(s)
    /\ dlv'.status = "delivering" => dlv.status = "delivering"
    /\ dlv'.status = "completed" => dlv.status = "completed" \/ code["delivery"].status = "active"

LEMMA RefundKeepsShop == ASSUME RefundStep, BackInv PROVE ShopKeeps
<1>1. RefundEffect /\ code \in CodeRows BY RefundEffects DEF BackInv, DeliveryOK
<1> QED BY <1>1, VoidCode DEF RefundEffect, ShopKeeps

LEMMA SaleKeepsShop == ASSUME SaleStep PROVE ShopKeeps
BY SaleEffects DEF ShopKeeps, dvars

\* The rider's completion needs the code.
LEMMA CompletionKeepsShop ==
    ASSUME BackInv, vmode = "enforce", NEW r \in Riders, NEW e \in Entries, CompleteDelivery(r, e)
    PROVE  ShopKeeps
<1>1. /\ dlv.status = "delivering" /\ Passes(code["delivery"], e)
      /\ code' = Invalidate([code EXCEPT !["delivery"] = Tried(@, e)])
 BY DEF CompleteDelivery, Complete
<1>2. code["delivery"].status = "active" BY <1>1 DEF BackInv, CodeUnused, Passes
<1>3. \A s \in Stages : code'[s].status # "active"
 <2>1. code \in [Stages -> CodeRow] /\ "delivery" \in Stages BY DEF BackInv, DeliveryOK, CodeRows, Stages
 <2>2. PICK row \in CodeRow : row = Tried(code["delivery"], e) BY <2>1, TriedFacts
 <2>3. code' = Invalidate([code EXCEPT !["delivery"] = row]) BY <1>1, <2>2
 <2>4. [code EXCEPT !["delivery"] = row] \in CodeRows BY <2>1 DEF CodeRows
 <2> QED BY <2>3, <2>4, VoidCode
<1>4. dlv'.status = "completed" BY DEF CompleteDelivery, Complete, BackInv, DeliveryOK, DeliveryTypeOK
<1> QED BY <1>2, <1>3, <1>4 DEF ShopKeeps

\* A code that is tried, runs out or is replaced.
LEMMA CodeKeepsShop ==
    ASSUME BackInv, refunded' = refunded,
           CodeStep \/ \E r \in Riders, e \in Entries : Refused(r, "delivery", e)
    PROVE  ShopKeeps
<1>0. /\ code \in [Stages -> CodeRow] /\ "delivery" \in Stages /\ "pickup" \in Stages
      /\ code["delivery"] \in CodeRow
 BY DEF BackInv, DeliveryOK, CodeRows, Stages
<1>1. dlv' = dlv BY DEF CodeStep, Unlock, CodeRunsOut, Refused
<1>2. ASSUME NEW s \in Stages, CodeRunsOut(s) \/ Unlock(s)
      PROVE  \A x \in Stages : code'[x].status = "active" => code[x].status = "active" \/ Unlock(x)
 BY <1>0, <1>2 DEF CodeRunsOut, Unlock
<1>3. ASSUME NEW r \in Riders, NEW e \in Entries, Refused(r, "delivery", e)
      PROVE  \A x \in Stages : code'[x].status = "active" => code[x].status = "active"
 <2>1. /\ code'["delivery"] = Tried(code["delivery"], e)
       /\ \A x \in Stages : x # "delivery" => code'[x] = code[x]
  BY <1>0, <1>3 DEF Refused
 <2>2. ASSUME NEW row \in CodeRow, row.status # "active"
       PROVE  Tried(row, e).status # "active"
  BY <2>2 DEF Tried, CodeRow
 <2> QED BY <1>0, <2>1, <2>2
<1> QED BY <1>1, <1>2, <1>3 DEF ShopKeeps, CodeStep

\* The other steps of a return leave the codes alone or make them void.
LEMMA ReturnKeepsShop ==
    ASSUME \/ \E r \in Riders : CreateReturn(r) \/ Arrive(r) \/ ReportIncident(r) \/ AddIncidentEvidence(r)
           \/ ApproveReturn \/ Receive \/ HandoffRejected \/ HandoffRunsOut \/ CloseReturn \/ SlaBreach
           \/ ReviewIncident \/ ResolveByReturn,
           DeliveryOK
    PROVE  ShopKeeps
<1>1. ASSUME UNCHANGED <<dvars, refunded>> PROVE ShopKeeps BY <1>1 DEF ShopKeeps, dvars
<1>2. ASSUME code' = Invalidate(code), dlv'.status \notin {"delivering", "completed"} PROVE ShopKeeps
 BY <1>2, VoidCode DEF ShopKeeps, DeliveryOK
<1>3. \A s : [dlv EXCEPT !.status = s].status = s BY DEF DeliveryOK, DeliveryTypeOK
<1>4. ASSUME NEW request, ApproveLocked(request) PROVE ShopKeeps BY <1>2, <1>3, <1>4 DEF ApproveLocked
<1>5. CASE ApproveReturn \/ ResolveByReturn
 BY <1>1, <1>4, <1>5 DEF ApproveReturn, ResolveByReturn, keepRefund
<1>6. CASE Receive
 BY <1>1, <1>2, <1>3, <1>6 DEF Receive, keepRefund
<1>7. ASSUME NEW r \in Riders, CreateReturn(r) \/ Arrive(r) \/ ReportIncident(r) \/ AddIncidentEvidence(r)
      PROVE  ShopKeeps
 BY <1>1, <1>7 DEF CreateReturn, Arrive, ReportIncident, AddIncidentEvidence, keepAll, keepRefund
<1>8. CASE HandoffRejected \/ HandoffRunsOut \/ CloseReturn \/ SlaBreach \/ ReviewIncident
 BY <1>1, <1>8 DEF HandoffRejected, HandoffRunsOut, CloseReturn, SlaBreach, ReviewIncident, keepAll, keepRefund
<1> QED BY <1>5, <1>6, <1>7, <1>8

\* After the full refund the goods stay where they are, before pickup and on the way, for
\* any number of riders, cases and refund workers: the codes are void with the refund, only
\* an administrator's Unlock or Reassign makes one usable, and no step but ForceComplete
\* moves the goods on without one (applyState, InvalidateByOrder, PickupWithCode,
\* CompleteWithCode).
THEOREM RefundedStays == FulfilSpec => RefundedStaysWithShop
<1> DEFINE P == vmode = "enforce" /\ refunded' = paid =>
                  /\ code'["pickup"].status = "active" =>
                        \/ refunded = paid /\ code["pickup"].status = "active"
                        \/ Unlock("pickup") \/ \E r \in Riders : Reassign(r)
                  /\ code'["delivery"].status = "active" =>
                        \/ refunded = paid /\ code["delivery"].status = "active"
                        \/ Unlock("delivery")
                        \/ refunded = paid /\ dlv.status = "accepted" /\ code["pickup"].status = "active"
                  /\ dlv'.status = "delivering" =>
                        dlv.status = "delivering" \/ code["pickup"].status = "active"
                  /\ dlv'.status = "completed" =>
                        dlv.status = "completed" \/ code["delivery"].status = "active" \/ ForceCompleteDelivery
<1>1. FulfilInv /\ FulfilInv' /\ [FulfilNext]_all => [P]_<<dvars, rvars, inc>>
 <2> SUFFICES ASSUME FulfilInv, FulfilInv', FulfilNext, vmode = "enforce", refunded' = paid
              PROVE  P
  BY DEF all
 <2>1. side \notin {"search", "handover"}
  <3>1. paid # 0 BY DEF FulfilInv, BackInv, MoneyInv, MoneyTypes
  <3>2. side' = side
   BY DEF FulfilNext, SearchStep, HandoverStep, PickupStep, BackStep, OneRefundStep, ClaimStep
  <3> QED BY <3>1, <3>2 DEF FulfilInv
 <2>2. BackInv /\ DeliveryOK /\ code \in CodeRows BY <2>1 DEF FulfilInv, BackInv, DeliveryOK
 <2>3. ASSUME ShopKeeps PROVE P BY <2>3 DEF ShopKeeps, Stages
 <2>0. ASSUME ForceCompleteDelivery PROVE P
  <3>1. dlv'.status = "completed" /\ code' = Invalidate(IF code["delivery"].status \in {"active", "late", "locked"}
           THEN [code EXCEPT !["delivery"].status = "overridden"] ELSE code)
   BY <2>0, <2>2 DEF ForceCompleteDelivery, ForceComplete, DeliveryOK, DeliveryTypeOK
  <3>2. PICK row : row = [code["delivery"] EXCEPT !.status = "overridden"] OBVIOUS
  <3>3. row \in CodeRow BY <2>2, <3>2 DEF CodeRows, CodeRow, CodeStatus, Stages
  <3>4. PICK c \in CodeRows : code' = Invalidate(c) BY <2>2, <3>1, <3>2, <3>3 DEF CodeRows
  <3> QED BY <2>0, <3>1, <3>4, VoidCode DEF Stages
 <2>4. CASE RefundStep \/ SaleStep
  BY <2>2, <2>3, <2>4, RefundKeepsShop, SaleKeepsShop
 <2>5. ASSUME NEW r \in Riders, NEW e \in Entries, CompleteDelivery(r, e) PROVE P
  BY <2>2, <2>3, <2>5, CompletionKeepsShop
 <2>6. CASE /\ CodeStep \/ \E r \in Riders, e \in Entries : Refused(r, "delivery", e)
            /\ UNCHANGED rvars
  BY <2>2, <2>3, <2>6, CodeKeepsShop DEF rvars
 <2>7. CASE \/ \E r \in Riders : CreateReturn(r) \/ Arrive(r) \/ ReportIncident(r) \/ AddIncidentEvidence(r)
            \/ ApproveReturn \/ Receive \/ HandoffRejected \/ HandoffRunsOut \/ CloseReturn \/ SlaBreach
            \/ ReviewIncident \/ ResolveByReturn
  BY <2>2, <2>3, <2>7, ReturnKeepsShop
 <2>8. CASE BackStep
  <3>1. ReturnStep \/ RefundStep BY <2>8 DEF BackStep
  <3> QED BY <2>0, <2>4, <2>5, <2>6, <2>7, <3>1 DEF ReturnStep
 <2>9. CASE OneRefundStep
  <3>1. SaleStep \/ RefundStep BY <2>9, FulfilAssumption DEF OneRefundStep, OneSale, SaleStep
  <3> QED BY <2>4, <3>1
 <2>10. CASE ClaimStep
  <3>1. "empty" \in Entries BY DEF Entries
  <3> QED BY <2>0, <2>4, <2>5, <2>6, <2>7, <2>10, <3>1 DEF ClaimStep
 <2>11. CASE PickupStep
  <3>1. SearchInv /\ CodeUnused /\ (refunded = paid => order.status \notin Unready)
   BY <2>11 DEF PickupStep, FulfilInv, BackInv
  <3>2. CASE ByHand /\ UNCHANGED <<rvars, inc>>
   <4>1. DispatchKeeps /\ refunded = paid BY <3>1, <3>2, DispatchCodes DEF ByHand, rvars
   <4> QED BY <3>1, <4>1 DEF DispatchKeeps
  <3>3. OneSale => SaleStep BY FulfilAssumption DEF OneSale, SaleStep
  <3> QED BY <2>4, <2>11, <3>2, <3>3 DEF PickupStep
 <2> QED BY <2>1, <2>8, <2>9, <2>10, <2>11 DEF FulfilNext, SearchStep, HandoverStep
<1>2. FulfilSpec => [][FulfilNext]_all BY DEF FulfilSpec
<1> QED BY <1>1, <1>2, FulfilAlways, PTL DEF RefundedStaysWithShop

=============================================================================

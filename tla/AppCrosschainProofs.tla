------------------------- MODULE AppCrosschainProofs -------------------------
(***************************************************************************)
(* A transfer counts as completed only for a mint of its own burn, and its *)
(* sender is told once: proofs about AppCrosschain for every set of        *)
(* operations, burns and relayer passes and every bound.                   *)
(***************************************************************************)
EXTENDS AppCrosschain, Integers, TLAPS

-----------------------------------------------------------------------------
(* The inductive invariant                                                 *)

Burns == Ops \cup Strangers
Early == {"none", "quoted", "pending_signature"}

Row == [status : Statuses, dir : {None, "outbound", "inbound"}, amountIn : Int, fee : Int,
        maxFee : Int, src : Burns \cup {None}, msg : BOOLEAN, dst : 0..MaxTx, attempts : Nat]
Tx == [burn : Burns \cup {None}, st : {"none", "pending", "success", "reverted", "dropped"}]
Pass == [pc : {"idle", "attest", "mint", "send", "record", "wait", "thrown", "failed"},
         o : Ops \cup {None}, row : Row, tx : 0..MaxTx]

TypeInv ==
    /\ row \in [Ops -> Row] /\ fate \in [Ops -> {"none", "burned", "failed"}]
    /\ tx \in [Txs -> Tx] /\ pass \in [Passes -> Pass] /\ pushes \in [Ops -> Nat]

\* What a transfer is does not change once its row exists.
SameTransfer(r, s) ==
    r.dir = s.dir /\ r.amountIn = s.amountIn /\ r.fee = s.fee /\ r.maxFee = s.maxFee

\* A transaction mints a burn.
Mints(t, b) == tx[t].burn = b /\ tx[t].st # "none"

\* A row that has its burn is past signing, an outbound one has the burn of its
\* own UserOperation, and a burn of ours was made for a row.
HasItsBurn(o, r) ==
    IF r.src = None THEN r.status \notin InFlight \cup {"completed"} /\ ~ r.msg /\ r.dst = 0
    ELSE /\ r.status \notin Early
         /\ r.dir = "outbound" => r.src = o
         /\ r.src \in Ops => row[r.src].status # "none"

\* A stored message is the transfer's, the transaction of the row mints its
\* burn, and what is completed was minted.
IsProved(r) ==
    /\ r.msg \/ r.status = "completed" => ValidateCctpMessage(r, r.src)
    /\ r.dst # 0 => Mints(r.dst, r.src)
    /\ r.status = "completed" => r.src \in minted

RowsOk == \A o \in Ops : HasItsBurn(o, row[o]) /\ IsProved(row[o])

\* A pass works for the transfer of its row, however old its copy, and comes to
\* the mint with a message that was compared with it.
PassOk(k) ==
    k.pc # "idle" =>
        /\ k.o \in Ops /\ k.row.src # None /\ k.row.src = row[k.o].src /\ SameTransfer(k.row, row[k.o])
        /\ k.row.dst # 0 => Mints(k.row.dst, k.row.src)
        /\ k.row.msg \/ k.pc \in {"mint", "send", "record", "wait", "thrown"} =>
             ValidateCctpMessage(k.row, k.row.src)
        /\ k.pc \in {"record", "wait"} => k.tx \in Txs /\ Mints(k.tx, k.row.src)
PassesOk == \A p \in Passes : PassOk(pass[p])

BurnsHaveRows == \A o \in Ops : fate[o] = "burned" => row[o].status # "none"
SuccessIsMinted == \A t \in Txs : tx[t].st = "success" => tx[t].burn \in minted
ToldOnce == \A o \in Ops : pushes[o] = 0 \/ (pushes[o] = 1 /\ row[o].status = "completed")

TransferInv ==
    TypeInv /\ RowsOk /\ PassesOk /\ BurnsHaveRows /\ SuccessIsMinted /\ ToldOnce

\* What no step takes back.
RowLasts(r, s) ==
    /\ r.status # "none" => s.status # "none" /\ SameTransfer(s, r)
    /\ r.src # None => s.src = r.src
    /\ r.status = "completed" => s.status = "completed"
Lasting ==
    /\ \A o \in Ops : RowLasts(row[o], row'[o])
    /\ minted \subseteq minted'
    /\ \A t \in Txs : tx[t].st # "none" => tx'[t].burn = tx[t].burn /\ tx'[t].st # "none"

-----------------------------------------------------------------------------
(* What lasts                                                              *)

\* A message that was compared with a transfer agrees with it for ever.
LEMMA ValidLasts ==
    ASSUME Lasting, NEW r, r.src \in Ops => row[r.src].status # "none", r.src \in Burns,
           ValidateCctpMessage(r, r.src)
    PROVE  ValidateCctpMessage(r, r.src)'
BY DEF Lasting, RowLasts, SameTransfer, ValidateCctpMessage, MessageOf, Burns

\* A row that is right stays right while nothing of it is taken back.
LEMMA RowStaysRight ==
    ASSUME Lasting, NEW o \in Ops, NEW r \in Row, HasItsBurn(o, r), IsProved(r), MaxTx \in Nat
    PROVE  HasItsBurn(o, r)' /\ IsProved(r)'
<1>1. HasItsBurn(o, r)'
  BY DEF HasItsBurn, Lasting, RowLasts
<1>2. r.dst # 0 => Mints(r.dst, r.src)'
  BY DEF IsProved, Mints, Lasting, RowLasts, Row, Txs
<1>3. r.status = "completed" => r.src \in minted'
  BY DEF IsProved, Lasting, RowLasts
<1>4. r.msg \/ r.status = "completed" => ValidateCctpMessage(r, r.src)'
  <2>1. r.msg \/ r.status = "completed" => r.src \in Burns /\ (r.src \in Ops => row[r.src].status # "none")
    BY DEF HasItsBurn, Row
  <2> QED BY <2>1, ValidLasts DEF IsProved
<1> QED BY <1>1, <1>2, <1>3, <1>4 DEF IsProved

\* ... and so does a pass.
LEMMA PassStaysRight ==
    ASSUME Lasting, RowsOk, NEW k \in Pass, PassOk(k), MaxTx \in Nat
    PROVE  PassOk(k)'
<1> SUFFICES ASSUME k.pc # "idle" PROVE PassOk(k)'
  BY DEF PassOk
<1> DEFINE r == k.row
<1>0. r \in Row /\ k.o \in Ops /\ r.src # None
  BY DEF PassOk, Pass
<1>1. r.src = row'[k.o].src /\ SameTransfer(r, row'[k.o])
  BY <1>0 DEF PassOk, RowsOk, HasItsBurn, Lasting, RowLasts, SameTransfer, Early
<1>2. r.dst # 0 => Mints(r.dst, r.src)'
  BY <1>0 DEF PassOk, Mints, Lasting, RowLasts, Row, Txs
<1>3. k.pc \in {"record", "wait"} => k.tx \in Txs /\ Mints(k.tx, r.src)'
  BY DEF PassOk, Mints, Lasting, RowLasts
<1>4. r.src \in Burns /\ (r.src \in Ops => row[r.src].status # "none")
  BY <1>0 DEF PassOk, RowsOk, HasItsBurn, Row
<1>5. ValidateCctpMessage(r, r.src) => ValidateCctpMessage(r, r.src)'
  BY <1>4, ValidLasts
<1> QED BY <1>0, <1>1, <1>2, <1>3, <1>5 DEF PassOk

-----------------------------------------------------------------------------
(* What a pass writes                                                      *)

\* What a pass does after it took up its row.
Works(p) ==
    \/ StillWaiting(p) \/ FetchAttestation(p) \/ StoredMessage(p) \/ AlreadyMinted(p)
    \/ LeavePending(p) \/ GiveUp(p) \/ WithSignerLease(p) \/ Broadcast(p) \/ BroadcastFails(p)
    \/ RecordCrosschainMintBroadcast(p) \/ WaitForTx(p) \/ WaitTimesOut(p) \/ Thrown(p)
    \/ OpFailed(p) \/ Crash(p)

\* A write to a row that has its burn, after which the row is right.
Rewrites(o, x) ==
    /\ x \in Row /\ row' = [row EXCEPT ![o] = x]
    /\ row[o].src # None /\ x.src = row[o].src /\ SameTransfer(x, row[o])
    /\ x.status \notin Early /\ IsProved(x)
    /\ row[o].status = "completed" => x.status = "completed"
WritesOnly(o) == UNCHANGED row \/ \E x \in Row : Rewrites(o, x)

\* A pass at work has a row of the right kind, and its copy names the same
\* transfer.
LEMMA PassHasRow ==
    ASSUME TransferInv, NEW p \in Passes, pass[p].pc # "idle"
    PROVE  /\ pass[p] \in Pass /\ pass[p].row \in Row /\ pass[p].o \in Ops /\ PassOk(pass[p])
           /\ row[pass[p].o] \in Row /\ IsProved(row[pass[p].o]) /\ HasItsBurn(pass[p].o, row[pass[p].o])
           /\ row[pass[p].o].src = pass[p].row.src /\ pass[p].row.src \in Burns
           /\ row[pass[p].o].src # None /\ row[pass[p].o].status \notin Early
           /\ SameTransfer(pass[p].row, row[pass[p].o])
<1>1. pass[p] \in Pass /\ PassOk(pass[p])
  BY DEF TransferInv, TypeInv, PassesOk
<1>2. pass[p].row \in Row /\ pass[p].o \in Ops /\ pass[p].row.src # None
  BY <1>1 DEF PassOk, Pass
<1>3. row[pass[p].o] \in Row /\ IsProved(row[pass[p].o]) /\ HasItsBurn(pass[p].o, row[pass[p].o])
  BY <1>2 DEF TransferInv, TypeInv, RowsOk
<1>4. row[pass[p].o].src = pass[p].row.src /\ SameTransfer(pass[p].row, row[pass[p].o])
  BY <1>1 DEF PassOk
<1> QED BY <1>1, <1>2, <1>3, <1>4 DEF HasItsBurn, Row

\* What was compared with the copy was compared with the row.
LEMMA ValidForRow ==
    ASSUME TransferInv, NEW p \in Passes, pass[p].pc # "idle",
           ValidateCctpMessage(pass[p].row, pass[p].row.src)
    PROVE  ValidateCctpMessage(row[pass[p].o], row[pass[p].o].src)
BY PassHasRow DEF ValidateCctpMessage, MessageOf, SameTransfer

\* An update of the status: only a minted and compared burn completes.
LEMMA UpdateWrites ==
    ASSUME TransferInv, NEW p \in Passes, pass[p].pc # "idle", NEW s \in Statuses \ Early, NEW from,
           UpdateCrosschainOp(pass[p].o, s, from),
           s = "completed" => /\ pass[p].row.src \in minted
                              /\ ValidateCctpMessage(pass[p].row, pass[p].row.src)
    PROVE  WritesOnly(pass[p].o)
<1> DEFINE o == pass[p].o
           x == [row[o] EXCEPT !.status = s]
<1>1. SUFFICES ASSUME MayUpdate(o, s, from) PROVE Rewrites(o, x) /\ x \in Row
  BY DEF UpdateCrosschainOp, WritesOnly
<1>2. row' = [row EXCEPT ![o] = x]
  BY <1>1 DEF UpdateCrosschainOp
<1>3. x \in Row /\ x.status = s /\ x.src = row[o].src /\ SameTransfer(x, row[o]) /\ x.msg = row[o].msg
      /\ x.dst = row[o].dst
  BY PassHasRow DEF Row, SameTransfer
<1>4. ValidateCctpMessage(row[o], row[o].src) => ValidateCctpMessage(x, x.src)
  BY <1>3 DEF ValidateCctpMessage, SameTransfer
<1>5. s = "completed" => ValidateCctpMessage(x, x.src) /\ x.src \in minted
  BY <1>3, <1>4, ValidForRow, PassHasRow
<1>6. IsProved(x)
  <2> HIDE DEF x
  <2> QED BY <1>3, <1>4, <1>5, PassHasRow DEF IsProved
<1> HIDE DEF x
<1> QED BY <1>1, <1>2, <1>3, <1>6, PassHasRow DEF Rewrites, MayUpdate

\* A write of another column.
LEMMA ColumnWrites ==
    ASSUME TransferInv, NEW p \in Passes, pass[p].pc # "idle", NEW x \in Row,
           row' = [row EXCEPT ![pass[p].o] = x], x.src = row[pass[p].o].src,
           SameTransfer(x, row[pass[p].o]), x.status = row[pass[p].o].status,
           x.msg = row[pass[p].o].msg \/ ValidateCctpMessage(pass[p].row, pass[p].row.src),
           x.dst = row[pass[p].o].dst \/ Mints(x.dst, x.src)
    PROVE  WritesOnly(pass[p].o)
<1> DEFINE o == pass[p].o
<1>1. ValidateCctpMessage(row[o], row[o].src) => ValidateCctpMessage(x, x.src)
  BY DEF ValidateCctpMessage, SameTransfer
<1>2. IsProved(x)
  BY <1>1, ValidForRow, PassHasRow DEF IsProved
<1> QED BY <1>2, PassHasRow DEF Rewrites, WritesOnly

\* A pass completes its row for a burn that was compared and minted.
LEMMA CompletesMinted ==
    ASSUME TransferInv, NEW p \in Passes, AlreadyMinted(p) \/ (WaitForTx(p) /\ Confirmed(p))
                                          \/ (Thrown(p) /\ NonceWasUsed(p))
    PROVE  pass[p].row.src \in minted /\ ValidateCctpMessage(pass[p].row, pass[p].row.src)
<1>1. pass[p].pc \in {"mint", "wait", "thrown"}
  BY DEF AlreadyMinted, WaitForTx, Thrown
<1>2. PassOk(pass[p]) /\ pass[p].row \in Row
  BY <1>1, PassHasRow
<1>3. ASSUME NEW t \in Txs, Mints(t, pass[p].row.src), tx[t].st = "success"
      PROVE  pass[p].row.src \in minted
  BY <1>3 DEF Mints, TransferInv, SuccessIsMinted
<1>4. CASE AlreadyMinted(p)
  <2>1. pass[p].row.dst # 0 => pass[p].row.dst \in Txs
    BY <1>2 DEF Row, Txs
  <2> QED BY <1>1, <1>2, <1>3, <1>4, <2>1 DEF AlreadyMinted, NonceWasUsed, ReceiptSucceeded, PassOk
<1>5. CASE WaitForTx(p) /\ Confirmed(p)
  <2>1. pass[p].pc = "wait"
    BY <1>5 DEF WaitForTx
  <2> QED BY <1>2, <1>3, <1>5, <2>1 DEF Confirmed, NonceWasUsed, PassOk
<1>6. CASE Thrown(p) /\ NonceWasUsed(p)
  BY <1>1, <1>2, <1>6 DEF NonceWasUsed, PassOk
<1> QED BY <1>4, <1>5, <1>6

\* Whatever a pass does, it writes at most its own row, and leaves it right.
LEMMA WorksWrite ==
    ASSUME TransferInv, NEW p \in Passes, Works(p)
    PROVE  pass[p].pc # "idle" /\ WritesOnly(pass[p].o)
<1> DEFINE o == pass[p].o
           r == pass[p].row
<1>1. pass[p].pc # "idle"
  BY DEF Works, StillWaiting, FetchAttestation, StoredMessage, AlreadyMinted, LeavePending, GiveUp,
    WithSignerLease, MayMint, Broadcast, BroadcastFails, RecordCrosschainMintBroadcast, WaitForTx,
    WaitTimesOut, Thrown, OpFailed, Crash
<1>2. /\ row[o] \in Row /\ r \in Row /\ o \in Ops /\ PassOk(pass[p])
      /\ row[o].src = r.src /\ row[o].src # None /\ row[o].status \notin Early
  BY <1>1, PassHasRow
<1>3. CASE StillWaiting(p)
  BY <1>1, <1>3, UpdateWrites DEF StillWaiting, Statuses, InFlight, Early, WritesOnly
<1>4. CASE FetchAttestation(p)
  <2>1. CASE ~ ValidateCctpMessage(r, r.src)
    BY <1>1, <1>4, <2>1, UpdateWrites DEF FetchAttestation, Statuses, InFlight, Early
  <2>2. CASE ValidateCctpMessage(r, r.src)
    <3> DEFINE x == [row[o] EXCEPT !.status = "minting", !.msg = TRUE]
    <3>1. row' = IF MayUpdate(o, "minting", Statuses) THEN [row EXCEPT ![o] = x] ELSE row
      BY <1>4, <2>2 DEF FetchAttestation
    <3>2. x \in Row /\ x.status = "minting" /\ x.src = row[o].src /\ SameTransfer(x, row[o])
          /\ x.dst = row[o].dst
      BY <1>2 DEF Row, SameTransfer, Statuses, InFlight
    <3>3. ValidateCctpMessage(row[o], row[o].src) => ValidateCctpMessage(x, x.src)
      BY <3>2 DEF ValidateCctpMessage, SameTransfer
    <3> HIDE DEF x
    <3>4. IsProved(x)
      BY <1>1, <2>2, <3>2, <3>3, ValidForRow, PassHasRow DEF IsProved
    <3>5. MayUpdate(o, "minting", Statuses) => row[o].status # "completed"
      BY DEF MayUpdate
    <3>6. MayUpdate(o, "minting", Statuses) => Rewrites(o, x)
      <4> SUFFICES ASSUME MayUpdate(o, "minting", Statuses) PROVE Rewrites(o, x)
        OBVIOUS
      <4>1. row' = [row EXCEPT ![o] = x] /\ row[o].status # "completed"
        BY <3>1, <3>5
      <4>2. x.status \notin Early
        BY <3>2 DEF Early
      <4> QED BY <1>2, <3>2, <3>4, <4>1, <4>2 DEF Rewrites
    <3> QED BY <1>1, <3>1, <3>2, <3>6 DEF WritesOnly
  <2> QED BY <2>1, <2>2
<1>5. CASE MarkCompleted(p) /\ pass[p].row.src \in minted /\ ValidateCctpMessage(r, r.src)
  BY <1>1, <1>5, UpdateWrites DEF MarkCompleted, Statuses, InFlight, Early
<1>6. CASE AlreadyMinted(p)
  BY <1>5, <1>6, CompletesMinted DEF AlreadyMinted
<1>7. CASE GiveUp(p)
  BY <1>1, <1>7, UpdateWrites DEF GiveUp, Statuses, InFlight, Early
<1>8. CASE WithSignerLease(p)
  <2> DEFINE x == [row[o] EXCEPT !.attempts = r.attempts + 1]
  <2>1. UNCHANGED row \/ row' = [row EXCEPT ![o] = x]
    BY <1>8 DEF WithSignerLease
  <2>2. x \in Row /\ x.src = row[o].src /\ SameTransfer(x, row[o]) /\ x.status = row[o].status
        /\ x.msg = row[o].msg /\ x.dst = row[o].dst
    BY <1>2 DEF Row, SameTransfer
  <2> HIDE DEF x
  <2> QED BY <1>1, <2>1, <2>2, ColumnWrites DEF WritesOnly
<1>9. CASE RecordCrosschainMintBroadcast(p)
  <2> DEFINE x == [row[o] EXCEPT !.dst = pass[p].tx]
  <2>1. UNCHANGED row \/ row' = [row EXCEPT ![o] = x]
    BY <1>9 DEF RecordCrosschainMintBroadcast
  <2>2. pass[p].tx \in Txs /\ pass[p].tx \in 0..MaxTx /\ Mints(pass[p].tx, r.src)
    BY <1>2, <1>9, PassHasRow, <1>1 DEF RecordCrosschainMintBroadcast, PassOk, Pass
  <2>3. x \in Row /\ x.src = row[o].src /\ SameTransfer(x, row[o]) /\ x.status = row[o].status
        /\ x.msg = row[o].msg /\ x.dst = pass[p].tx
    BY <1>2, <2>2 DEF Row, SameTransfer
  <2> HIDE DEF x
  <2> QED BY <1>1, <1>2, <2>1, <2>2, <2>3, ColumnWrites DEF WritesOnly
<1>10. CASE WaitForTx(p)
  <2>1. CASE Confirmed(p)
    BY <1>5, <1>10, <2>1, CompletesMinted DEF WaitForTx
  <2>2. CASE ~ Confirmed(p)
    BY <1>1, <1>10, <2>2, UpdateWrites DEF WaitForTx, Statuses, InFlight, Early
  <2> QED BY <2>1, <2>2
<1>11. CASE Thrown(p)
  BY <1>5, <1>11, CompletesMinted DEF Thrown, WritesOnly
<1>12. CASE OpFailed(p)
  <2> DEFINE n == r.attempts + 1
             x == [row[o] EXCEPT !.attempts = n]
             y == [row[o] EXCEPT !.attempts = n, !.status = "needs_support"]
  <2>1. /\ x \in Row /\ x.src = row[o].src /\ SameTransfer(x, row[o]) /\ x.status = row[o].status
        /\ x.msg = row[o].msg /\ x.dst = row[o].dst
    BY <1>2 DEF Row, SameTransfer
  <2>6. /\ y \in Row /\ y.src = row[o].src /\ SameTransfer(y, row[o]) /\ y.status = "needs_support"
        /\ y.msg = row[o].msg /\ y.dst = row[o].dst
    <3>1. y = [x EXCEPT !.status = "needs_support"]
      BY <1>2 DEF Row
    <3>2. "needs_support" \in Statuses
      BY DEF Statuses
    <3> HIDE DEF x, y
    <3> QED BY <2>1, <3>1, <3>2 DEF Row, SameTransfer
  <2>2. \/ row' = [row EXCEPT ![o] = x] \/ UNCHANGED row
        \/ row' = [row EXCEPT ![o] = y] /\ MayUpdate(o, "needs_support", Statuses)
    BY <1>12 DEF OpFailed
  <2>3. ValidateCctpMessage(row[o], row[o].src) => ValidateCctpMessage(y, y.src)
    BY <2>6 DEF ValidateCctpMessage, SameTransfer
  <2> HIDE DEF x, y
  <2>4. IsProved(y)
    BY <1>1, <2>6, <2>3, PassHasRow DEF IsProved
  <2>5. MayUpdate(o, "needs_support", Statuses) /\ row' = [row EXCEPT ![o] = y] => Rewrites(o, y)
    BY <1>2, <2>6, <2>4 DEF Rewrites, Early, MayUpdate
  <2> QED BY <1>1, <2>1, <2>2, <2>5, <2>6, ColumnWrites DEF WritesOnly
<1>13. CASE StoredMessage(p) \/ LeavePending(p) \/ Broadcast(p) \/ BroadcastFails(p)
            \/ WaitTimesOut(p) \/ Crash(p)
  BY <1>13 DEF StoredMessage, LeavePending, Broadcast, BroadcastFails, WaitTimesOut, Crash, WritesOnly
<1> QED BY <1>1, <1>3, <1>4, <1>6, <1>7, <1>8, <1>9, <1>10, <1>11, <1>12, <1>13 DEF Works

\* A pass takes nothing back.
LEMMA WorksLasts ==
    ASSUME TransferInv, NEW p \in Passes, Works(p)
    PROVE  Lasting /\ row' \in [Ops -> Row] /\ tx' \in [Txs -> Tx] /\ UNCHANGED <<fate, minted>>
<1> DEFINE o == pass[p].o
<1>1. WritesOnly(o) /\ pass[p].pc # "idle"
  BY WorksWrite
<1>2. row \in [Ops -> Row] /\ tx \in [Txs -> Tx] /\ o \in Ops
  BY <1>1, PassHasRow DEF TransferInv, TypeInv
<1>3. /\ row' \in [Ops -> Row]
      /\ \A q \in Ops : RowLasts(row[q], row'[q])
  <2>1. CASE UNCHANGED row
    BY <1>2, <2>1 DEF RowLasts, SameTransfer
  <2>2. ASSUME NEW x \in Row, Rewrites(o, x)
        PROVE  row' \in [Ops -> Row] /\ \A q \in Ops : RowLasts(row[q], row'[q])
    <3>1. row' = [row EXCEPT ![o] = x]
      BY <2>2 DEF Rewrites
    <3>2. RowLasts(row[o], x)
      BY <2>2 DEF Rewrites, RowLasts, Early
    <3>3. \A q \in Ops : RowLasts(row[q], row[q])
      BY DEF RowLasts, SameTransfer
    <3>4. row' \in [Ops -> Row] /\ \A q \in Ops : row'[q] = IF q = o THEN x ELSE row[q]
      BY <1>2, <3>1
    <3> QED BY <3>2, <3>3, <3>4
  <2> QED BY <1>1, <2>1, <2>2 DEF WritesOnly
<1>4. CASE Broadcast(p)
  <2>1. PICK t \in Txs : IsNewTx(t) /\ tx' = [tx EXCEPT ![t] = [burn |-> pass[p].row.src, st |-> "pending"]]
    BY <1>4 DEF Broadcast
  <2>2. pass[p].row.src \in Burns /\ UNCHANGED <<fate, minted>>
    BY <1>1, <1>4, PassHasRow DEF Broadcast
  <2>3. tx' \in [Txs -> Tx] /\ tx[t].st = "none" /\ \A u \in Txs : u # t => tx'[u] = tx[u]
    BY <1>2, <2>1, <2>2 DEF Tx, IsNewTx
  <2>4. \A u \in Txs : tx[u].st # "none" => tx'[u].burn = tx[u].burn /\ tx'[u].st # "none"
    BY <2>3
  <2> QED BY <1>3, <2>2, <2>3, <2>4 DEF Lasting
<1>5. CASE ~ Broadcast(p)
  <2>1. UNCHANGED chain
    BY <1>5 DEF Works, StillWaiting, FetchAttestation, StoredMessage, AlreadyMinted, LeavePending, GiveUp,
      WithSignerLease, BroadcastFails, RecordCrosschainMintBroadcast, WaitForTx, WaitTimesOut, Thrown,
      OpFailed, Crash
  <2> QED BY <1>2, <1>3, <2>1 DEF Lasting, chain
<1> QED BY <1>4, <1>5

\* A row that was written by its pass has its burn.
LEMMA RewrittenHasItsBurn ==
    ASSUME TransferInv, NEW o \in Ops, NEW x \in Row, Rewrites(o, x)
    PROVE  HasItsBurn(o, x)
BY DEF TransferInv, RowsOk, HasItsBurn, Rewrites, SameTransfer

-----------------------------------------------------------------------------
(* Where a pass goes on                                                    *)

\* A step leaves pass p in a state that is right.
Continues(p) == \E k \in Pass : pass' = [pass EXCEPT ![p] = k] /\ PassOk(k)'

\* A pass that is over.
LEMMA DoneContinues ==
    ASSUME TransfersAssumption, NEW p \in Passes, Done(p)
    PROVE  Continues(p)
<1>1. NoPass \in Pass
  BY DEF TransfersAssumption, NoPass, NoRow, Pass, Row, Statuses, InFlight
<1>2. PassOk(NoPass)'
  BY DEF PassOk, NoPass
<1> QED BY <1>1, <1>2 DEF Continues, Done

\* A pass that goes on with what it has read.
LEMMA GotoContinues ==
    ASSUME TransfersAssumption, TransferInv, Lasting, NEW p \in Passes, pass[p].pc # "idle",
           NEW pc \in {"mint", "send", "wait", "thrown", "failed"}, Goto(p, pc),
           pc # "failed" => ValidateCctpMessage(pass[p].row, pass[p].row.src),
           pc = "wait" => pass[p].pc = "record"
    PROVE  Continues(p)
<1>1. pass[p] \in Pass /\ PassOk(pass[p])
  BY PassHasRow
<1>2. PICK k \in Pass : k = [pass[p] EXCEPT !.pc = pc]
  BY <1>1 DEF Pass
<1>3. k.pc = pc /\ k.o = pass[p].o /\ k.row = pass[p].row /\ k.tx = pass[p].tx
  BY <1>1, <1>2 DEF Pass
<1>4. PassOk(k)
  <2>1. ValidateCctpMessage(k.row, k.row.src) = ValidateCctpMessage(pass[p].row, pass[p].row.src)
    BY <1>3
  <2> QED BY <1>1, <1>3, <2>1 DEF PassOk
<1>5. PassOk(k)'
  BY <1>4, PassStaysRight DEF TransferInv, TransfersAssumption
<1>6. pass' = [pass EXCEPT ![p] = k]
  BY <1>2 DEF Goto
<1> QED BY <1>5, <1>6 DEF Continues

\* What a pass does after it took up its row leaves it right.
LEMMA WorksContinues ==
    ASSUME TransfersAssumption, TransferInv, NEW p \in Passes, Works(p)
    PROVE  Continues(p)
<1>1. Lasting /\ tx' \in [Txs -> Tx] /\ pass[p].pc # "idle" /\ MaxTx \in Nat
  BY WorksLasts, WorksWrite DEF TransfersAssumption
<1>2. pass[p] \in Pass /\ PassOk(pass[p]) /\ tx \in [Txs -> Tx] /\ pass[p].row.src \in Burns
  BY <1>1, PassHasRow DEF TransferInv, TypeInv
<1>3. pass[p].row.msg \/ pass[p].pc \in {"mint", "send", "record", "wait", "thrown"} =>
        ValidateCctpMessage(pass[p].row, pass[p].row.src)
  BY <1>1, <1>2 DEF PassOk
<1>4. CASE Done(p)
  BY <1>4, DoneContinues
<1>5. CASE StoredMessage(p)
  BY <1>1, <1>3, <1>5, GotoContinues DEF StoredMessage
<1>6. CASE WithSignerLease(p)
  BY <1>1, <1>3, <1>4, <1>6, GotoContinues DEF WithSignerLease, MayMint
<1>7. CASE BroadcastFails(p)
  BY <1>1, <1>3, <1>7, GotoContinues DEF BroadcastFails
<1>8. CASE RecordCrosschainMintBroadcast(p)
  BY <1>1, <1>3, <1>8, GotoContinues DEF RecordCrosschainMintBroadcast
<1>9. CASE WaitTimesOut(p)
  BY <1>1, <1>9, GotoContinues DEF WaitTimesOut
<1>10. CASE Thrown(p)
  BY <1>1, <1>4, <1>10, GotoContinues DEF Thrown, MarkCompleted
<1>11. CASE FetchAttestation(p)
  <2>1. CASE ValidateCctpMessage(pass[p].row, pass[p].row.src)
    <3>1. PICK k \in Pass : k = [pass[p] EXCEPT !.pc = "mint", !.row.msg = TRUE]
      BY <1>2 DEF Pass, Row
    <3>2. k.pc = "mint" /\ k.o = pass[p].o /\ k.row = [pass[p].row EXCEPT !.msg = TRUE]
      BY <1>2, <3>1 DEF Pass
    <3>3. /\ k.row.src = pass[p].row.src /\ k.row.dst = pass[p].row.dst
          /\ SameTransfer(k.row, pass[p].row)
      BY <1>2, <3>2 DEF Pass, Row, SameTransfer
    <3>4. ValidateCctpMessage(k.row, k.row.src)
      BY <2>1, <3>3 DEF ValidateCctpMessage, SameTransfer
    <3>5. PassOk(k)
      BY <1>1, <1>2, <3>2, <3>3, <3>4 DEF PassOk, SameTransfer
    <3>6. PassOk(k)'
      BY <1>1, <3>5, PassStaysRight DEF TransferInv
    <3>7. pass' = [pass EXCEPT ![p] = k]
      BY <1>11, <2>1, <3>1 DEF FetchAttestation
    <3> QED BY <3>6, <3>7 DEF Continues
  <2>2. CASE ~ ValidateCctpMessage(pass[p].row, pass[p].row.src)
    BY <1>4, <1>11, <2>2 DEF FetchAttestation
  <2> QED BY <2>1, <2>2
<1>12. CASE Broadcast(p)
  <2>1. PICK t \in Txs : /\ tx' = [tx EXCEPT ![t] = [burn |-> pass[p].row.src, st |-> "pending"]]
                         /\ \/ pass' = [pass EXCEPT ![p].pc = "record", ![p].tx = t]
                            \/ Goto(p, "thrown")
    BY <1>12 DEF Broadcast
  <2>2. CASE Goto(p, "thrown")
    BY <1>1, <1>3, <1>12, <2>2, GotoContinues DEF Broadcast
  <2>3. CASE pass' = [pass EXCEPT ![p].pc = "record", ![p].tx = t]
    <3>0. t \in 0..MaxTx
      BY <1>1, <2>1 DEF Txs
    <3>1. PICK k \in Pass : k = [pass[p] EXCEPT !.pc = "record", !.tx = t]
      <4>1. PICK j \in Pass : j = pass[p]
        BY <1>2
      <4>2. [j EXCEPT !.pc = "record", !.tx = t] \in Pass
        BY <3>0 DEF Pass
      <4> QED BY <4>1, <4>2
    <3>2. k.pc = "record" /\ k.o = pass[p].o /\ k.row = pass[p].row /\ k.tx = t
      BY <1>2, <3>1 DEF Pass
    <3>4. Mints(t, k.row.src)'
      BY <1>2, <2>1, <3>2 DEF Mints
    <3>5. PICK j \in Pass : j = pass[p]
      BY <1>2
    <3>6. PassOk(j)'
      BY <1>1, <1>2, <3>5, PassStaysRight DEF TransferInv
    <3>7. j.pc = "send"
      BY <1>12, <3>5 DEF Broadcast
    <3>8. ValidateCctpMessage(j.row, j.row.src)'
      BY <3>6, <3>7 DEF PassOk
    <3>9. PassOk(k)'
      BY <3>2, <3>4, <3>5, <3>6, <3>7, <3>8 DEF PassOk
    <3>10. pass' = [pass EXCEPT ![p] = k]
      BY <2>3, <3>1
    <3> QED BY <3>9, <3>10 DEF Continues
  <2> QED BY <2>1, <2>2, <2>3
<1> QED BY <1>4, <1>5, <1>6, <1>7, <1>8, <1>9, <1>10, <1>11, <1>12
      DEF Works, StillWaiting, AlreadyMinted, MarkCompleted, LeavePending, GiveUp, WaitForTx, OpFailed,
        Crash

-----------------------------------------------------------------------------
(* What a step must show                                                   *)

\* Every row the step leaves is right as things stand before it.
RowsRight == row' \in [Ops -> Row] /\ \A o \in Ops, x \in Row : x = row'[o] => HasItsBurn(o, x) /\ IsProved(x)

\* The rows stay right.
LEMMA RowsKept ==
    ASSUME TransferInv, TransfersAssumption, Lasting, RowsRight
    PROVE  RowsOk'
<1> SUFFICES ASSUME NEW o \in Ops PROVE (HasItsBurn(o, row[o]) /\ IsProved(row[o]))'
  BY DEF RowsOk
<1>1. PICK x \in Row : x = row'[o]
  BY DEF RowsRight
<1>2. HasItsBurn(o, x)' /\ IsProved(x)'
  BY <1>1, RowStaysRight DEF RowsRight, TransfersAssumption
<1> QED BY <1>1, <1>2 DEF HasItsBurn, IsProved

\* The passes stay right.
LEMMA PassesKept ==
    ASSUME TransferInv, TransfersAssumption, Lasting, UNCHANGED pass \/ \E p \in Passes : Continues(p)
    PROVE  pass' \in [Passes -> Pass] /\ PassesOk'
<1>1. pass \in [Passes -> Pass]
  BY DEF TransferInv, TypeInv
<1>2. ASSUME NEW p \in Passes, pass'[p] = pass[p]
      PROVE  PassOk(pass[p])'
  <2>1. PICK k \in Pass : k = pass[p]
    BY <1>1
  <2>2. PassOk(k)'
    BY <2>1, PassStaysRight DEF TransferInv, TransfersAssumption, PassesOk
  <2> QED BY <1>2, <2>1, <2>2 DEF PassOk
<1>3. CASE UNCHANGED pass
  BY <1>1, <1>2, <1>3 DEF PassesOk
<1>4. ASSUME NEW p \in Passes, Continues(p)
      PROVE  pass' \in [Passes -> Pass] /\ PassesOk'
  <2>1. PICK k \in Pass : pass' = [pass EXCEPT ![p] = k] /\ PassOk(k)'
    BY <1>4 DEF Continues
  <2>2. pass' \in [Passes -> Pass] /\ pass'[p] = k /\ \A q \in Passes : q # p => pass'[q] = pass[q]
    BY <1>1, <2>1
  <2>3. PassOk(pass[p])'
    BY <2>1, <2>2 DEF PassOk
  <2> QED BY <1>2, <2>2, <2>3 DEF PassesOk
<1> QED BY <1>3, <1>4

\* A step that takes nothing back, leaves its row and its pass right and keeps
\* the record of burns, mints and notifications keeps the invariant.
LEMMA StepKeeps ==
    ASSUME TransferInv, TransfersAssumption, Lasting, RowsRight,
           UNCHANGED pass \/ \E p \in Passes : Continues(p),
           fate' \in [Ops -> {"none", "burned", "failed"}], tx' \in [Txs -> Tx],
           pushes' \in [Ops -> Nat],
           \A o \in Ops : fate'[o] = "burned" => fate[o] = "burned" \/ row[o].status # "none",
           \A t \in Txs : tx'[t].st = "success" => tx[t].st = "success" \/ tx'[t].burn \in minted',
           \A o \in Ops : \/ pushes'[o] = pushes[o]
                          \/ /\ pushes'[o] = pushes[o] + 1
                             /\ row[o].status # "completed" /\ row'[o].status = "completed"
    PROVE  TransferInv'
<1>1. RowsOk' /\ PassesOk' /\ pass' \in [Passes -> Pass]
  BY RowsKept, PassesKept
<1>2. TypeInv'
  BY <1>1 DEF TypeInv, RowsRight
<1>3. BurnsHaveRows'
  BY DEF BurnsHaveRows, TransferInv, Lasting, RowLasts
<1>4. SuccessIsMinted'
  BY DEF SuccessIsMinted, TransferInv, Lasting
<1>5. ToldOnce'
  BY DEF ToldOnce, TransferInv, Lasting, RowLasts, TypeInv
<1> QED BY <1>1, <1>2, <1>3, <1>4, <1>5 DEF TransferInv

-----------------------------------------------------------------------------
(* The steps                                                               *)

\* A pass at work keeps the invariant.
LEMMA WorksKeep ==
    ASSUME TransferInv, TransfersAssumption, NEW p \in Passes, Works(p)
    PROVE  TransferInv'
<1> DEFINE o == pass[p].o
<1>1. Lasting /\ row' \in [Ops -> Row] /\ tx' \in [Txs -> Tx] /\ UNCHANGED <<fate, minted>>
  BY WorksLasts
<1>2. Continues(p)
  BY WorksContinues
<1>3. TypeInv /\ RowsOk /\ WritesOnly(o) /\ o \in Ops /\ pass[p].pc # "idle"
  BY WorksWrite, PassHasRow DEF TransferInv
<1>4. RowsRight
  <2>1. CASE UNCHANGED row
    BY <1>1, <1>3, <2>1 DEF RowsRight, RowsOk
  <2>2. ASSUME NEW x \in Row, Rewrites(o, x)
        PROVE  RowsRight
    <3>1. HasItsBurn(o, x) /\ IsProved(x) /\ row' = [row EXCEPT ![o] = x]
      BY <1>3, <2>2, RewrittenHasItsBurn DEF Rewrites
    <3>2. \A q \in Ops : row'[q] = IF q = o THEN x ELSE row[q]
      BY <1>3, <3>1 DEF TypeInv
    <3> QED BY <1>1, <1>3, <3>1, <3>2 DEF RowsRight, RowsOk
  <2> QED BY <1>3, <2>1, <2>2 DEF WritesOnly
<1>5. /\ pushes' \in [Ops -> Nat]
      /\ \A q \in Ops : \/ pushes'[q] = pushes[q]
                        \/ /\ pushes'[q] = pushes[q] + 1
                           /\ row[q].status # "completed" /\ row'[q].status = "completed"
  <2>1. CASE UNCHANGED pushes
    BY <1>3, <2>1 DEF TypeInv
  <2>2. CASE MarkCompleted(p) /\ row[o].status \in InFlight
    <3>1. row' = [row EXCEPT ![o].status = "completed"]
      BY <2>2 DEF MarkCompleted, UpdateCrosschainOp, MayUpdate
    <3>2. row'[o].status = "completed" /\ row[o].status # "completed"
      BY <1>3, <2>2, <3>1 DEF TypeInv, Row, InFlight
    <3>3. UNCHANGED pushes \/ pushes' = [pushes EXCEPT ![o] = @ + 1]
      BY <2>2 DEF MarkCompleted
    <3>4. pushes \in [Ops -> Nat]
      BY <1>3 DEF TypeInv
    <3> QED BY <1>3, <3>2, <3>3, <3>4
  <2>3. CASE MarkCompleted(p) /\ row[o].status \notin InFlight
    BY <1>3, <2>3 DEF MarkCompleted, TypeInv
  <2> QED BY <2>1, <2>2, <2>3 DEF Works, StillWaiting, FetchAttestation, StoredMessage, AlreadyMinted,
        LeavePending, GiveUp, WithSignerLease, Broadcast, BroadcastFails, RecordCrosschainMintBroadcast,
        WaitForTx, WaitTimesOut, Thrown, OpFailed, Crash
<1>6. \A t \in Txs : tx'[t].st = "success" => tx[t].st = "success"
  <2>1. CASE Broadcast(p)
    BY <1>3, <2>1 DEF Broadcast, TypeInv, Tx
  <2>2. CASE ~ Broadcast(p)
    BY <2>2 DEF chain, Works, StillWaiting, FetchAttestation, StoredMessage, AlreadyMinted, LeavePending,
      GiveUp, WithSignerLease, BroadcastFails, RecordCrosschainMintBroadcast, WaitForTx, WaitTimesOut,
      Thrown, OpFailed, Crash
  <2> QED BY <2>1, <2>2
<1> QED BY <1>1, <1>2, <1>3, <1>4, <1>5, <1>6, StepKeeps DEF TypeInv

\* The sweep settles what is stale and takes nothing from a completed transfer;
\* the pass takes up a row that has its burn.
LEMMA SweepKeeps ==
    ASSUME TransferInv, TransfersAssumption, NEW p \in Passes, RunCrosschainRelayer(p)
    PROVE  TransferInv'
<1>1. /\ TypeInv /\ RowsOk /\ row' = ExpireStaleCrosschainOps /\ MaxTx \in Nat
      /\ UNCHANGED <<fate, attested, minted, tx, pushes>>
  BY DEF RunCrosschainRelayer, TransferInv, TransfersAssumption, chain
<1>2. ASSUME NEW o \in Ops
      PROVE  /\ row'[o] \in Row /\ RowLasts(row[o], row'[o])
             /\ \A x \in Row : x = row'[o] => HasItsBurn(o, x) /\ IsProved(x)
  <2>1. row[o] \in Row /\ HasItsBurn(o, row[o]) /\ IsProved(row[o])
    BY <1>1 DEF TypeInv, RowsOk
  <2>2. PICK r \in Row : r = row[o]
    BY <2>1
  <2>3. CASE row'[o] = r
    BY <2>1, <2>2, <2>3 DEF RowLasts, SameTransfer
  <2>4. ASSUME NEW s \in {"expired", "needs_support"}, row'[o] = [r EXCEPT !.status = s],
               r.status \in {"quoted", "pending_signature"} \cup InFlight,
               r.status \in InFlight => s = "needs_support", r.src # None => s = "needs_support"
        PROVE  /\ row'[o] \in Row /\ RowLasts(row[o], row'[o])
               /\ \A x \in Row : x = row'[o] => HasItsBurn(o, x) /\ IsProved(x)
    <3>1. PICK y \in Row : y = row'[o]
      BY <2>4 DEF Row, Statuses
    <3>2. y.status = s /\ y.src = r.src /\ y.msg = r.msg /\ y.dst = r.dst /\ SameTransfer(y, r)
      BY <2>4, <3>1 DEF Row, SameTransfer
    <3>3. RowLasts(r, y)
      BY <2>4, <3>2 DEF RowLasts, InFlight
    <3>4. HasItsBurn(o, y)
      BY <2>1, <2>2, <2>4, <3>2 DEF HasItsBurn, SameTransfer, InFlight, Early
    <3>5. ValidateCctpMessage(r, r.src) => ValidateCctpMessage(y, y.src)
      BY <3>2 DEF ValidateCctpMessage, SameTransfer
    <3>6. IsProved(y)
      BY <2>1, <2>2, <2>4, <3>2, <3>5 DEF IsProved
    <3> QED BY <2>2, <3>1, <3>3, <3>4, <3>6
  <2>5. row'[o] = r \/ (row'[o] = [r EXCEPT !.status = "expired"] /\ r.status \in {"quoted", "pending_signature"})
        \/ (row'[o] = [r EXCEPT !.status = "needs_support"] /\ r.status \in InFlight)
    BY <1>1, <2>2 DEF ExpireStaleCrosschainOps
  <2>6. CASE row'[o] = [r EXCEPT !.status = "expired"] /\ r.status \in {"quoted", "pending_signature"}
    <3>1. r.src = None /\ r.status \notin InFlight
      BY <2>1, <2>2, <2>6 DEF HasItsBurn, Early, InFlight
    <3> QED BY <2>4, <2>6, <3>1
  <2>7. CASE row'[o] = [r EXCEPT !.status = "needs_support"] /\ r.status \in InFlight
    BY <2>4, <2>7
  <2> QED BY <2>3, <2>5, <2>6, <2>7
<1>3. row' \in [Ops -> Row]
  BY <1>1, <1>2 DEF ExpireStaleCrosschainOps
<1>4. RowsRight
  BY <1>2, <1>3 DEF RowsRight
<1>5. Lasting
  BY <1>1, <1>2 DEF Lasting
<1>6. RowsOk'
  BY <1>4, <1>5, RowsKept
<1>7. ASSUME NEW o \in Ops, row'[o].status \in InFlight,
             pass' = [pass EXCEPT ![p] = [pc |-> "attest", o |-> o, row |-> row'[o], tx |-> 0]]
      PROVE  Continues(p)
  <2>0. PICK r \in Row : r = row'[o]
    BY <1>3
  <2>1. PICK k \in Pass : k = [pc |-> "attest", o |-> o, row |-> r, tx |-> 0]
    <3>1. 0 \in 0..MaxTx
      BY <1>1
    <3> QED BY <3>1 DEF Pass
  <2>2. k.pc = "attest" /\ k.o = o /\ k.row = row'[o] /\ pass' = [pass EXCEPT ![p] = k]
    BY <1>7, <2>0, <2>1
  <2>3. HasItsBurn(o, row[o])' /\ IsProved(row[o])'
    BY <1>6 DEF RowsOk
  <2>4. k.row.src # None
    BY <1>7, <2>2, <2>3 DEF HasItsBurn
  <2>5. k.row.dst # 0 => Mints(k.row.dst, k.row.src)'
    BY <2>2, <2>3 DEF IsProved, Mints
  <2>6. k.row.msg => ValidateCctpMessage(k.row, k.row.src)'
    BY <2>2, <2>3 DEF IsProved, ValidateCctpMessage, MessageOf
  <2>7. PassOk(k)'
    BY <2>2, <2>4, <2>5, <2>6 DEF PassOk, SameTransfer
  <2> QED BY <2>2, <2>7 DEF Continues
<1>8. UNCHANGED pass \/ \E q \in Passes : Continues(q)
  BY <1>7 DEF RunCrosschainRelayer
<1> QED BY <1>1, <1>4, <1>5, <1>8, StepKeeps DEF TypeInv

\* A request and a settlement write one row.
RouteWrites(o) ==
    \E x \in Row : row' = [row EXCEPT ![o] = x] /\ RowLasts(row[o], x) /\ HasItsBurn(o, x) /\ IsProved(x)

\* A new row has no burn.
LEMMA CreateWrites ==
    ASSUME TransferInv, TransfersAssumption, NEW o \in Ops, NEW dir \in {"outbound", "inbound"},
           NEW bps \in Nat, NEW amount \in Nat, NEW mode, NEW s \in {"quoted", "pending_signature"},
           CreateCrosschainOp(o, dir, bps, amount, mode, s)
    PROVE  RouteWrites(o)
<1> DEFINE a == ComputeAmounts(bps, amount, mode)
           x == [NoRow EXCEPT !.status = s, !.dir = dir, !.amountIn = amount, !.fee = a.fee, !.maxFee = a.maxFee]
<1>1. row[o].status = "none" /\ row' = [row EXCEPT ![o] = x] /\ row[o].src = None
  BY DEF CreateCrosschainOp, TransferInv, RowsOk, HasItsBurn, Early
<1>2. a.fee \in Int /\ a.maxFee \in Int
  <2> DEFINE fee == (amount * bps) \div 10000
             net == amount - fee
  <2>1. fee \in Int
    OBVIOUS
  <2>2. net \in Int
    BY <2>1
  <2> HIDE DEF fee, net
  <2>3. CeilDiv(net * 10, 10000) \in Int
    BY <2>2 DEF CeilDiv
  <2> HIDE DEF a
  <2> QED BY <2>1, <2>3 DEF ComputeAmounts, a, fee, net
<1> HIDE DEF a
<1>3. x \in Row /\ x.status = s /\ x.src = None /\ ~ x.msg /\ x.dst = 0
  <2>1. s \in Statuses /\ 0 \in 0..MaxTx /\ "none" \in Statuses
    BY DEF Statuses, TransfersAssumption
  <2>2. NoRow \in Row
    BY <2>1 DEF NoRow, Row
  <2>3. PICK n \in Row : n = NoRow
    BY <2>2
  <2>4. n.src = None /\ ~ n.msg /\ n.dst = 0
    BY <2>3 DEF NoRow
  <2>5. PICK c \in Int, f \in Int, m \in Int : c = amount /\ f = a.fee /\ m = a.maxFee
    BY <1>2
  <2> DEFINE y == [n EXCEPT !.status = s, !.dir = dir, !.amountIn = c, !.fee = f, !.maxFee = m]
  <2>6. y \in Row /\ y.status = s /\ y.src = n.src /\ y.msg = n.msg /\ y.dst = n.dst
    <3>1. y \in Row
      BY <2>1 DEF Row
    <3>2. y.status = s
      BY <2>1 DEF Row
    <3>3. y.src = n.src /\ y.msg = n.msg /\ y.dst = n.dst
      BY <2>1 DEF Row
    <3> QED BY <3>1, <3>2, <3>3
  <2>7. x = y
    BY <2>3, <2>5
  <2> QED BY <2>4, <2>6, <2>7
<1> HIDE DEF x
<1>4. RowLasts(row[o], x) /\ HasItsBurn(o, x) /\ IsProved(x)
  BY <1>1, <1>3 DEF RowLasts, HasItsBurn, IsProved, InFlight
<1> QED BY <1>1, <1>3, <1>4 DEF RouteWrites

\* A row is given a burn once.
LEMMA BurnWrites ==
    ASSUME TransferInv, TransfersAssumption, NEW o \in Ops, NEW b \in Burns,
           row' = [row EXCEPT ![o].status = "submitted", ![o].src = b],
           row[o].status \in {"quoted", "pending_signature"}, row[o].src = None,
           row[o].dir = "outbound" => b = o, b \in Ops => fate[b] = "burned"
    PROVE  RouteWrites(o)
<1>1. row[o] \in Row /\ ~ row[o].msg /\ row[o].dst = 0 /\ b # None
  BY DEF TransferInv, TypeInv, RowsOk, HasItsBurn, Burns, TransfersAssumption
<1>2. PICK r \in Row : r = row[o]
  BY <1>1
<1> DEFINE x == [r EXCEPT !.status = "submitted", !.src = b]
<1>3. x \in Row /\ x.status = "submitted" /\ x.src = b /\ ~ x.msg /\ x.dst = 0 /\ SameTransfer(x, r)
  BY <1>1, <1>2 DEF Row, SameTransfer, Statuses, InFlight
<1>4. row' = [row EXCEPT ![o] = x]
  BY <1>2
<1> HIDE DEF x
<1>5. RowLasts(row[o], x)
  BY <1>2, <1>3 DEF RowLasts
<1>6. HasItsBurn(o, x)
  BY <1>1, <1>2, <1>3 DEF HasItsBurn, Early, SameTransfer, TransferInv, BurnsHaveRows
<1>7. IsProved(x)
  BY <1>3 DEF IsProved
<1> QED BY <1>3, <1>4, <1>5, <1>6, <1>7 DEF RouteWrites

\* A step that writes at most the row of o keeps the invariant.
LEMMA RouteKeeps ==
    ASSUME TransferInv, TransfersAssumption, NEW o \in Ops, RouteWrites(o) \/ UNCHANGED row,
           UNCHANGED <<age, chain, pass, lease, faults, pushes>>
    PROVE  TransferInv'
<1>1. TypeInv /\ RowsOk
  BY DEF TransferInv
<1>2. ASSUME NEW q \in Ops
      PROVE  RowLasts(row[q], row[q])
  BY DEF RowLasts, SameTransfer
<1>3. RowsRight /\ \A q \in Ops : RowLasts(row[q], row'[q])
  <2>1. CASE UNCHANGED row
    BY <1>1, <1>2, <2>1 DEF RowsRight, TypeInv, RowsOk
  <2>2. ASSUME NEW x \in Row, row' = [row EXCEPT ![o] = x], RowLasts(row[o], x), HasItsBurn(o, x),
               IsProved(x)
        PROVE  RowsRight /\ \A q \in Ops : RowLasts(row[q], row'[q])
    <3>1. row' \in [Ops -> Row] /\ \A q \in Ops : row'[q] = IF q = o THEN x ELSE row[q]
      BY <1>1, <2>2 DEF TypeInv
    <3> QED BY <1>1, <1>2, <2>2, <3>1 DEF RowsRight, RowsOk
  <2> QED BY <2>1, <2>2 DEF RouteWrites
<1>4. Lasting
  BY <1>3 DEF Lasting, chain
<1> QED BY <1>1, <1>3, <1>4, StepKeeps DEF TypeInv, chain

\* The requests of the App, and the settlement of a UserOperation, keep the
\* invariant.
LEMMA RoutesKeep ==
    ASSUME TransferInv, TransfersAssumption, NEW o \in Ops,
           \/ Prepare(o) \/ InboundPrepare(o) \/ SettleBurn(o) \/ FailLinkedCrosschainOp(o)
           \/ \E b \in Burns : InboundRegister(o, b)
    PROVE  TransferInv'
<1>1. row[o] \in Row /\ HasItsBurn(o, row[o]) /\ IsProved(row[o])
  BY DEF TransferInv, TypeInv, RowsOk
<1>2. CASE Prepare(o) \/ InboundPrepare(o)
  <2>1. PICK q \in Quotes : \/ CreateCrosschainOp(o, "outbound", FeeBps, q[1], q[2], "quoted")
                            \/ CreateCrosschainOp(o, "inbound", 0, q[1], q[2], "pending_signature")
    BY <1>2 DEF Prepare, InboundPrepare
  <2>2. q[1] \in Nat /\ FeeBps \in Nat
    BY DEF TransfersAssumption
  <2>3. RouteWrites(o)
    BY <2>1, <2>2, CreateWrites
  <2>4. UNCHANGED <<age, chain, pass, lease, faults, pushes>>
    BY <2>1 DEF CreateCrosschainOp
  <2> QED BY <2>3, <2>4, RouteKeeps
<1>3. CASE SettleBurn(o)
  <2>1. row[o].src = None /\ row[o].status = "quoted"
    BY <1>1, <1>3 DEF SettleBurn, HasItsBurn, Unregistered, Early, InFlight
  <2>2. RouteWrites(o)
    BY <1>3, <2>1, BurnWrites DEF SettleBurn, Burns
  <2> QED BY <1>3, <2>2, RouteKeeps DEF SettleBurn
<1>4. ASSUME NEW b \in Burns, InboundRegister(o, b)
      PROVE  TransferInv'
  <2>1. row[o].src = None /\ row[o].status = "pending_signature" /\ row[o].dir = "inbound"
    BY <1>1, <1>4 DEF InboundRegister, HasItsBurn, Early
  <2>2. RouteWrites(o)
    BY <1>4, <2>1, BurnWrites DEF InboundRegister
  <2> QED BY <1>4, <2>2, RouteKeeps DEF InboundRegister
<1>5. CASE FailLinkedCrosschainOp(o)
  <2>1. ASSUME row' = [row EXCEPT ![o].status = "failed"], row[o].status # "completed"
        PROVE  RouteWrites(o)
    <3>1. PICK r \in Row : r = row[o]
      BY <1>1
    <3>2. PICK x \in Row : x = [r EXCEPT !.status = "failed"]
      BY DEF Row, Statuses
    <3>3. x.status = "failed" /\ x.src = r.src /\ x.msg = r.msg /\ x.dst = r.dst /\ SameTransfer(x, r)
      BY <3>2 DEF Row, SameTransfer
    <3>4. RowLasts(r, x) /\ HasItsBurn(o, x)
      BY <1>1, <2>1, <3>1, <3>3 DEF RowLasts, HasItsBurn, SameTransfer, InFlight, Early
    <3>5. ValidateCctpMessage(r, r.src) => ValidateCctpMessage(x, x.src)
      BY <3>3 DEF ValidateCctpMessage, SameTransfer
    <3>6. IsProved(x)
      BY <1>1, <3>1, <3>3, <3>5 DEF IsProved
    <3> QED BY <2>1, <3>1, <3>2, <3>4, <3>6 DEF RouteWrites
  <2>2. UNCHANGED row \/ RouteWrites(o)
    BY <1>5, <2>1 DEF FailLinkedCrosschainOp, UpdateCrosschainOp, MayUpdate
  <2> QED BY <1>5, <2>2, RouteKeeps DEF FailLinkedCrosschainOp
<1> QED BY <1>2, <1>3, <1>4, <1>5

\* What happens on the chains, at Circle and with time keeps the invariant.
LEMMA EnvironmentKeeps ==
    ASSUME TransferInv, TransfersAssumption,
           \/ \E o \in Ops : Age(o) \/ Burn(o) \/ BurnFails(o) \/ Attest(o) \/ MintedByOthers(o)
           \/ \E t \in Txs : Mine(t)
           \/ ExpireLease \/ UNCHANGED vars
    PROVE  TransferInv'
<1>1. TypeInv /\ RowsOk /\ UNCHANGED <<row, pass, pushes>>
  BY DEF TransferInv, Age, Burn, BurnFails, Attest, MintedByOthers, Mine, ExpireLease, vars, chain
<1>2. RowsRight
  BY <1>1 DEF RowsRight, TypeInv, RowsOk
<1>3. \A o \in Ops : RowLasts(row[o], row'[o])
  BY <1>1 DEF RowLasts, SameTransfer
<1>4. /\ fate' \in [Ops -> {"none", "burned", "failed"}]
      /\ \A o \in Ops : fate'[o] = "burned" => fate[o] = "burned" \/ row[o].status # "none"
  BY <1>1 DEF TypeInv, Age, Burn, BurnFails, Attest, MintedByOthers, Mine, ExpireLease, vars, chain
<1>5. /\ tx' \in [Txs -> Tx] /\ minted \subseteq minted'
      /\ \A t \in Txs : tx'[t].st = "success" => tx[t].st = "success" \/ tx'[t].burn \in minted'
      /\ \A t \in Txs : tx[t].st # "none" => tx'[t].burn = tx[t].burn /\ tx'[t].st # "none"
  <2>1. CASE UNCHANGED tx
    BY <1>1, <2>1 DEF TypeInv, Age, Burn, BurnFails, Attest, MintedByOthers, Mine, ExpireLease, vars, chain
  <2>2. ASSUME NEW t \in Txs, NEW st \in {"success", "reverted", "dropped"},
               tx' = [tx EXCEPT ![t].st = st], tx[t].st = "pending",
               st = "success" => tx[t].burn \in minted'
        PROVE  /\ tx' \in [Txs -> Tx]
               /\ \A u \in Txs : tx'[u].st = "success" => tx[u].st = "success" \/ tx'[u].burn \in minted'
               /\ \A u \in Txs : tx[u].st # "none" => tx'[u].burn = tx[u].burn /\ tx'[u].st # "none"
    BY <1>1, <2>2 DEF TypeInv, Tx
  <2>3. ASSUME NEW t \in Txs, Mine(t)
        PROVE  minted \subseteq minted' /\ \E st \in {"success", "reverted", "dropped"} :
                 tx' = [tx EXCEPT ![t].st = st] /\ (st = "success" => tx[t].burn \in minted')
    BY <2>3 DEF Mine
  <2>4. ASSUME NEW t \in Txs, Mine(t)
        PROVE  tx[t].st = "pending"
    BY <2>4 DEF Mine
  <2>5. CASE \E t \in Txs : Mine(t)
    <3>1. PICK t \in Txs : Mine(t)
      BY <2>5
    <3>2. PICK st \in {"success", "reverted", "dropped"} :
            tx' = [tx EXCEPT ![t].st = st] /\ (st = "success" => tx[t].burn \in minted')
      BY <2>3, <3>1
    <3> QED BY <2>2, <2>3, <2>4, <3>1, <3>2
  <2>6. CASE ~ \E t \in Txs : Mine(t)
    BY <2>1, <2>6 DEF Age, Burn, BurnFails, Attest, MintedByOthers, ExpireLease, vars, chain
  <2> QED BY <2>5, <2>6
<1>6. Lasting
  BY <1>3, <1>5 DEF Lasting
<1>7. pushes' \in [Ops -> Nat] /\ \A o \in Ops : pushes'[o] = pushes[o]
  BY <1>1 DEF TypeInv
<1> QED BY <1>1, <1>2, <1>4, <1>5, <1>6, <1>7, StepKeeps

\* The invariant holds first ...
LEMMA TransferInit == TransfersAssumption /\ Init => TransferInv
<1> SUFFICES ASSUME TransfersAssumption, Init PROVE TransferInv
  OBVIOUS
<1>1. NoRow \in Row
  BY DEF NoRow, Row, Statuses, InFlight, TransfersAssumption
<1>2. NoPass \in Pass
  BY <1>1 DEF NoPass, Pass, TransfersAssumption
<1>3. TypeInv
  BY <1>1, <1>2 DEF TypeInv, Init, Tx
<1>4. RowsOk
  BY DEF Init, RowsOk, HasItsBurn, IsProved, NoRow, InFlight
<1> QED BY <1>3, <1>4 DEF Init, TransferInv, PassesOk, PassOk, NoPass, BurnsHaveRows, SuccessIsMinted, ToldOnce

\* ... and every step keeps it.
LEMMA TransferNext == TransfersAssumption /\ TransferInv /\ [Next]_vars => TransferInv'
<1> SUFFICES ASSUME TransfersAssumption, TransferInv, [Next]_vars PROVE TransferInv'
  OBVIOUS
<1>1. ASSUME NEW p \in Passes, Works(p) PROVE TransferInv'
  BY <1>1, WorksKeep
<1>2. ASSUME NEW p \in Passes, RunCrosschainRelayer(p) PROVE TransferInv'
  BY <1>2, SweepKeeps
<1>3. ASSUME NEW o \in Ops, \/ Prepare(o) \/ InboundPrepare(o) \/ SettleBurn(o) \/ FailLinkedCrosschainOp(o)
                           \/ \E b \in Burns : InboundRegister(o, b)
      PROVE  TransferInv'
  BY <1>3, RoutesKeep
<1>4. CASE \/ \E o \in Ops : Age(o) \/ Burn(o) \/ BurnFails(o) \/ Attest(o) \/ MintedByOthers(o)
           \/ \E t \in Txs : Mine(t)
           \/ ExpireLease \/ UNCHANGED vars
  BY <1>4, EnvironmentKeeps
<1> QED BY <1>1, <1>2, <1>3, <1>4 DEF Next, Works, Burns

\* A transfer counts as completed only for a mint of its own burn, and its
\* sender is told once, for every number of operations, burns and overlapping
\* passes (crosschainRelayer.ts).
THEOREM TransfersCorrect == ASSUME TransfersAssumption PROVE Spec => []BurnsAreMintedOnce
<1>1. Init => TransferInv
  BY TransferInit
<1>2. TransferInv /\ [Next]_vars => TransferInv'
  BY TransferNext
<1>3. TransferInv => BurnsAreMintedOnce
  <2> SUFFICES ASSUME TransferInv PROVE BurnsAreMintedOnce
    OBVIOUS
  <2>1. ASSUME NEW o \in Ops, row[o].status = "completed"
        PROVE  row[o].src \in minted /\ ValidateCctpMessage(row[o], row[o].src)
    BY <2>1 DEF TransferInv, RowsOk, IsProved
  <2>2. NotifiedOnce
    BY DEF NotifiedOnce, TransferInv, ToldOnce
  <2> QED BY <2>1, <2>2 DEF BurnsAreMintedOnce, CompletedIsMinted
<1> QED BY <1>1, <1>2, <1>3, PTL DEF Spec

\* The columns of a row and the local state of a pass keep their domains.
THEOREM TransferTypes == ASSUME TransfersAssumption PROVE Spec => []TypeOK
<1>1. TransferInv => TypeOK
  BY DEF TransferInv, TypeInv, TypeOK, Row, Pass, Burns
<1>2. Init => TransferInv
  BY TransferInit
<1>3. TransferInv /\ [Next]_vars => TransferInv'
  BY TransferNext
<1> QED BY <1>1, <1>2, <1>3, PTL DEF Spec
=============================================================================

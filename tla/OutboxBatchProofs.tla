--------------------------- MODULE OutboxBatchProofs ---------------------------
(***************************************************************************)
(* Proofs about leased batches, for any messages, owners, leases and       *)
(* batch sizes.                                                            *)
(*                                                                         *)
(* A row is locked by one transaction, so what its draft was computed from *)
(* is still the row when it commits.  NOW() is never ahead of the clock.   *)
(* A claim in a publisher's hands is the row's current claim as long as    *)
(* the row names that publisher, unless it claimed the message again.      *)
(***************************************************************************)
EXTENDS OutboxBatch, TLAPS

\* One draft for each publisher.
Shape == draft = [o \in Owners |-> draft[o]]

LocksExclude ==
    /\ \A o \in Owners : now[o] # None => now[o] <= clock
    /\ \A o \in Owners, m \in Messages : m \in DOMAIN draft[o] => now[o] # None
    /\ \A o, p \in Owners, m \in Messages :
          m \in DOMAIN draft[o] /\ m \in DOMAIN draft[p] => o = p

IsClaim(o, m) ==
    /\ draft[o][m] = Claimed(o, m)
    /\ row[m].status = "delivering" => row[m].lease < now[o]

IsMark(o, m) ==
    /\ draft[o][m] \in {Published(m), Failed(o, m)}
    /\ row[m].owner = o /\ row[m].lease > 0
    /\ recording[o] = <<m, row[m].attempts>> \/ recording[o] \in again[o]

DraftsFollowRows ==
    \A o \in Owners, m \in Messages :
        m \in DOMAIN draft[o] => IsClaim(o, m) \/ IsMark(o, m)

BatchesAreCurrent ==
    \A o \in Owners, m \in Messages, a \in Nat :
        <<m, a>> \in batch[o] /\ row[m].owner = o =>
            a = row[m].attempts \/ <<m, a>> \in again[o]

OverdueStaysUnmarked ==
    \A m \in Messages, a \in Nat : <<m, a>> \in overdue =>
        /\ a <= row[m].attempts
        /\ a = row[m].attempts =>
              /\ row[m].lease <= clock
              /\ \A o \in Owners : m \in DOMAIN draft[o] => IsClaim(o, m)

Safe == LocksExclude /\ DraftsFollowRows /\ BatchesAreCurrent /\ OverdueStaysUnmarked

IInv == TypeOK /\ Shape /\ Safe

LEMMA InitInv == Init => IInv
<1> SUFFICES ASSUME Init PROVE IInv
    OBVIOUS
<1>1. \A o \in Owners : DOMAIN draft[o] = {} /\ batch[o] = {}
    BY DEF Init
<1>2. TypeOK
    BY <1>1, MessageAssumption, OwnerAssumption, PolicyAssumption DEF Init, TypeOK, Row, IsPartial
<1> QED  BY <1>1, <1>2
    DEF Init, IInv, Shape, Safe, LocksExclude, DraftsFollowRows, BatchesAreCurrent,
        OverdueStaysUnmarked

\* What the rewritten rows look like.
RowFacts(o, m) ==
    /\ Claimed(o, m) \in Row /\ Published(m) \in Row /\ Failed(o, m) \in Row
    /\ Claimed(o, m).status = "delivering" /\ Claimed(o, m).owner = o
    /\ Claimed(o, m).attempts = row[m].attempts + 1
    /\ Published(m).status = "published" /\ Failed(o, m).status = "pending"
    /\ Published(m).owner = None /\ Failed(o, m).owner = None
    /\ Published(m).attempts = row[m].attempts /\ Failed(o, m).attempts = row[m].attempts
    /\ row[m].attempts \in Nat /\ row[m].lease \in Nat
    /\ o # None /\ now[o] \in Nat

LEMMA RowTypes ==
    ASSUME IInv, NEW o \in Owners, NEW m \in Messages, now[o] # None
    PROVE  RowFacts(o, m)
<1>1. row[m] \in Row
    BY DEF IInv, TypeOK
<1>2. now[o] \in Nat /\ o # None
    BY OwnerAssumption DEF IInv, TypeOK
<1>3. now[o] + LeaseSeconds \in Nat /\ now[o] + RetrySeconds \in Nat /\ row[m].attempts + 1 \in Nat
    BY <1>1, <1>2, PolicyAssumption DEF Row
<1>4. /\ Claimed(o, m) \in Row /\ Claimed(o, m).status = "delivering"
      /\ Claimed(o, m).owner = o /\ Claimed(o, m).attempts = row[m].attempts + 1
    BY <1>1, <1>3 DEF Row, Claimed
<1>5. /\ Published(m) \in Row /\ Published(m).status = "published"
      /\ Published(m).owner = None /\ Published(m).attempts = row[m].attempts
    BY <1>1 DEF Row, Published
<1>6. /\ Failed(o, m) \in Row /\ Failed(o, m).status = "pending"
      /\ Failed(o, m).owner = None /\ Failed(o, m).attempts = row[m].attempts
    BY <1>1, <1>3 DEF Row, Failed
<1> QED  BY <1>1, <1>2, <1>4, <1>5, <1>6 DEF RowFacts, Row

-----------------------------------------------------------------------------
LEMMA BeginInv ==
    ASSUME IInv, NEW o \in Owners, Begin(o)
    PROVE  IInv'
<1>1. TypeOK' /\ Shape'
    BY DEF IInv, TypeOK, Shape, Begin
<1>2. \A m \in Messages : m \notin DOMAIN draft[o]
    BY DEF IInv, Safe, LocksExclude, Begin
<1>3. LocksExclude'
    BY <1>2 DEF IInv, TypeOK, Safe, LocksExclude, Begin
<1>4. \A p \in Owners, m \in Messages : m \in DOMAIN draft[p] =>
        (IsClaim(p, m) => IsClaim(p, m)') /\ (IsMark(p, m) => IsMark(p, m)')
    <2> SUFFICES ASSUME NEW p \in Owners, NEW m \in Messages, m \in DOMAIN draft[p]
                 PROVE  (IsClaim(p, m) => IsClaim(p, m)') /\ (IsMark(p, m) => IsMark(p, m)')
        OBVIOUS
    <2>1. now'[p] = now[p]
        BY <1>2 DEF IInv, TypeOK, Begin
    <2> QED  BY <2>1 DEF Begin, IsClaim, IsMark, Claimed, Published, Failed
<1>5. DraftsFollowRows' /\ BatchesAreCurrent' /\ OverdueStaysUnmarked'
    BY <1>4 DEF IInv, Safe, DraftsFollowRows, BatchesAreCurrent, OverdueStaysUnmarked, Begin
<1> QED  BY <1>1, <1>3, <1>5 DEF IInv, Safe

\* A transaction with nothing rewritten yet locks and rewrites some rows.
Rewrite(o) ==
    /\ now[o] # None /\ draft[o] = <<>>
    /\ UNCHANGED <<row, clock, now, batch, overdue, again>>
    /\ draft' = [draft EXCEPT ![o] = draft'[o]]
    /\ recording' \in [Owners -> Claims \union {None}]
    /\ \A p \in Owners : p # o => recording'[p] = recording[p]
    /\ IsPartial(draft'[o], Row)
    /\ \A m \in DOMAIN draft'[o] : ~Locked(m) /\ (IsClaim(o, m)' \/ IsMark(o, m)')
    /\ \A m \in DOMAIN draft'[o] :
          <<m, row[m].attempts>> \in overdue => IsClaim(o, m)'

LEMMA RewriteInv ==
    ASSUME IInv, NEW o \in Owners, Rewrite(o)
    PROVE  IInv'
<1>1. \A p \in Owners : p # o => draft'[p] = draft[p]
    BY DEF IInv, Shape, Rewrite
<1>2. TypeOK' /\ Shape'
    BY <1>1 DEF IInv, TypeOK, Shape, Rewrite
<1>3. LocksExclude'
    BY <1>1 DEF IInv, TypeOK, Safe, LocksExclude, Locked, Rewrite, IsPartial
<1>4. \A p \in Owners, m \in Messages : p # o /\ m \in DOMAIN draft[p] =>
        (IsClaim(p, m) => IsClaim(p, m)') /\ (IsMark(p, m) => IsMark(p, m)')
    BY <1>1 DEF Rewrite, IsClaim, IsMark, Claimed, Published, Failed
<1>5. DraftsFollowRows'
    BY <1>1, <1>4 DEF IInv, Safe, DraftsFollowRows, Rewrite
<1>6. BatchesAreCurrent' /\ OverdueStaysUnmarked'
    BY <1>1, <1>4 DEF IInv, Safe, BatchesAreCurrent, OverdueStaysUnmarked, Rewrite
<1> QED  BY <1>2, <1>3, <1>5, <1>6 DEF IInv, Safe

LEMMA ClaimInv ==
    ASSUME IInv, NEW o \in Owners, ClaimBatch(o)
    PROVE  IInv'
<1>1. /\ draft'[o] = [m \in Chosen(o) |-> Claimed(o, m)] /\ DOMAIN draft'[o] = Chosen(o)
      /\ draft' = [draft EXCEPT ![o] = draft'[o]]
    BY DEF IInv, Shape, ClaimBatch
<1>2. \A m \in Chosen(o) : m \in Messages /\ Candidate(o, m) /\ ~Locked(m)
    BY DEF Chosen
<1>3. IsPartial(draft'[o], Row)
    BY <1>1, <1>2, RowTypes DEF IsPartial, ClaimBatch, RowFacts
<1>4. \A m \in Chosen(o) : IsClaim(o, m)'
    BY <1>1, <1>2 DEF IsClaim, Claimed, Candidate, ClaimBatch
<1>5. Rewrite(o)
    BY <1>1, <1>2, <1>3, <1>4 DEF ClaimBatch, Rewrite, IInv, TypeOK
<1> QED  BY <1>5, RewriteInv

LEMMA MarkInv ==
    ASSUME IInv, NEW o \in Owners, NEW claim \in batch[o], Mark(o, claim)
    PROVE  IInv'
<1>1. PICK m \in Messages, a \in Nat : claim = <<m, a>>
    BY DEF IInv, TypeOK, Claims
<1>2. PICK outcome \in {Published(m), Failed(o, m)} :
        draft' = [draft EXCEPT ![o] = [n \in {m} |-> outcome]]
    BY <1>1 DEF Mark
<1>3. draft'[o] = [n \in {m} |-> outcome] /\ draft' = [draft EXCEPT ![o] = draft'[o]]
    BY <1>2 DEF IInv, Shape
<1>4. IsPartial(draft'[o], Row)
    BY <1>2, <1>3, RowTypes DEF IsPartial, Mark, RowFacts
<1>5. Marks(o, m) /\ ~Locked(m)
    BY <1>1 DEF Mark
<1>6. /\ recording'[o] = <<m, a>> /\ recording' \in [Owners -> Claims \union {None}]
      /\ \A p \in Owners : p # o => recording'[p] = recording[p]
    BY <1>1 DEF IInv, TypeOK, Claims, Mark
<1>7. IsMark(o, m)'
    <2>1. row[m].owner = o /\ row[m].lease > 0
        BY <1>5 DEF IInv, TypeOK, Row, Marks
    <2>2. a = row[m].attempts \/ <<m, a>> \in again[o]
        BY <1>1, <2>1 DEF IInv, Safe, BatchesAreCurrent
    <2> QED  BY <1>3, <1>6, <2>1, <2>2 DEF IsMark, Mark, Published, Failed
<1>8. <<m, row[m].attempts>> \notin overdue
    BY <1>5 DEF IInv, TypeOK, Row, Safe, OverdueStaysUnmarked, Marks
<1>9. Rewrite(o)
    BY <1>3, <1>4, <1>5, <1>6, <1>7, <1>8 DEF Mark, Rewrite
<1> QED  BY <1>9, RewriteInv

\* A transaction ends without effect, and its publisher keeps some claims.
Undo(o) ==
    /\ draft' = [draft EXCEPT ![o] = <<>>]
    /\ now' = [now EXCEPT ![o] = None]
    /\ recording' \in [Owners -> Claims \union {None}]
    /\ again' \in [Owners -> SUBSET Claims]
    /\ \A p \in Owners : p # o => recording'[p] = recording[p] /\ again'[p] = again[p]
    /\ \E kept \in SUBSET batch[o] :
          batch' = [batch EXCEPT ![o] = kept] /\ again[o] \intersect kept \subseteq again'[o]
    /\ UNCHANGED <<row, clock, overdue>>

LEMMA UndoInv ==
    ASSUME IInv, NEW o \in Owners, Undo(o)
    PROVE  IInv'
<1>1. PICK kept \in SUBSET batch[o] :
        batch' = [batch EXCEPT ![o] = kept] /\ again[o] \intersect kept \subseteq again'[o]
    BY DEF Undo
<1>2. /\ \A p \in Owners : p # o =>
            /\ draft'[p] = draft[p] /\ batch'[p] = batch[p] /\ now'[p] = now[p]
            /\ again'[p] = again[p] /\ recording'[p] = recording[p]
      /\ DOMAIN draft'[o] = {} /\ now'[o] = None /\ draft'[o] = <<>>
      /\ batch'[o] = kept /\ again[o] \intersect kept \subseteq again'[o]
    BY <1>1 DEF IInv, TypeOK, Shape, Undo
<1>3. TypeOK' /\ Shape'
    <2>1. now' \in [Owners -> Nat \union {None}] /\ \A p \in Owners : IsPartial(draft'[p], Row)
        BY <1>2 DEF IInv, TypeOK, IsPartial, Undo
    <2>2. batch' \in [Owners -> SUBSET Claims]
        BY <1>1 DEF IInv, TypeOK
    <2> QED  BY <2>1, <2>2 DEF IInv, TypeOK, Shape, Undo
<1>4. LocksExclude'
    BY <1>2 DEF IInv, Safe, LocksExclude, Undo
<1>5. \A p \in Owners, m \in Messages : p # o /\ m \in DOMAIN draft[p] =>
        (IsClaim(p, m) => IsClaim(p, m)') /\ (IsMark(p, m) => IsMark(p, m)')
    BY <1>2 DEF Undo, IsClaim, IsMark, Claimed, Published, Failed
<1>6. DraftsFollowRows' /\ OverdueStaysUnmarked'
    BY <1>2, <1>5 DEF IInv, Safe, DraftsFollowRows, OverdueStaysUnmarked, Undo
<1>7. BatchesAreCurrent'
    BY <1>2 DEF IInv, Safe, BatchesAreCurrent, Undo
<1> QED  BY <1>3, <1>4, <1>6, <1>7 DEF IInv, Safe

LEMMA EndsInv ==
    ASSUME IInv, NEW o \in Owners,
           Rollback(o) \/ Crash(o) \/ \E claim \in batch[o] : MarkTooLate(o, claim)
    PROVE  IInv'
<1>1. CASE Rollback(o)
    <2>1. batch' = [batch EXCEPT ![o] = batch[o]]
        BY <1>1 DEF IInv, TypeOK, Rollback
    <2> QED  BY <1>1, <2>1, UndoInv DEF IInv, TypeOK, Rollback, EndTransaction, Undo
<1>2. CASE Crash(o)
    BY <1>2, UndoInv DEF IInv, TypeOK, Crash, EndTransaction, Undo
<1>3. ASSUME NEW claim \in batch[o], MarkTooLate(o, claim)
      PROVE  IInv'
    <2>1. draft = [draft EXCEPT ![o] = <<>>]
        BY <1>3 DEF IInv, Shape, MarkTooLate
    <2>2. again' \in [Owners -> SUBSET Claims] /\ recording' = recording
        BY <1>3 DEF IInv, TypeOK, MarkTooLate
    <2>3. /\ batch' = [batch EXCEPT ![o] = batch[o] \ {claim}]
          /\ \A p \in Owners : again'[p] = IF p = o THEN again[o] \ {claim} ELSE again[p]
        BY <1>3 DEF IInv, TypeOK, MarkTooLate
    <2>4. /\ draft' = [draft EXCEPT ![o] = <<>>] /\ now' = [now EXCEPT ![o] = None]
          /\ recording \in [Owners -> Claims \union {None}]
          /\ UNCHANGED <<row, clock, overdue>>
        BY <1>3, <2>1 DEF IInv, TypeOK, MarkTooLate
    <2>5. again[o] \intersect (batch[o] \ {claim}) \subseteq again'[o]
        BY <2>3
    <2>6. Undo(o)
        BY <2>2, <2>3, <2>4, <2>5 DEF Undo
    <2> QED  BY <2>6, UndoInv
<1> QED  BY <1>1, <1>2, <1>3

-----------------------------------------------------------------------------
(* A transaction commits.                                                  *)

Effects(o) ==
    /\ \A m \in Messages :
          row'[m] = IF m \in DOMAIN draft[o] THEN draft[o][m] ELSE row[m]
    /\ \A p \in Owners : p # o =>
          /\ draft'[p] = draft[p] /\ batch'[p] = batch[p] /\ now'[p] = now[p]
          /\ again'[p] = again[p] /\ recording'[p] = recording[p]
    /\ DOMAIN draft'[o] = {} /\ draft'[o] = <<>> /\ now'[o] = None /\ clock' = clock
    /\ Grants(o) \subseteq DOMAIN draft[o] /\ DOMAIN draft[o] \subseteq Messages
    /\ batch'[o] \subseteq batch[o] \union Granted(o)
    /\ \A m \in Messages, a \in Nat :
          <<m, a>> \in batch[o] \intersect batch'[o] /\ (<<m, a>> \in again[o] \/ m \in Grants(o))
              => <<m, a>> \in again'[o]
    /\ \A m \in Messages, a \in Nat : <<m, a>> \in overdue' \ overdue =>
          m \in Grants(o) /\ a = draft[o][m].attempts /\ draft[o][m].lease <= clock

LEMMA CommitEffect ==
    ASSUME IInv, NEW o \in Owners, Commit(o)
    PROVE  Effects(o)
<1>1. Grants(o) \subseteq DOMAIN draft[o] /\ DOMAIN draft[o] \subseteq Messages
    BY DEF IInv, TypeOK, IsPartial, Grants
<1>2. /\ draft'[o] = <<>> /\ now'[o] = None
      /\ \A p \in Owners : p # o =>
            /\ draft'[p] = draft[p] /\ now'[p] = now[p]
            /\ again'[p] = again[p] /\ recording'[p] = recording[p]
    BY DEF IInv, TypeOK, Shape, Commit, EndTransaction
<1>3. /\ \A p \in Owners : p # o => batch'[p] = batch[p]
      /\ batch'[o] \subseteq batch[o] \union Granted(o)
    BY DEF IInv, TypeOK, Commit
<1>4. again'[o] = {claim \in batch[o] \intersect batch'[o] :
                      claim \in again[o] \/ claim[1] \in Grants(o)}
    BY DEF IInv, TypeOK, Commit
<1>5. \A m \in Messages, a \in Nat : <<m, a>> \in overdue' \ overdue =>
        m \in Grants(o) /\ a = draft[o][m].attempts /\ draft[o][m].lease <= clock
    BY DEF Commit, Granted
<1>6. \A m \in Messages : row'[m] = IF m \in DOMAIN draft[o] THEN draft[o][m] ELSE row[m]
    BY DEF Commit
<1>7. clock' = clock
    BY DEF Commit
<1> QED  BY <1>1, <1>2, <1>3, <1>4, <1>5, <1>6, <1>7 DEF Effects

\* A grant is a claim, every other rewritten row is a mark.
Kinds(o, m) ==
    /\ m \in Messages /\ now[o] # None /\ draft[o][m] \in Row
    /\ m \in Grants(o) =>
          IsClaim(o, m) /\ draft[o][m].owner = o /\ draft[o][m].attempts = row[m].attempts + 1
    /\ m \notin Grants(o) =>
          IsMark(o, m) /\ draft[o][m].owner = None /\ draft[o][m].attempts = row[m].attempts
          /\ ~IsClaim(o, m)
    /\ draft[o][m].attempts \in Nat /\ row[m].attempts \in Nat

LEMMA DraftKinds ==
    ASSUME IInv, NEW o \in Owners, NEW m \in DOMAIN draft[o]
    PROVE  Kinds(o, m)
<1>1. m \in Messages /\ draft[o][m] \in Row
    BY DEF IInv, TypeOK, IsPartial
<1>2. now[o] # None /\ (IsClaim(o, m) \/ IsMark(o, m))
    BY <1>1 DEF IInv, Safe, LocksExclude, DraftsFollowRows
<1>3. RowFacts(o, m)
    BY <1>1, <1>2, RowTypes
<1>4. IsClaim(o, m) =>
        /\ draft[o][m].status = "delivering" /\ draft[o][m].owner = o
        /\ draft[o][m].attempts = row[m].attempts + 1
    BY <1>3 DEF IsClaim, RowFacts
<1>5. IsMark(o, m) =>
        /\ draft[o][m].status # "delivering" /\ draft[o][m].owner = None
        /\ draft[o][m].attempts = row[m].attempts
    BY <1>3 DEF IsMark, RowFacts
<1>6. draft[o][m].attempts \in Nat /\ row[m].attempts \in Nat
    BY <1>1, <1>3 DEF Row, RowFacts
<1> QED  BY <1>1, <1>2, <1>4, <1>5, <1>6 DEF Grants, Kinds

LEMMA CommitTypes ==
    ASSUME IInv, NEW o \in Owners, Commit(o)
    PROVE  TypeOK' /\ Shape'
<1>1. Effects(o) /\ \A m \in DOMAIN draft[o] : Kinds(o, m)
    BY CommitEffect, DraftKinds
<1>2. row' \in [Messages -> Row]
    BY <1>1 DEF IInv, TypeOK, Commit, Kinds
<1>3. IsPartial(draft'[o], Row)
    BY <1>1 DEF Effects, IsPartial
<1>4. Granted(o) \subseteq Claims
    BY <1>1 DEF Effects, Kinds, Granted, Claims
<1>5. \A p \in Owners : IsPartial(draft'[p], Row)
    BY <1>1, <1>3 DEF IInv, TypeOK, Effects
<1>6. batch' \in [Owners -> SUBSET Claims]
    BY <1>4 DEF IInv, TypeOK, Commit
<1>7. overdue' \subseteq Claims /\ again' \in [Owners -> SUBSET Claims]
    BY <1>4, <1>6 DEF IInv, TypeOK, Commit
<1>8. /\ clock' \in 0..MaxClock /\ now' \in [Owners -> Nat \union {None}]
      /\ recording' \in [Owners -> Claims \union {None}] /\ Shape'
    BY DEF IInv, TypeOK, Shape, Commit, EndTransaction
<1> QED  BY <1>2, <1>5, <1>6, <1>7, <1>8 DEF TypeOK

\* Rows locked by others stay as they were.
Kept(p, m) ==
    /\ row'[m] = row[m] /\ m \in DOMAIN draft[p]
    /\ IsClaim(p, m) => IsClaim(p, m)'
    /\ IsMark(p, m) => IsMark(p, m)'

LEMMA OthersKeep ==
    ASSUME IInv, NEW o \in Owners, Commit(o), NEW p \in Owners, NEW m \in Messages,
           m \in DOMAIN draft'[p]
    PROVE  p # o /\ m \notin DOMAIN draft[o] /\ Kept(p, m)
<1>1. Effects(o)
    BY CommitEffect
<1>2. p # o
    BY <1>1 DEF Effects
<1>3. /\ draft'[p] = draft[p] /\ now'[p] = now[p]
      /\ again'[p] = again[p] /\ recording'[p] = recording[p]
    BY <1>1, <1>2 DEF Effects
<1>4. m \notin DOMAIN draft[o]
    BY <1>2, <1>3 DEF IInv, Safe, LocksExclude
<1>5. row'[m] = row[m]
    BY <1>1, <1>4 DEF Effects
<1> QED  BY <1>2, <1>3, <1>4, <1>5 DEF Kept, IsClaim, IsMark, Claimed, Published, Failed

LEMMA CommitInv ==
    ASSUME IInv, NEW o \in Owners, Commit(o)
    PROVE  IInv'
<1>1. Effects(o) /\ \A m \in DOMAIN draft[o] : Kinds(o, m)
    BY CommitEffect, DraftKinds
<1>2. \A p \in Owners, m \in Messages :
        m \in DOMAIN draft'[p] => p # o /\ m \notin DOMAIN draft[o] /\ Kept(p, m)
    BY OthersKeep
<1>3. LocksExclude'
    BY <1>1 DEF IInv, Safe, LocksExclude, Effects
<1>4. DraftsFollowRows'
    BY <1>2 DEF IInv, Safe, DraftsFollowRows, Kept
<1>5. BatchesAreCurrent'
    <2> SUFFICES ASSUME NEW p \in Owners, NEW m \in Messages, NEW a \in Nat,
                        <<m, a>> \in batch'[p], row'[m].owner = p
                 PROVE  a = row'[m].attempts \/ <<m, a>> \in again'[p]
        BY DEF BatchesAreCurrent
    <2>1. CASE m \notin DOMAIN draft[o]
        <3>1. row'[m] = row[m] /\ <<m, a>> \in batch[p]
            BY <1>1, <2>1 DEF Effects, Granted
        <3>2. a = row[m].attempts \/ <<m, a>> \in again[p]
            BY <3>1 DEF IInv, Safe, BatchesAreCurrent
        <3> QED  BY <1>1, <3>1, <3>2 DEF Effects
    <2>2. CASE m \in Grants(o)
        <3>1. row'[m] = draft[o][m] /\ p = o
            BY <1>1, <2>2 DEF Effects, Kinds
        <3>2. CASE <<m, a>> \in batch[o]
            BY <1>1, <2>2, <3>1, <3>2 DEF Effects
        <3>3. CASE <<m, a>> \in Granted(o)
            BY <3>1, <3>3 DEF Granted
        <3> QED  BY <1>1, <3>1, <3>2, <3>3 DEF Effects
    <2>3. CASE m \in DOMAIN draft[o] /\ m \notin Grants(o)
        BY <1>1, <2>3, OwnerAssumption DEF Effects, Kinds
    <2> QED  BY <2>1, <2>2, <2>3
<1>6. OverdueStaysUnmarked'
    <2> SUFFICES ASSUME NEW m \in Messages, NEW a \in Nat, <<m, a>> \in overdue'
                 PROVE  /\ a <= row'[m].attempts
                        /\ a = row'[m].attempts =>
                              /\ row'[m].lease <= clock'
                              /\ \A p \in Owners : m \in DOMAIN draft'[p] => IsClaim(p, m)'
        BY DEF OverdueStaysUnmarked
    <2>1. CASE m \notin DOMAIN draft[o]
        <3>1. <<m, a>> \in overdue /\ row'[m] = row[m] /\ clock' = clock
            BY <1>1, <2>1 DEF Effects
        <3> QED  BY <1>2, <3>1 DEF IInv, Safe, OverdueStaysUnmarked, Kept
    <2>2. CASE m \in Grants(o)
        <3>1. /\ row'[m] = draft[o][m] /\ row'[m].attempts = row[m].attempts + 1
              /\ row[m].attempts \in Nat /\ clock' = clock
            BY <1>1, <2>2 DEF Effects, Kinds
        <3>2. \A p \in Owners : m \notin DOMAIN draft'[p]
            BY <1>1, <1>2, <2>2 DEF Effects
        <3>3. CASE <<m, a>> \in overdue
            <4>1. a <= row[m].attempts
                BY <3>3 DEF IInv, Safe, OverdueStaysUnmarked
            <4> QED  BY <3>1, <4>1
        <3>4. CASE <<m, a>> \notin overdue
            <4>1. a = row'[m].attempts /\ row'[m].lease <= clock
                BY <1>1, <3>1, <3>4 DEF Effects
            <4> QED  BY <3>1, <3>2, <4>1
        <3> QED  BY <3>3, <3>4
    <2>3. CASE m \in DOMAIN draft[o] /\ m \notin Grants(o)
        <3>1. <<m, a>> \in overdue /\ row'[m].attempts = row[m].attempts /\ ~IsClaim(o, m)
            BY <1>1, <2>3 DEF Effects, Kinds
        <3>2. a <= row[m].attempts /\ a # row[m].attempts
            BY <2>3, <3>1 DEF IInv, Safe, OverdueStaysUnmarked
        <3> QED  BY <3>1, <3>2
    <2>4. Grants(o) \subseteq DOMAIN draft[o]
        BY <1>1 DEF Effects
    <2> QED  BY <2>1, <2>2, <2>3, <2>4
<1> QED  BY <1>3, <1>4, <1>5, <1>6, CommitTypes DEF IInv, Safe

LEMMA TickInv == ASSUME IInv, Tick PROVE IInv'
<1>1. TypeOK' /\ Shape' /\ LocksExclude'
    BY PolicyAssumption DEF IInv, TypeOK, Shape, Safe, LocksExclude, Tick
<1>2. \A o \in Owners, m \in Messages :
        (IsClaim(o, m) <=> IsClaim(o, m)') /\ (IsMark(o, m) <=> IsMark(o, m)')
    BY DEF Tick, IsClaim, IsMark, Claimed, Published, Failed
<1>3. DraftsFollowRows' /\ BatchesAreCurrent'
    BY <1>2 DEF IInv, Safe, DraftsFollowRows, BatchesAreCurrent, Tick
<1>4. OverdueStaysUnmarked'
    BY <1>2 DEF IInv, TypeOK, Row, Safe, OverdueStaysUnmarked, Tick
<1> QED  BY <1>1, <1>3, <1>4 DEF IInv, Safe

LEMMA StepInv == IInv /\ [Next]_vars => IInv'
<1> SUFFICES ASSUME IInv, [Next]_vars
             PROVE  IInv'
    OBVIOUS
<1>1. CASE UNCHANGED vars
    <2>1. \A o \in Owners, m \in Messages :
            (IsClaim(o, m) <=> IsClaim(o, m)') /\ (IsMark(o, m) <=> IsMark(o, m)')
        BY <1>1 DEF vars, IsClaim, IsMark, Claimed, Published, Failed
    <2> QED  BY <1>1, <2>1
        DEF IInv, TypeOK, Shape, Safe, LocksExclude, DraftsFollowRows, BatchesAreCurrent,
            OverdueStaysUnmarked, vars
<1>2. CASE Next
    BY <1>2, BeginInv, ClaimInv, CommitInv, EndsInv, MarkInv, TickInv DEF Next
<1> QED  BY <1>1, <1>2

LEMMA Invariant == Spec => []IInv
BY InitInv, StepInv, PTL DEF Spec

-----------------------------------------------------------------------------
\* Rows, drafts and batches keep their types.
THEOREM Types == Spec => []TypeOK
<1>1. IInv => TypeOK
    BY DEF IInv
<1> QED  BY <1>1, Invariant, PTL

\* Rows change by commits only.
LEMMA OnlyCommitsWrite ==
    ASSUME IInv, [Next]_vars, NEW m \in Messages, row'[m] # row[m]
    PROVE  \E o \in Owners : Commit(o) /\ m \in DOMAIN draft[o] /\ row'[m] = draft[o][m]
<1>1. PICK o \in Owners : Commit(o)
    BY DEF Next, vars, Begin, ClaimBatch, Rollback, Crash, Mark, MarkTooLate, Tick
<1>2. Effects(o)
    BY <1>1, CommitEffect
<1> QED  BY <1>1, <1>2 DEF Effects

\* An outcome is recorded under the claim that was answered to its publisher,
\* or under a later claim of that publisher's own.
THEOREM OwnClaims == Spec => MarksOwnClaim
<1>1. ASSUME IInv, [Next]_vars, NEW o \in Owners, NEW m \in Messages,
             m \in DOMAIN draft[o], row'[m] # row[m], row'[m].status # "delivering"
      PROVE  /\ row[m].owner = o
             /\ recording[o] = <<m, row[m].attempts>> \/ recording[o] \in again[o]
    <2>1. PICK p \in Owners : m \in DOMAIN draft[p] /\ row'[m] = draft[p][m]
        BY <1>1, OnlyCommitsWrite
    <2>2. p = o
        BY <1>1, <2>1 DEF IInv, Safe, LocksExclude
    <2>3. IsMark(o, m)
        BY <1>1, <2>1, <2>2, DraftKinds DEF Grants, Kinds
    <2> QED  BY <2>3 DEF IsMark
<1>2. IInv /\ [Next]_vars => [\A o \in Owners, m \in Messages :
          m \in DOMAIN draft[o] /\ row'[m] # row[m] /\ row'[m].status # "delivering"
              => /\ row[m].owner = o
                 /\ \/ recording[o] = <<m, row[m].attempts>>
                    \/ recording[o] \in again[o]]_vars
    BY <1>1
<1> QED  BY <1>2, Invariant, PTL DEF Spec, MarksOwnClaim

\* Only a lease that is over by the clock of the database is taken over.
THEOREM NoTakeover == Spec => NoTakeoverOfLiveLease
<1>1. ASSUME IInv, [Next]_vars, NEW m \in Messages,
             row[m].status = "delivering", row'[m].attempts > row[m].attempts
      PROVE  row[m].lease < clock
    <2>1. row[m].attempts \in Nat /\ row[m].lease \in Nat /\ clock \in Nat
        BY <1>1 DEF IInv, TypeOK, Row
    <2>2. PICK o \in Owners : m \in DOMAIN draft[o] /\ row'[m] = draft[o][m]
        BY <1>1, <2>1, OnlyCommitsWrite
    <2>3. IsClaim(o, m)
        <3>1. Kinds(o, m)
            BY <1>1, <2>2, DraftKinds
        <3> QED  BY <1>1, <2>1, <2>2, <3>1 DEF Kinds
    <2>4. now[o] \in Nat /\ now[o] <= clock /\ row[m].lease < now[o]
        BY <1>1, <2>2, <2>3 DEF IInv, TypeOK, Safe, LocksExclude, IsClaim
    <2> QED  BY <2>1, <2>4
<1>2. IInv /\ [Next]_vars => [\A m \in Messages :
          row[m].status = "delivering" /\ row'[m].attempts > row[m].attempts
              => row[m].lease < clock]_vars
    BY <1>1
<1> QED  BY <1>2, Invariant, PTL DEF Spec, NoTakeoverOfLiveLease

\* Under a lease that was over when it was granted nothing is ever recorded.
THEOREM OverdueGrants == Spec => OverdueGrantsRecordNothing
<1>1. ASSUME IInv, [Next]_vars, NEW m \in Messages,
             <<m, row[m].attempts>> \in overdue, row'[m] # row[m]
      PROVE  row'[m].attempts = row[m].attempts + 1
    <2>1. PICK o \in Owners : m \in DOMAIN draft[o] /\ row'[m] = draft[o][m]
        BY <1>1, OnlyCommitsWrite
    <2>2. IsClaim(o, m)
        BY <1>1, <2>1 DEF IInv, TypeOK, Row, Safe, OverdueStaysUnmarked
    <2>3. Kinds(o, m)
        BY <1>1, <2>1, DraftKinds
    <2> QED  BY <2>1, <2>2, <2>3 DEF Kinds
<1>2. IInv /\ [Next]_vars => [\A m \in Messages :
          <<m, row[m].attempts>> \in overdue /\ row'[m] # row[m]
              => row'[m].attempts = row[m].attempts + 1]_vars
    BY <1>1
<1> QED  BY <1>2, Invariant, PTL DEF Spec, OverdueGrantsRecordNothing
=============================================================================

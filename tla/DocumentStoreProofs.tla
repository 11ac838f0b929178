------------------------- MODULE DocumentStoreProofs -------------------------
(***************************************************************************)
(* Proofs about DocumentStore: for any number of clients, uuids, kinds,    *)
(* fields and leaf addresses.                                              *)
(***************************************************************************)
EXTENDS DocumentStore, SequenceTheorems, WellFoundedInduction, TLAPS

-----------------------------------------------------------------------------
(* Facts about the operators of the model.                                 *)

\* A non-empty set of natural numbers has a least element.
LEMMA LeastNatural ==
    ASSUME NEW S \in SUBSET Nat, S # {}
    PROVE  \E m \in S : \A k \in S : m <= k
<1> DEFINE Below == {p \in Nat \X Nat : p[1] < p[2]}
<1>1. IsWellFoundedOn(Below, Nat)
  BY NatLessThanWellFounded DEF OpToRel
<1> HIDE DEF Below
<1>2. PICK m \in S : \A k \in S : ~ (<<k, m>> \in Below)
  BY <1>1, WFMin
<1>3. \A k \in S : ~ (k < m)
  BY <1>2 DEF Below
<1> QED BY <1>3

\* Removing one entry of a sequence keeps the others, in their order.
LEMMA RemoveAtKeeps ==
    ASSUME NEW S, NEW s \in Seq(S), NEW i \in DOMAIN s
    PROVE  /\ RemoveAt(s, i) \in Seq(S)
           /\ Len(RemoveAt(s, i)) = Len(s) - 1
           /\ \A j \in 1 .. Len(s) - 1 : RemoveAt(s, i)[j] = IF j < i THEN s[j] ELSE s[j + 1]
<1>1. i \in 1 .. Len(s) /\ DOMAIN s = 1 .. Len(s) /\ Len(s) \in Nat
  BY LenProperties
<1>2. \A j \in 1 .. Len(s) : s[j] \in S
  BY ElementOfSeq
<1>3. /\ SubSeq(s, 1, i - 1) \in Seq(S)
      /\ Len(SubSeq(s, 1, i - 1)) = i - 1
      /\ \A j \in 1 .. i - 1 : SubSeq(s, 1, i - 1)[j] = s[j]
  BY <1>1, <1>2, SubSeqProperties
<1>4. /\ SubSeq(s, i + 1, Len(s)) \in Seq(S)
      /\ Len(SubSeq(s, i + 1, Len(s))) = Len(s) - i
      /\ \A j \in 1 .. Len(s) - i : SubSeq(s, i + 1, Len(s))[j] = s[i + j]
  BY <1>1, <1>2, SubSeqProperties
<1>5. /\ RemoveAt(s, i) \in Seq(S)
      /\ Len(RemoveAt(s, i)) = (i - 1) + (Len(s) - i)
      /\ \A j \in 1 .. (i - 1) + (Len(s) - i) :
             RemoveAt(s, i)[j] = IF j <= i - 1 THEN SubSeq(s, 1, i - 1)[j]
                                 ELSE SubSeq(s, i + 1, Len(s))[j - (i - 1)]
  <2> DEFINE a == SubSeq(s, 1, i - 1)
             b == SubSeq(s, i + 1, Len(s))
  <2>1. a \in Seq(S) /\ Len(a) = i - 1 /\ b \in Seq(S) /\ Len(b) = Len(s) - i
    BY <1>3, <1>4
  <2>2. RemoveAt(s, i) = a \o b
    BY DEF RemoveAt
  <2> HIDE DEF a, b
  <2>3. /\ a \o b \in Seq(S)
        /\ Len(a \o b) = Len(a) + Len(b)
        /\ \A j \in 1 .. Len(a) + Len(b) : (a \o b)[j] = IF j <= Len(a) THEN a[j] ELSE b[j - Len(a)]
    BY <2>1, ConcatProperties
  <2>4. /\ RemoveAt(s, i) \in Seq(S)
        /\ Len(RemoveAt(s, i)) = (i - 1) + (Len(s) - i)
        /\ \A j \in 1 .. (i - 1) + (Len(s) - i) :
               RemoveAt(s, i)[j] = IF j <= i - 1 THEN a[j] ELSE b[j - (i - 1)]
    BY <2>1, <2>2, <2>3
  <2> QED BY <2>4 DEF a, b
<1>6. ASSUME NEW j \in 1 .. Len(s) - 1
      PROVE  RemoveAt(s, i)[j] = IF j < i THEN s[j] ELSE s[j + 1]
  <2>1. CASE j < i
    BY <1>1, <1>3, <1>5, <2>1
  <2>2. CASE ~ (j < i)
    <3>1. j - (i - 1) \in 1 .. Len(s) - i /\ i + (j - (i - 1)) = j + 1
      BY <1>1, <2>2
    <3>2. RemoveAt(s, i)[j] = SubSeq(s, i + 1, Len(s))[j - (i - 1)]
      BY <1>1, <1>5, <2>2
    <3> QED BY <1>4, <2>2, <3>1, <3>2
  <2> QED BY <2>1, <2>2
<1> QED BY <1>1, <1>5, <1>6

\* In a list without duplicates the removed entry is gone and the rest is still there.
LEMMA RemoveAtToSet ==
    ASSUME NEW S, NEW s \in Seq(S), NEW i \in DOMAIN s, IsInjective(s)
    PROVE  /\ IsInjective(RemoveAt(s, i))
           /\ ToSet(RemoveAt(s, i)) = ToSet(s) \ {s[i]}
<1> DEFINE r == RemoveAt(s, i)
<1>1. DOMAIN s = 1 .. Len(s) /\ Len(s) \in Nat /\ i \in 1 .. Len(s)
  BY LenProperties
<1>2. /\ r \in Seq(S) /\ Len(r) = Len(s) - 1
      /\ \A j \in 1 .. Len(s) - 1 : r[j] = IF j < i THEN s[j] ELSE s[j + 1]
  BY RemoveAtKeeps
<1>3. DOMAIN r = 1 .. Len(s) - 1
  BY <1>2, LenProperties
<1> HIDE DEF r
<1>4. IsInjective(r)
  <2> SUFFICES ASSUME NEW a \in DOMAIN r, NEW b \in DOMAIN r, r[a] = r[b]
               PROVE  a = b
    BY DEF IsInjective
  <2>1. \A x, y \in 1 .. Len(s) : s[x] = s[y] => x = y
    BY <1>1 DEF IsInjective
  <2> QED BY <1>1, <1>2, <1>3, <2>1
<1>5. ASSUME NEW x \in ToSet(r) PROVE x \in ToSet(s) \ {s[i]}
  <2>1. PICK j \in 1 .. Len(s) - 1 : x = r[j]
    BY <1>3 DEF ToSet
  <2>2. PICK k \in 1 .. Len(s) : k # i /\ x = s[k]
    BY <1>1, <1>2, <2>1
  <2>3. s[k] # s[i]
    BY <1>1, <2>2 DEF IsInjective
  <2> QED BY <1>1, <2>2, <2>3 DEF ToSet
<1>6. ASSUME NEW x \in ToSet(s) \ {s[i]} PROVE x \in ToSet(r)
  <2>1. PICK k \in 1 .. Len(s) : k # i /\ x = s[k]
    BY <1>1 DEF ToSet
  <2>2. PICK j \in 1 .. Len(s) - 1 : x = r[j]
    <3>1. CASE k < i
      BY <1>1, <1>2, <2>1, <3>1
    <3>2. CASE i < k
      <4>1. k - 1 \in 1 .. Len(s) - 1 /\ ~ (k - 1 < i) /\ (k - 1) + 1 = k
        BY <1>1, <3>2
      <4> QED BY <1>2, <2>1, <4>1
    <3> QED BY <1>1, <2>1, <3>1, <3>2
  <2> QED BY <1>3, <2>2 DEF ToSet
<1>7. ToSet(r) = ToSet(s) \ {s[i]}
  BY <1>5, <1>6
<1> QED BY <1>4, <1>7 DEF r

\* Appending an entry adds it to the set of entries.
LEMMA AppendToSet ==
    ASSUME NEW S, NEW s \in Seq(S), NEW e \in S
    PROVE  /\ Append(s, e) \in Seq(S)
           /\ DOMAIN Append(s, e) = 1 .. Len(s) + 1
           /\ ToSet(Append(s, e)) = ToSet(s) \cup {e}
           /\ IsInjective(s) /\ e \notin ToSet(s) => IsInjective(Append(s, e))
<1> DEFINE t == Append(s, e)
<1>1. DOMAIN s = 1 .. Len(s) /\ Len(s) \in Nat
  BY LenProperties
<1>2. /\ t \in Seq(S) /\ Len(t) = Len(s) + 1
      /\ \A i \in 1 .. Len(s) : t[i] = s[i]
      /\ t[Len(s) + 1] = e
  BY AppendProperties
<1>3. DOMAIN t = 1 .. Len(s) + 1
  BY <1>2, LenProperties
<1> HIDE DEF t
<1>4. ToSet(t) = ToSet(s) \cup {e}
  <2>1. ASSUME NEW x \in ToSet(t) PROVE x \in ToSet(s) \cup {e}
    <3>1. PICK i \in 1 .. Len(s) + 1 : x = t[i]
      BY <1>3 DEF ToSet
    <3>2. CASE i = Len(s) + 1
      BY <1>2, <3>1, <3>2
    <3>3. CASE i # Len(s) + 1
      BY <1>1, <3>3, <1>2, <3>1 DEF ToSet
    <3> QED BY <3>2, <3>3
  <2>2. ASSUME NEW x \in ToSet(s) PROVE x \in ToSet(t)
    <3>1. PICK i \in 1 .. Len(s) : x = s[i]
      BY <1>1 DEF ToSet
    <3>2. i \in DOMAIN t /\ x = t[i]
      BY <1>1, <1>2, <1>3, <3>1
    <3> QED BY <3>2 DEF ToSet
  <2>3. e \in ToSet(t)
    BY <1>1, <1>3, <1>2 DEF ToSet
  <2> QED BY <2>1, <2>2, <2>3
<1>5. ASSUME IsInjective(s), e \notin ToSet(s) PROVE IsInjective(t)
  <2> SUFFICES ASSUME NEW a \in DOMAIN t, NEW b \in DOMAIN t, t[a] = t[b]
               PROVE  a = b
    BY DEF IsInjective
  <2>1. \A x, y \in 1 .. Len(s) : s[x] = s[y] => x = y
    BY <1>1, <1>5 DEF IsInjective
  <2>2. \A x \in 1 .. Len(s) : s[x] # e
    BY <1>1, <1>5 DEF ToSet
  <2> QED BY <1>1, <1>2, <1>3, <2>1, <2>2
<1> QED BY <1>2, <1>3, <1>4, <1>5 DEF t

-----------------------------------------------------------------------------
(* The types of all variables, and what a client's call holds at each step. *)

Inserts == Updates \cup {"storage_insert_document"}
Writers == Inserts \cup Deletes

Ops == Writers \cup Scans \cup Gets \cup {"none"}

Calls == [op : Ops, id : Ids \cup {AnyId}, kind : Kinds, tag : SUBSET Tags,
          leaf : Leaves \cup {NoLeaf}, doc : Docs \cup {NoDoc}, next : Nat \ {0},
          hits : Seq(Docs)]

\* What the call r of client c holds when the client is at step p.
CallShape(c, p, r) ==
    /\ r.leaf \in Leaves <=> p \in {"copy", "parse", "append"}
    /\ p = "copy" => r.op \in Gets \cup Updates \cup Deletes
    /\ p = "unlink" => r.op \in Updates \cup Deletes
    /\ p \in {"check", "append"} => r.op \in Inserts
    /\ p \in {"scan", "parse"} => r.op \in Scans
    /\ p = "put" => r.op \in {"virtual_get", "db_get_document"}
    /\ p \in {"copy", "unlink", "check", "append", "put"} => r.id \in Ids
    /\ p \in {"check", "append", "put"} => r.doc \in Docs
    /\ p = "unlink" /\ r.op \in Updates => r.doc \in Docs
    /\ r.op \in Updates => \E t \in Tags : r.tag = {t}
    /\ r.op = "db_get_document" => r.id \in Ids
    /\ p # "idle" => r.op \in use.handlers
    /\ p # "idle" /\ r.op \in Writers => r.id \in use.writes[c] /\ r.id \in issued

TypeInv ==
    /\ TypeOK
    /\ call \in [Clients -> Calls]
    /\ docCache \in [Ids -> Docs \cup {NoDoc}]
    /\ queryCache \in [Queries -> Seq(Docs) \cup {NoResult}]
    /\ use \in Uses
    /\ \A c \in Clients : CallShape(c, pc[c], call[c])
    /\ \A l \in alive : leaf[l].key \in issued /\ leaf[l].doc \in Docs

\* The call a client has between two requests.
LEMMA NoCallType == NoCall \in Calls /\ \A c : CallShape(c, "idle", NoCall)
  BY StoreAssumption DEF NoCall, Calls, Ops, CallShape, Updates, Deletes, Inserts, Writers

\* The call a request starts with.
LEMMA CallOfType ==
    ASSUME NEW op \in Ops, NEW id \in Ids \cup {AnyId}, NEW kind \in Kinds, NEW tag \in SUBSET Tags
    PROVE  /\ CallOf(op, id, kind, tag) \in Calls
           /\ CallOf(op, id, kind, tag).op = op
           /\ CallOf(op, id, kind, tag).id = id
           /\ CallOf(op, id, kind, tag).kind = kind
           /\ CallOf(op, id, kind, tag).tag = tag
           /\ CallOf(op, id, kind, tag).leaf = NoLeaf
           /\ CallOf(op, id, kind, tag).doc = NoDoc
           /\ CallOf(op, id, kind, tag).next = 1
           /\ CallOf(op, id, kind, tag).hits = <<>>
BY NoCallType DEF CallOf, NoCall, Calls

\* A document under a new uuid, and one with more fields.
LEMMA DocTypes ==
    /\ \A id \in Ids : NewDoc(id) \in Docs /\ NewDoc(id).id = id /\ NewDoc(id).fields = {}
    /\ \A d \in Docs, tag \in SUBSET Tags :
           /\ Merge(d, tag) \in Docs
           /\ Merge(d, tag).id = d.id
           /\ Merge(d, tag).fields = d.fields \cup tag
    /\ NoDoc \notin Docs
BY StoreAssumption DEF NewDoc, Merge, Docs

\* What a step that moves one client leaves to the others.
LEMMA ClientMoves ==
    ASSUME TypeInv, NEW c \in Clients, NEW p \in PCs, NEW r \in Calls, GoOn(c, p, r),
           CallShape(c, p, r), UNCHANGED use, issued \subseteq issued'
    PROVE  /\ pc' \in [Clients -> PCs] /\ call' \in [Clients -> Calls]
           /\ pc'[c] = p /\ call'[c] = r
           /\ \A d \in Clients \ {c} : pc'[d] = pc[d] /\ call'[d] = call[d]
           /\ \A d \in Clients : CallShape(d, pc[d], call[d])'
           /\ \A d \in Clients : call'[d].leaf \in Leaves \cup {NoLeaf}
<1>1. pc \in [Clients -> PCs] /\ call \in [Clients -> Calls]
  BY DEF TypeInv, TypeOK
<1>2. /\ pc' \in [Clients -> PCs] /\ call' \in [Clients -> Calls]
      /\ pc'[c] = p /\ call'[c] = r
      /\ \A d \in Clients \ {c} : pc'[d] = pc[d] /\ call'[d] = call[d]
  BY <1>1 DEF GoOn
<1>3. \A d \in Clients : CallShape(d, pc'[d], call'[d])
  BY <1>2 DEF TypeInv
<1>4. \A d \in Clients : CallShape(d, pc[d], call[d])'
  BY <1>3, issued \subseteq issued', use' = use DEF CallShape
<1>5. \A d \in Clients : call'[d].leaf \in Leaves \cup {NoLeaf}
  BY <1>2 DEF Calls
<1> QED BY <1>2, <1>4, <1>5

\* The end of a call is such a step.
LEMMA ReturnMoves == \A c : Return(c) => GoOn(c, "idle", NoCall)
BY DEF Return, GoOn
\* A leaf between its creation and its way into the list belongs to one client,
\* holds that client's document and is not in the list.
Ownership ==
    /\ ListOwnsLeaves
    /\ \A c \in Clients : pc[c] = "append" =>
           leaf[call[c].leaf] = [key |-> call[c].id, doc |-> call[c].doc]
    /\ \A c, d \in Clients : pc[c] = "append" /\ pc[d] = "append" /\ call[c].leaf = call[d].leaf => c = d

ListInv == TypeInv /\ Ownership

\* A search that finds a uuid returns the first leaf stored under it.
LEMMA SearchFinds ==
    ASSUME ListInv, NEW id, Stored(id)
    PROVE  /\ FirstIndex(id) \in DOMAIN list
           /\ FirstIndex(id) \in IndicesOf(id)
           /\ art_search_in_list(id) = list[FirstIndex(id)]
           /\ art_search_in_list(id) \in ToSet(list) \cap alive
           /\ art_search_in_list(id) \in Leaves
           /\ leaf[art_search_in_list(id)].key = id
           /\ id \in issued
<1>1. IndicesOf(id) # {}
  BY DEF Stored
<1>2. DOMAIN list = 1 .. Len(list) /\ Len(list) \in Nat
  BY LenProperties DEF ListInv, TypeInv, TypeOK
<1>3. IndicesOf(id) \in SUBSET Nat
  BY <1>2 DEF IndicesOf
<1>4. \E i \in IndicesOf(id) : \A j \in IndicesOf(id) : i <= j
  BY <1>1, <1>3, LeastNatural
<1>5. FirstIndex(id) \in IndicesOf(id)
  BY <1>4 DEF FirstIndex
<1>6. FirstIndex(id) \in DOMAIN list /\ leaf[list[FirstIndex(id)]].key = id
  BY <1>5 DEF IndicesOf
<1>7. art_search_in_list(id) = list[FirstIndex(id)]
  BY DEF art_search_in_list
<1>8. list[FirstIndex(id)] \in ToSet(list)
  BY <1>6 DEF ToSet
<1>9. ToSet(list) \subseteq alive
  BY DEF ListInv, Ownership, ListOwnsLeaves
<1>10. alive \subseteq Leaves /\ \A l \in alive : leaf[l].key \in issued
  BY DEF ListInv, TypeInv, TypeOK
<1> QED BY <1>5, <1>6, <1>7, <1>8, <1>9, <1>10

\* What a reader parses from a leaf is a document or nothing.
LEMMA TextType ==
    ASSUME TypeInv, NEW l \in Leaves, NEW doc \in TextAt(l)
    PROVE  doc \in Docs \cup {NoDoc}
BY DEF TypeInv, TypeOK, TextAt

\* A step of one client that leaves the list and the leaves alone.
LEMMA AcknowledgingStep ==
    ASSUME ListInv, NEW c \in Clients, NEW p \in PCs \ {"append"}, NEW r \in Calls, GoOn(c, p, r),
           CallShape(c, p, r), pc[c] # "append",
           UNCHANGED <<list, leaf, alive, issued, use>>, acked' \in [Ids -> SUBSET Tags],
           docCache' \in [Ids -> Docs \cup {NoDoc}],
           queryCache' \in [Queries -> Seq(Docs) \cup {NoResult}]
    PROVE  ListInv'
<1> USE DEF ListInv
<1>1. /\ pc' \in [Clients -> PCs] /\ call' \in [Clients -> Calls]
      /\ pc'[c] = p /\ call'[c] = r
      /\ \A d \in Clients \ {c} : pc'[d] = pc[d] /\ call'[d] = call[d]
      /\ \A d \in Clients : CallShape(d, pc[d], call[d])'
      /\ \A d \in Clients : call'[d].leaf \in Leaves \cup {NoLeaf}
  BY ClientMoves
<1>2. TypeOK'
  BY <1>1 DEF TypeInv, TypeOK
<1>3. TypeInv'
  BY <1>1, <1>2 DEF TypeInv
<1>4. \A d \in Clients : pc'[d] = "append" <=> pc[d] = "append"
  BY <1>1
<1>5. \A d \in Clients : pc[d] = "append" => call'[d] = call[d]
  BY <1>1
<1>6. PrivateLeaves' = PrivateLeaves
  BY <1>4, <1>5 DEF PrivateLeaves
<1>7. Ownership'
  BY <1>4, <1>5, <1>6 DEF Ownership, ListOwnsLeaves
<1> QED BY <1>3, <1>7

LEMMA LocalStep ==
    ASSUME ListInv, NEW c \in Clients, NEW p \in PCs \ {"append"}, NEW r \in Calls, GoOn(c, p, r),
           CallShape(c, p, r), pc[c] # "append",
           UNCHANGED <<list, leaf, alive, issued, acked, use>>,
           docCache' \in [Ids -> Docs \cup {NoDoc}],
           queryCache' \in [Queries -> Seq(Docs) \cup {NoResult}]
    PROVE  ListInv'
  BY AcknowledgingStep DEF ListInv, TypeInv, TypeOK

\* A request that searches for a uuid.
LEMMA SearchStep ==
    ASSUME ListInv, NEW c \in Clients, NEW op \in Gets \cup Updates \cup Deletes, NEW id \in Ids,
           NEW kind \in Kinds, NEW tag \in SUBSET Tags,
           Search(c, CallOf(op, id, kind, tag)), pc[c] = "idle", UNCHANGED use,
           op \in use.handlers,
           op \in Updates => \E t \in Tags : tag = {t},
           op \in Writers => id \in use.writes[c]
    PROVE  /\ ListInv'
           /\ Stored(id)
           /\ pc'[c] = "copy"
           /\ call'[c] = [CallOf(op, id, kind, tag) EXCEPT !.leaf = art_search_in_list(id)]
           /\ UNCHANGED <<list, leaf, alive, issued, docCache, queryCache, acked>>
<1> DEFINE r0 == CallOf(op, id, kind, tag)
           r  == [r0 EXCEPT !.leaf = art_search_in_list(id)]
<1>0. op \in Ops
  BY DEF Ops, Writers, Inserts
<1>1. /\ r0 \in Calls /\ r0.op = op /\ r0.id = id /\ r0.tag = tag
  BY <1>0, CallOfType
<1> HIDE DEF r0
<1>2. art_search_in_list(id) # NoLeaf /\ GoOn(c, "copy", r)
      /\ UNCHANGED <<list, leaf, alive, issued, docCache, queryCache, acked>>
  BY <1>1 DEF Search, r0
<1>3. Stored(id)
  BY <1>2 DEF art_search_in_list
<1>4. art_search_in_list(id) \in Leaves /\ id \in issued
  BY <1>3, SearchFinds
<1>5. /\ r \in Calls /\ r.op = op /\ r.id = id /\ r.tag = tag /\ r.leaf = art_search_in_list(id)
  BY <1>1, <1>4 DEF Calls
<1> HIDE DEF r
<1>6. CallShape(c, "copy", r)
  BY <1>4, <1>5 DEF CallShape, Gets, Updates, Deletes, Inserts, Writers
<1>7. "copy" \in PCs \ {"append"} /\ TypeInv
  BY DEF PCs, ListInv
<1>8. docCache' \in [Ids -> Docs \cup {NoDoc}] /\ queryCache' \in [Queries -> Seq(Docs) \cup {NoResult}]
  BY <1>2 DEF ListInv, TypeInv
<1>9. ListInv'
  BY <1>2, <1>5, <1>6, <1>7, <1>8, LocalStep
<1>10. pc'[c] = "copy" /\ call'[c] = r
  BY <1>2 DEF GoOn, ListInv, TypeInv, TypeOK
<1> QED BY <1>2, <1>3, <1>9, <1>10 DEF r, r0
\* The four ways a request starts.
Searches(c, op, id, kind, tag) ==
    /\ pc[c] = "idle"
    /\ op \in use.handlers
    /\ op \in Updates => \E t \in Tags : tag = {t}
    /\ op \in Writers => id \in use.writes[c]
    /\ Search(c, CallOf(op, id, kind, tag))

StartsScan(c, op, id, kind) ==
    /\ pc[c] = "idle"
    /\ op \in use.handlers
    /\ op = "db_get_document" => id \in Ids
    /\ StartScan(c, CallOf(op, id, kind, {}))

UsesCached(c, id, kind, result) ==
    /\ pc[c] = "idle"
    /\ "db_get_document" \in use.handlers
    /\ result = queryCache[[kind |-> kind, id |-> id]]
    /\ result \notin {NoResult, <<>>}
    /\ GoOn(c, "put", [CallOf("db_get_document", id, kind, {}) EXCEPT !.doc = Head(result)])
    /\ UNCHANGED <<list, leaf, alive, issued, docCache, queryCache, acked>>

LEMMA RequestCases ==
    ASSUME ListInv, NEW c \in Clients, Request(c)
    PROVE  \/ \E op \in Gets \cup Updates \cup Deletes, id \in Ids, kind \in Kinds, tag \in SUBSET Tags :
                  Searches(c, op, id, kind, tag)
           \/ \E op \in Scans, id \in Ids \cup {AnyId}, kind \in Kinds : StartsScan(c, op, id, kind)
           \/ \E id \in Ids, kind \in Kinds, result \in Seq(Docs) : UsesCached(c, id, kind, result)
           \/ \E id \in Ids : storage_insert_document(c, id)
<1>1. use.ids \subseteq Ids /\ use.tags \subseteq Tags /\ \A id \in Ids : KindOf[id] \in Kinds
  BY StoreAssumption DEF ListInv, TypeInv
<1> USE DEF Searches, StartsScan, Gets, Updates, Deletes, Scans, Writers, Inserts
<1>2. ASSUME NEW id \in use.ids, storage_get_document(c, id)
      PROVE  Searches(c, "storage_get_document", id, KindOf[id], {})
  BY <1>2 DEF storage_get_document
<1>3. ASSUME NEW id \in use.ids, virtual_get(c, id)
      PROVE  Searches(c, "virtual_get", id, KindOf[id], {})
  BY <1>3 DEF virtual_get
<1>4. ASSUME NEW id \in use.ids, storage_delete_document(c, id)
      PROVE  Searches(c, "storage_delete_document", id, KindOf[id], {})
  BY <1>4 DEF storage_delete_document
<1>5. ASSUME NEW id \in use.ids, NEW tag \in use.tags, storage_update_document(c, id, tag)
      PROVE  Searches(c, "storage_update_document", id, KindOf[id], {tag})
  BY <1>1, <1>5 DEF storage_update_document
<1>6. ASSUME NEW id \in use.ids, NEW kind \in Kinds, NEW tag \in use.tags, db_update_document(c, id, kind, tag)
      PROVE  Searches(c, "db_update_document", id, kind, {tag})
  BY <1>1, <1>6 DEF db_update_document
<1>7. ASSUME NEW id \in use.ids, NEW kind \in Kinds, db_delete_document(c, id, kind)
      PROVE  Searches(c, "db_delete_document", id, kind, {})
  BY <1>7 DEF db_delete_document
<1>8. ASSUME NEW kind \in Kinds, storage_query_documents(c, kind)
      PROVE  StartsScan(c, "storage_query_documents", AnyId, kind)
  BY <1>8 DEF storage_query_documents
<1>9. ASSUME NEW kind \in Kinds, db_query_documents(c, kind)
      PROVE  StartsScan(c, "db_query_documents", AnyId, kind)
  BY <1>9 DEF db_query_documents
<1>10. ASSUME NEW id \in use.ids, NEW kind \in Kinds, db_get_document(c, id, kind)
       PROVE  \/ StartsScan(c, "db_get_document", id, kind)
              \/ \E result \in Seq(Docs) : UsesCached(c, id, kind, result)
  BY <1>1, <1>10 DEF Queries, ListInv, TypeInv, db_get_document, UsesCached
<1>11. Request(c) BY DEF Request
<1>12. CASE \E id \in use.ids : \/ storage_get_document(c, id)
                                \/ virtual_get(c, id)
                                \/ storage_delete_document(c, id)
                                \/ storage_insert_document(c, id)
  BY <1>1, <1>2, <1>3, <1>4, <1>12
<1>13. CASE \E id \in use.ids, tag \in use.tags : storage_update_document(c, id, tag)
  <2>1. PICK id \in use.ids, tag \in use.tags : storage_update_document(c, id, tag)
    BY <1>13
  <2>2. id \in Ids /\ {tag} \in SUBSET Tags
    BY <1>1
  <2> QED BY <1>1, <1>5, <2>1, <2>2
<1>14. CASE \E id \in use.ids, kind \in Kinds, tag \in use.tags : db_update_document(c, id, kind, tag)
  <2>1. PICK id \in use.ids, kind \in Kinds, tag \in use.tags : db_update_document(c, id, kind, tag)
    BY <1>14
  <2>2. id \in Ids /\ {tag} \in SUBSET Tags
    BY <1>1
  <2> QED BY <1>6, <2>1, <2>2
<1>15. CASE \E id \in use.ids, kind \in Kinds : db_delete_document(c, id, kind) \/ db_get_document(c, id, kind)
  BY <1>1, <1>7, <1>10, <1>15
<1>16. CASE \E kind \in Kinds : storage_query_documents(c, kind) \/ db_query_documents(c, kind)
  BY <1>8, <1>9, <1>16
<1> QED BY <1>11, <1>12, <1>13, <1>14, <1>15, <1>16 DEF Request

\* A scan starts: only the client's call changes.
LEMMA ScanStarts ==
    ASSUME ListInv, NEW c \in Clients, NEW op \in Scans, NEW id \in Ids \cup {AnyId}, NEW kind \in Kinds,
           StartsScan(c, op, id, kind), UNCHANGED use
    PROVE  /\ ListInv'
           /\ pc'[c] = "scan" /\ call'[c] = CallOf(op, id, kind, {})
<1> DEFINE r == CallOf(op, id, kind, {})
<1>1. op \in Ops
  BY DEF Ops
<1>2. r \in Calls /\ r.op = op /\ r.id = id /\ r.leaf = NoLeaf
  BY <1>1, CallOfType
<1>3. GoOn(c, "scan", r) /\ UNCHANGED <<list, leaf, alive, issued, docCache, queryCache, acked>>
  BY DEF StartsScan, StartScan
<1> HIDE DEF r
<1>4. CallShape(c, "scan", r)
  BY <1>2, StoreAssumption DEF CallShape, StartsScan, Scans, Updates, Deletes, Inserts, Writers
<1>5. pc[c] # "append" /\ "scan" \in PCs \ {"append"}
  BY DEF StartsScan, PCs
<1>6. docCache' \in [Ids -> Docs \cup {NoDoc}] /\ queryCache' \in [Queries -> Seq(Docs) \cup {NoResult}]
  BY <1>3 DEF ListInv, TypeInv
<1>7. ListInv'
  BY <1>2, <1>3, <1>4, <1>5, <1>6, LocalStep
<1>8. pc'[c] = "scan" /\ call'[c] = r
  BY <1>3 DEF GoOn, ListInv, TypeInv, TypeOK
<1> QED BY <1>7, <1>8 DEF r

\* A cached result is used: only the client's call changes.
LEMMA CachedUsed ==
    ASSUME ListInv, NEW c \in Clients, NEW id \in Ids, NEW kind \in Kinds, NEW result \in Seq(Docs),
           UsesCached(c, id, kind, result), UNCHANGED use
    PROVE  /\ ListInv'
           /\ pc'[c] = "put"
           /\ call'[c] = [CallOf("db_get_document", id, kind, {}) EXCEPT !.doc = Head(result)]
           /\ Head(result) \in Docs
<1> DEFINE r0 == CallOf("db_get_document", id, kind, {})
           r  == [r0 EXCEPT !.doc = Head(result)]
<1>1. "db_get_document" \in Ops
  BY DEF Ops, Scans
<1>2. r0 \in Calls /\ r0.op = "db_get_document" /\ r0.id = id /\ r0.leaf = NoLeaf
  BY <1>1, CallOfType
<1>3. Head(result) \in Docs
  BY DEF UsesCached
<1>4. GoOn(c, "put", r) /\ UNCHANGED <<list, leaf, alive, issued, docCache, queryCache, acked>>
  BY DEF UsesCached
<1> HIDE DEF r0
<1>5. r \in Calls /\ r.op = "db_get_document" /\ r.id = id /\ r.leaf = NoLeaf /\ r.doc = Head(result)
  BY <1>2, <1>3 DEF Calls
<1> HIDE DEF r
<1>6. CallShape(c, "put", r)
  BY <1>3, <1>5, StoreAssumption DEF CallShape, UsesCached, Updates, Deletes, Inserts, Writers
<1>7. pc[c] # "append" /\ "put" \in PCs \ {"append"}
  BY DEF UsesCached, PCs
<1>8. docCache' \in [Ids -> Docs \cup {NoDoc}] /\ queryCache' \in [Queries -> Seq(Docs) \cup {NoResult}]
  BY <1>4 DEF ListInv, TypeInv
<1>9. ListInv'
  BY <1>4, <1>5, <1>6, <1>7, <1>8, LocalStep
<1>10. pc'[c] = "put" /\ call'[c] = r
  BY <1>4 DEF GoOn, ListInv, TypeInv, TypeOK
<1> QED BY <1>3, <1>9, <1>10 DEF r, r0

\* An insert takes a uuid nobody had.
LEMMA InsertStarts ==
    ASSUME ListInv, NEW c \in Clients, NEW id \in Ids, storage_insert_document(c, id), UNCHANGED use
    PROVE  /\ ListInv'
           /\ pc'[c] = "check"
           /\ call'[c] = [CallOf("storage_insert_document", id, KindOf[id], {}) EXCEPT !.doc = NewDoc(id)]
<1> DEFINE r0 == CallOf("storage_insert_document", id, KindOf[id], {})
           r  == [r0 EXCEPT !.doc = NewDoc(id)]
<1>1. "storage_insert_document" \in Ops /\ KindOf[id] \in Kinds
  BY StoreAssumption DEF Ops, Writers, Inserts
<1>2. r0 \in Calls /\ r0.op = "storage_insert_document" /\ r0.id = id /\ r0.leaf = NoLeaf
  BY <1>1, CallOfType
<1>3. /\ GoOn(c, "check", r) /\ UNCHANGED <<list, leaf, alive, docCache, queryCache, acked>>
      /\ pc[c] = "idle" /\ "storage_insert_document" \in use.handlers
      /\ id \in use.writes[c] /\ id \notin issued /\ issued' = issued \cup {id}
  BY DEF storage_insert_document
<1> HIDE DEF r0
<1>4. /\ r \in Calls /\ r.op = "storage_insert_document" /\ r.id = id /\ r.leaf = NoLeaf
      /\ r.doc = NewDoc(id) /\ NewDoc(id) \in Docs
  BY <1>2, DocTypes DEF Calls
<1> HIDE DEF r
<1>5. pc' \in [Clients -> PCs] /\ call' \in [Clients -> Calls]
      /\ pc'[c] = "check" /\ call'[c] = r
      /\ \A d \in Clients \ {c} : pc'[d] = pc[d] /\ call'[d] = call[d]
  BY <1>3, <1>4 DEF GoOn, ListInv, TypeInv, TypeOK, PCs
<1>6. \A d \in Clients : CallShape(d, pc[d], call[d])'
  <2> SUFFICES ASSUME NEW d \in Clients PROVE CallShape(d, pc[d], call[d])'
    OBVIOUS
  <2>1. CASE d = c
    BY <1>3, <1>4, <1>5, <2>1, StoreAssumption DEF CallShape, Updates, Deletes, Inserts, Writers
  <2>2. CASE d # c
    BY <1>5, <2>2, <1>3 DEF ListInv, TypeInv, CallShape
  <2> QED BY <2>1, <2>2
<1>7. TypeInv'
  BY <1>5, <1>3, <1>6 DEF Calls, ListInv, TypeInv, TypeOK
<1>8. \A d \in Clients : pc'[d] = "append" <=> pc[d] = "append"
  BY <1>3, <1>5
<1>9. \A d \in Clients : pc[d] = "append" => call'[d] = call[d]
  BY <1>3, <1>5
<1>10. PrivateLeaves' = PrivateLeaves
  BY <1>8, <1>9 DEF PrivateLeaves
<1>11. Ownership'
  BY <1>3, <1>8, <1>9, <1>10 DEF ListInv, Ownership, ListOwnsLeaves
<1> QED BY <1>5, <1>7, <1>11 DEF ListInv, r, r0

\* Every request preserves the invariant.
LEMMA RequestKeepsList ==
    ASSUME ListInv, NEW c \in Clients, Request(c), UNCHANGED use
    PROVE  ListInv'
  BY SearchStep, ScanStarts, CachedUsed, InsertStarts, RequestCases DEF Searches
-----------------------------------------------------------------------------
(* The invariant of the list: at the start, and through every step.        *)

\* The leaves at the start: one for each uuid stored before, in that order.
LEMMA InitLeaves ==
    ASSUME Init
    PROVE  /\ list \in Seq(Leaves) /\ IsInjective(list) /\ ToSet(list) \subseteq Leaves
           /\ alive = ToSet(list)
           /\ DOMAIN list = DOMAIN InitialIds
           /\ \A i \in DOMAIN list : leaf[list[i]] = [key |-> InitialIds[i], doc |-> NewDoc(InitialIds[i])]
           /\ leaf = [l \in Leaves |-> leaf[l]]
           /\ \A l \in Leaves \ ToSet(list) : leaf[l] = BlankLeaf
           /\ \A i \in DOMAIN InitialIds : InitialIds[i] \in Ids
<1> DEFINE n == Len(InitialIds)
<1>1. n \in Nat /\ DOMAIN InitialIds = 1 .. n /\ \A i \in 1 .. n : InitialIds[i] \in Ids
  BY StoreAssumption, LenProperties, ElementOfSeq
<1> HIDE DEF n
<1>2. PICK a \in Injection(1 .. n, Leaves) :
           /\ list = [i \in 1 .. n |-> a[i]]
           /\ leaf = [l \in Leaves |->
                        IF l \in ToSet(list)
                        THEN LET id == InitialIds[CHOOSE i \in DOMAIN a : a[i] = l]
                             IN  [key |-> id, doc |-> NewDoc(id)]
                        ELSE BlankLeaf]
           /\ alive = ToSet(list)
  BY DEF Init, n
<1>3. a \in [1 .. n -> Leaves] /\ \A i, j \in 1 .. n : a[i] = a[j] => i = j
  BY <1>2 DEF Injection, IsInjective
<1>4. list = a /\ list \in Seq(Leaves) /\ DOMAIN list = 1 .. n /\ IsInjective(list)
  BY <1>1, <1>2, <1>3 DEF IsInjective
<1>5. ToSet(list) \subseteq Leaves
  BY <1>3, <1>4 DEF ToSet
<1>6. ASSUME NEW i \in 1 .. n
      PROVE  leaf[list[i]] = [key |-> InitialIds[i], doc |-> NewDoc(InitialIds[i])]
  <2> DEFINE k == CHOOSE j \in DOMAIN a : a[j] = list[i]
  <2>1. \E j \in DOMAIN a : a[j] = list[i]
    BY <1>3, <1>4
  <2>2. k \in DOMAIN a /\ a[k] = list[i]
    BY <2>1
  <2>3. k = i
    BY <1>3, <1>4, <2>2
  <2>4. list[i] \in ToSet(list)
    BY <1>4 DEF ToSet
  <2>5. leaf[list[i]] = [key |-> InitialIds[k], doc |-> NewDoc(InitialIds[k])]
    BY <1>2, <1>5, <2>4
  <2> HIDE DEF k
  <2> QED BY <2>3, <2>5
<1>7. /\ leaf = [l \in Leaves |-> leaf[l]]
      /\ \A l \in Leaves \ ToSet(list) : leaf[l] = BlankLeaf
  BY <1>2
<1> QED BY <1>1, <1>2, <1>4, <1>5, <1>6, <1>7

LEMMA InitList == Init => ListInv
<1> SUFFICES ASSUME Init PROVE ListInv
  OBVIOUS
<1>2. alive = ToSet(list) /\ leaf = [l \in Leaves |-> leaf[l]] /\ \A l \in Leaves \ ToSet(list) : leaf[l] = BlankLeaf
  BY InitLeaves
<1>4. list \in Seq(Leaves) /\ IsInjective(list)
  BY InitLeaves
<1>5. ToSet(list) \subseteq Leaves
  BY InitLeaves
<1>6. \A l \in ToSet(list) : \E id \in ToSet(InitialIds) : leaf[l] = [key |-> id, doc |-> NewDoc(id)]
  BY InitLeaves DEF ToSet
<1>7. ToSet(InitialIds) \subseteq Ids
  BY InitLeaves DEF ToSet
<1>8. leaf \in [Leaves -> [key : Ids \cup {AnyId}, doc : Docs \cup {NoDoc}]]
  <2>1. leaf = [l \in Leaves |-> leaf[l]]
    BY <1>2
  <2>2. \A l \in Leaves \ ToSet(list) : leaf[l] = BlankLeaf
    BY <1>2
  <2>3. ASSUME NEW l \in Leaves
        PROVE  leaf[l] \in [key : Ids \cup {AnyId}, doc : Docs \cup {NoDoc}]
    <3>1. CASE l \in ToSet(list)
      <4>1. PICK id \in Ids : leaf[l] = [key |-> id, doc |-> NewDoc(id)]
        BY <1>6, <1>7, <3>1
      <4>2. NewDoc(id) \in Docs
        BY DocTypes
      <4> QED BY <4>1, <4>2
    <3>2. CASE l \notin ToSet(list)
      BY <2>2, <3>2 DEF BlankLeaf
    <3> QED BY <3>1, <3>2
  <2> QED BY <2>1, <2>3
<1>9. /\ issued = ToSet(InitialIds) /\ use \in Uses
      /\ pc = [c \in Clients |-> "idle"] /\ call = [c \in Clients |-> NoCall]
      /\ docCache = [id \in Ids |-> NoDoc] /\ queryCache = [q \in Queries |-> NoResult]
      /\ acked = [id \in Ids |-> {}]
  BY DEF Init
<1>10. TypeInv
  <2>1. ASSUME NEW l \in alive
        PROVE  leaf[l].key \in issued /\ leaf[l].doc \in Docs
    <3>1. PICK id \in ToSet(InitialIds) : leaf[l] = [key |-> id, doc |-> NewDoc(id)]
      BY <1>2, <1>6
    <3>2. NewDoc(id) \in Docs
      BY <1>7, DocTypes
    <3> QED BY <1>9, <3>1, <3>2
  <2>2. \A c \in Clients : call[c] \in Calls /\ call[c].leaf = NoLeaf /\ CallShape(c, pc[c], call[c])
    BY <1>9, NoCallType DEF NoCall
  <2>3. call \in [Clients -> Calls]
    BY <1>9, <2>2
  <2> QED BY <1>2, <1>4, <1>5, <1>7, <1>8, <1>9, <2>1, <2>2, <2>3 DEF TypeInv, TypeOK, PCs
<1>11. PrivateLeaves = {} /\ \A c \in Clients : pc[c] # "append"
  BY <1>9 DEF PrivateLeaves
<1>12. Ownership
  BY <1>2, <1>4, <1>11 DEF Ownership, ListOwnsLeaves
<1> QED BY <1>10, <1>12 DEF ListInv

\* A cache entry after an insertion is the new one, an old one or gone.
LEMMA CachePutEntries ==
    ASSUME NEW K, NEW cache, DOMAIN cache = K, cache = [x \in K |-> cache[x]], NEW none, NEW k \in K, NEW v,
           NEW new \in CachePut(cache, none, k, v)
    PROVE  /\ new = [x \in K |-> new[x]]
           /\ \A x \in K : IF x = k THEN new[x] \in {v, none} ELSE new[x] \in {cache[x], none}
  BY DEF CachePut

\* The steps that leave the list and the leaves alone.
LEMMA ReadLeafKeepsList ==
    ASSUME ListInv, NEW c \in Clients, ReadLeaf(c), UNCHANGED use
    PROVE  ListInv'
<1> DEFINE r == call[c]
<1>1. /\ pc[c] = "copy" /\ r \in Calls /\ CallShape(c, "copy", r) /\ r.leaf \in Leaves
      /\ UNCHANGED <<list, leaf, alive, issued, docCache, queryCache, acked>>
  BY DEF ReadLeaf, ListInv, TypeInv, CallShape
<1>2. docCache' \in [Ids -> Docs \cup {NoDoc}] /\ queryCache' \in [Queries -> Seq(Docs) \cup {NoResult}]
  BY <1>1 DEF ListInv, TypeInv
<1>3. ASSUME NEW p \in {"idle", "put", "unlink"}, NEW q \in Calls, GoOn(c, p, q), CallShape(c, p, q)
      PROVE  ListInv'
  BY <1>1, <1>2, <1>3, LocalStep DEF PCs
<1>4. PICK doc \in TextAt(r.leaf) :
           \/ Return(c)
           \/ /\ r.op = "virtual_get" /\ doc # NoDoc
              /\ GoOn(c, "put", [r EXCEPT !.leaf = NoLeaf, !.doc = doc])
           \/ /\ r.op \in Deletes
              /\ GoOn(c, "unlink", [r EXCEPT !.leaf = NoLeaf])
           \/ /\ r.op \in Updates /\ doc # NoDoc
              /\ GoOn(c, "unlink", [r EXCEPT !.leaf = NoLeaf, !.doc = Merge(doc, r.tag)])
  BY DEF ReadLeaf, Verified, Updates, Deletes
<1>5. doc \in Docs \cup {NoDoc}
  BY <1>1, TextType DEF ListInv
<1>6. CASE Return(c)
  BY <1>3, <1>6, NoCallType, ReturnMoves
<1>7. CASE r.op = "virtual_get" /\ doc # NoDoc /\ GoOn(c, "put", [r EXCEPT !.leaf = NoLeaf, !.doc = doc])
  <2> DEFINE q == [r EXCEPT !.leaf = NoLeaf, !.doc = doc]
  <2>1. q \in Calls /\ q.op = r.op /\ q.id = r.id /\ q.tag = r.tag /\ q.leaf = NoLeaf /\ q.doc = doc
    BY <1>1, <1>5 DEF Calls
  <2> HIDE DEF q
  <2>2. CallShape(c, "put", q)
    BY <1>1, <1>5, <1>7, <2>1, StoreAssumption DEF CallShape, Updates, Deletes, Inserts, Writers
  <2> QED BY <1>3, <1>7, <2>1, <2>2 DEF q
<1>8. CASE r.op \in Deletes /\ GoOn(c, "unlink", [r EXCEPT !.leaf = NoLeaf])
  <2> DEFINE q == [r EXCEPT !.leaf = NoLeaf]
  <2>1. q \in Calls /\ q.op = r.op /\ q.id = r.id /\ q.tag = r.tag /\ q.leaf = NoLeaf
    BY <1>1 DEF Calls
  <2> HIDE DEF q
  <2>2. CallShape(c, "unlink", q)
    BY <1>1, <1>8, <2>1, StoreAssumption DEF CallShape, Updates, Deletes, Inserts, Writers
  <2> QED BY <1>3, <1>8, <2>1, <2>2 DEF q
<1>9. CASE r.op \in Updates /\ doc # NoDoc /\ GoOn(c, "unlink", [r EXCEPT !.leaf = NoLeaf, !.doc = Merge(doc, r.tag)])
  <2> DEFINE q == [r EXCEPT !.leaf = NoLeaf, !.doc = Merge(doc, r.tag)]
  <2>1. Merge(doc, r.tag) \in Docs
    BY <1>1, <1>5, <1>9, DocTypes DEF Calls
  <2>2. q \in Calls /\ q.op = r.op /\ q.id = r.id /\ q.tag = r.tag /\ q.leaf = NoLeaf /\ q.doc = Merge(doc, r.tag)
    BY <1>1, <2>1 DEF Calls
  <2> HIDE DEF q
  <2>3. CallShape(c, "unlink", q)
    BY <1>1, <1>9, <2>1, <2>2, StoreAssumption DEF CallShape, Updates, Deletes, Inserts, Writers
  <2> QED BY <1>3, <1>9, <2>2, <2>3 DEF q
<1> QED BY <1>4, <1>6, <1>7, <1>8, <1>9
LEMMA ScanStepsKeepList ==
    ASSUME ListInv, NEW c \in Clients, skiplist_iterator_next(c) \/ ParseDocument(c), UNCHANGED use
    PROVE  ListInv'
<1> DEFINE r == call[c]
<1>1. /\ pc[c] \in {"scan", "parse"} /\ r \in Calls /\ CallShape(c, pc[c], r)
      /\ UNCHANGED <<list, leaf, alive, issued, docCache, queryCache, acked>>
  BY DEF skiplist_iterator_next, ParseDocument, ListInv, TypeInv
<1>2. docCache' \in [Ids -> Docs \cup {NoDoc}] /\ queryCache' \in [Queries -> Seq(Docs) \cup {NoResult}]
  BY <1>1 DEF ListInv, TypeInv
<1>3. ASSUME NEW p \in {"scan", "parse"}, NEW q \in Calls, GoOn(c, p, q), CallShape(c, p, q)
      PROVE  ListInv'
  BY <1>1, <1>2, <1>3, LocalStep DEF PCs
<1>4. CASE skiplist_iterator_next(c)
  <2> DEFINE q == [r EXCEPT !.leaf = list[r.next], !.next = @ + 1]
  <2>1. pc[c] = "scan" /\ r.next <= Len(list) /\ GoOn(c, "parse", q)
    BY <1>4 DEF skiplist_iterator_next
  <2>2. r.next \in Nat \ {0} /\ list \in Seq(Leaves)
    BY <1>1 DEF Calls, ListInv, TypeInv, TypeOK
  <2>3. list[r.next] \in Leaves
    BY <2>1, <2>2, LenProperties, ElementOfSeq
  <2>b. r.next + 1 \in Nat \ {0}
    BY <2>2
  <2>4. q \in Calls /\ q.op = r.op /\ q.id = r.id /\ q.tag = r.tag /\ q.leaf \in Leaves
    BY <1>1, <2>b, <2>3 DEF Calls
  <2> HIDE DEF q
  <2>5. CallShape(c, "parse", q)
    BY <1>1, <2>1, <2>4 DEF CallShape
  <2> QED BY <1>3, <2>1, <2>4, <2>5
<1>5. CASE ParseDocument(c)
  <2>1. PICK doc \in TextAt(r.leaf) :
             GoOn(c, "scan", [r EXCEPT !.leaf = NoLeaf,
                                       !.hits = IF Matches(r, doc) THEN Append(@, doc) ELSE @])
    BY <1>5 DEF ParseDocument
  <2> DEFINE h == IF Matches(r, doc) THEN Append(r.hits, doc) ELSE r.hits
             q == [r EXCEPT !.leaf = NoLeaf, !.hits = h]
  <2>2. pc[c] = "parse" /\ r.leaf \in Leaves
    BY <1>1, <1>5 DEF ParseDocument, CallShape
  <2>3. doc \in Docs \cup {NoDoc}
    BY <2>2, TextType DEF ListInv
  <2>4. Matches(r, doc) => doc \in Docs
    BY <2>3 DEF Matches
  <2>5. r.hits \in Seq(Docs)
    BY <1>1 DEF Calls
  <2>6. h \in Seq(Docs)
    BY <2>4, <2>5, AppendProperties
  <2>7. GoOn(c, "scan", q)
    BY <2>1
  <2> HIDE DEF h
  <2>8. q \in Calls /\ q.op = r.op /\ q.id = r.id /\ q.tag = r.tag /\ q.leaf = NoLeaf
    BY <1>1, <2>6 DEF Calls
  <2> HIDE DEF q
  <2>9. CallShape(c, "scan", q)
    BY <1>1, <2>2, <2>8, StoreAssumption DEF CallShape
  <2> QED BY <1>3, <2>7, <2>8, <2>9
<1> QED BY <1>4, <1>5

LEMMA CacheStepsKeepList ==
    ASSUME ListInv, NEW c \in Clients, EndScan(c) \/ PutDocument(c), UNCHANGED use
    PROVE  ListInv'
<1> DEFINE r == call[c]
<1>1. /\ pc[c] \in {"scan", "put"} /\ r \in Calls /\ CallShape(c, pc[c], r)
      /\ UNCHANGED <<list, leaf, alive, issued, acked>>
  BY DEF EndScan, PutDocument, ListInv, TypeInv
<1>2. docCache \in [Ids -> Docs \cup {NoDoc}] /\ queryCache \in [Queries -> Seq(Docs) \cup {NoResult}]
  BY DEF ListInv, TypeInv
<1>3. CASE EndScan(c)
  <2> DEFINE k == [kind |-> r.kind, id |-> r.id]
             q == [NoCall EXCEPT !.op = r.op, !.id = r.id, !.kind = r.kind, !.doc = Head(r.hits)]
  <2>1. k \in Queries /\ r.hits \in Seq(Docs)
    BY <1>1 DEF Calls, Queries
  <2>2. /\ pc[c] = "scan" /\ docCache' = docCache
        /\ \/ queryCache' = queryCache
           \/ queryCache' \in CachePut(queryCache, NoResult, k, r.hits)
        /\ \/ r.op = "db_get_document" /\ r.hits # <<>> /\ GoOn(c, "put", q)
           \/ Return(c)
    BY <1>3 DEF EndScan
  <2> HIDE DEF k
  <2>3. queryCache' \in [Queries -> Seq(Docs) \cup {NoResult}]
    <3>1. CASE queryCache' = queryCache
      BY <1>2, <3>1
    <3>2. CASE queryCache' \in CachePut(queryCache, NoResult, k, r.hits)
      <4> DEFINE m == queryCache'
                 v == r.hits
      <4>1. DOMAIN queryCache = Queries /\ queryCache = [x \in Queries |-> queryCache[x]]
        BY <1>2
      <4>b. m \in CachePut(queryCache, NoResult, k, v) /\ k \in Queries
        BY <2>1, <3>2
      <4> HIDE DEF q, v, m
      <4>2. /\ m = [x \in Queries |-> m[x]]
            /\ \A x \in Queries : IF x = k THEN m[x] \in {v, NoResult} ELSE m[x] \in {queryCache[x], NoResult}
        BY <4>1, <4>b, CachePutEntries
      <4> QED BY <1>2, <2>1, <4>2 DEF m, v
    <3> QED BY <2>2, <3>1, <3>2
  <2>4. ASSUME NEW p \in {"idle", "put"}, NEW z \in Calls, GoOn(c, p, z), CallShape(c, p, z)
        PROVE  ListInv'
    BY <1>1, <1>2, <2>2, <2>3, <2>4, LocalStep DEF PCs
  <2>5. CASE Return(c)
    BY <2>4, <2>5, NoCallType, ReturnMoves
  <2>6. CASE r.op = "db_get_document" /\ r.hits # <<>> /\ GoOn(c, "put", q)
    <3>1. Head(r.hits) \in Docs
      BY <2>1, <2>6
    <3>2. r.op \in Ops /\ r.id \in Ids /\ r.kind \in Kinds
      BY <1>1, <2>6 DEF Calls, CallShape
    <3>3. /\ q \in Calls /\ q.op = r.op /\ q.id = r.id /\ q.doc = Head(r.hits) /\ q.leaf = NoLeaf
      BY <3>1, <3>2, NoCallType DEF Calls, NoCall
    <3> HIDE DEF q
    <3>4. CallShape(c, "put", q)
      BY <1>1, <2>2, <2>6, <3>1, <3>2, <3>3, StoreAssumption DEF CallShape, Updates, Deletes, Inserts, Writers
    <3> QED BY <2>4, <2>6, <3>3, <3>4 DEF q
  <2> QED BY <2>2, <2>5, <2>6
<1>4. CASE PutDocument(c)
  <2>1. /\ pc[c] = "put" /\ queryCache' = queryCache /\ Return(c)
        /\ docCache' \in CachePut(docCache, NoDoc, r.id, r.doc)
        /\ r.id \in Ids /\ r.doc \in Docs
    BY <1>1, <1>4 DEF PutDocument, CallShape
  <2>2. docCache' \in [Ids -> Docs \cup {NoDoc}]
    <3> DEFINE m == docCache'
    <3>1. DOMAIN docCache = Ids /\ docCache = [x \in Ids |-> docCache[x]]
      BY <1>2
    <3>2. /\ m = [x \in Ids |-> m[x]]
          /\ \A x \in Ids : IF x = r.id THEN m[x] \in {r.doc, NoDoc} ELSE m[x] \in {docCache[x], NoDoc}
      BY <2>1, <3>1, CachePutEntries
    <3> QED BY <1>2, <2>1, <3>2
  <2>3. GoOn(c, "idle", NoCall) /\ NoCall \in Calls /\ CallShape(c, "idle", NoCall)
    BY <2>1, NoCallType, ReturnMoves
  <2> QED BY <1>1, <1>2, <2>1, <2>2, <2>3, LocalStep DEF PCs
<1> QED BY <1>3, <1>4
\* The facts about a client that changes the list.
LEMMA ClientFacts ==
    ASSUME ListInv, NEW c \in Clients
    PROVE  /\ call[c] \in Calls /\ CallShape(c, pc[c], call[c])
           /\ pc \in [Clients -> PCs] /\ call \in [Clients -> Calls]
           /\ list \in Seq(Leaves) /\ IsInjective(list) /\ alive \subseteq Leaves
           /\ leaf \in [Leaves -> [key : Ids \cup {AnyId}, doc : Docs \cup {NoDoc}]]
           /\ alive = ToSet(list) \cup PrivateLeaves /\ ToSet(list) \cap PrivateLeaves = {}
           /\ docCache \in [Ids -> Docs \cup {NoDoc}]
           /\ queryCache \in [Queries -> Seq(Docs) \cup {NoResult}]
           /\ issued \subseteq Ids
           /\ acked \in [Ids -> SUBSET Tags]
           /\ pc[c] = "append" => call[c].leaf \in PrivateLeaves
BY DEF ListInv, TypeInv, TypeOK, Ownership, ListOwnsLeaves, PrivateLeaves

\* skiplist_delete: the leaf it frees is no longer in the list and nobody's own.
LEMMA DeleteKeepsList ==
    ASSUME ListInv, NEW c \in Clients, skiplist_delete(c), UNCHANGED use
    PROVE  ListInv'
<1> DEFINE r == call[c]
           i == FirstIndex(r.id)
           x == list[i]
<1>1. /\ pc[c] = "unlink" /\ r \in Calls /\ CallShape(c, "unlink", r)
      /\ UNCHANGED <<issued, docCache, queryCache, acked>>
  BY ClientFacts DEF skiplist_delete
<1>2. PICK p \in {"idle", "check"}, q \in Calls : GoOn(c, p, q) /\ CallShape(c, p, q)
  BY NoCallType, ReturnMoves, <1>1 DEF skiplist_delete, CallShape, Inserts
<1>3. p \in PCs \ {"append"}
  BY DEF PCs
<1>4. CASE ~ Stored(r.id)
  BY <1>4, <1>1, ClientFacts, <1>2, <1>3, LocalStep DEF skiplist_delete
<1>5. CASE Stored(r.id)
  <2>1. list' = RemoveAt(list, i) /\ alive' = alive \ {x} /\ leaf' = [leaf EXCEPT ![x] = Residue(x)]
    BY <1>5 DEF skiplist_delete, IndexToRemove, FreeLeaf
  <2>2. i \in DOMAIN list /\ x \in Leaves /\ x \in alive
    BY <1>5, SearchFinds
  <2> HIDE DEF i
  <2>3. list' \in Seq(Leaves) /\ IsInjective(list') /\ ToSet(list') = ToSet(list) \ {x}
    BY <2>1, <2>2, ClientFacts, RemoveAtKeeps, RemoveAtToSet
  <2>4. x \in ToSet(list)
    BY <2>2 DEF ToSet
  <2> HIDE DEF x
  <2>5. Residue(x) \in [key : Ids \cup {AnyId}, doc : Docs \cup {NoDoc}]
    BY <2>2, ClientFacts DEF Residue, BlankLeaf
  <2>6. leaf' \in [Leaves -> [key : Ids \cup {AnyId}, doc : Docs \cup {NoDoc}]] /\ \A l \in Leaves \ {x} : leaf'[l] = leaf[l]
    BY <2>1, <2>2, <2>5, ClientFacts
  <2>7. /\ pc' \in [Clients -> PCs] /\ call' \in [Clients -> Calls]
        /\ pc'[c] = p /\ call'[c] = q
        /\ \A d \in Clients \ {c} : pc'[d] = pc[d] /\ call'[d] = call[d]
        /\ \A d \in Clients : CallShape(d, pc[d], call[d])'
        /\ \A d \in Clients : call'[d].leaf \in Leaves \cup {NoLeaf}
    BY <1>1, <1>2, <1>3, ClientMoves DEF ListInv
  <2>8. TypeInv'
    BY <1>1, <2>1, <2>6, ClientFacts, <2>3, <2>7 DEF ListInv, TypeInv, TypeOK
  <2>9. \A d \in Clients : (pc'[d] = "append" <=> pc[d] = "append") /\ (pc[d] = "append" => call'[d] = call[d])
    BY <1>1, <2>7
  <2>10. PrivateLeaves' = PrivateLeaves /\ x \notin PrivateLeaves
    BY <2>4, <2>9, ClientFacts DEF PrivateLeaves
  <2>11. \A d \in Clients : pc[d] = "append" => call[d].leaf \in Leaves \ {x}
    BY <2>10, ClientFacts DEF PrivateLeaves
  <2>12. Ownership'
    BY <2>1, <2>3, <2>10, ClientFacts, <2>6, <2>9, <2>11 DEF ListOwnsLeaves, ListInv, Ownership
  <2> QED BY <2>8, <2>12 DEF ListInv
<1> QED BY <1>4, <1>5

\* skiplist_insert: a new leaf belongs to the client that made it.
LEMMA InsertKeepsList ==
    ASSUME ListInv, NEW c \in Clients, skiplist_insert(c), UNCHANGED use
    PROVE  ListInv'
<1> DEFINE r == call[c]
<1>1. /\ pc[c] = "check" /\ r \in Calls /\ CallShape(c, "check", r)
      /\ UNCHANGED <<list, issued, docCache, queryCache>>
      /\ r.op \in Inserts /\ r.id \in Ids /\ r.doc \in Docs /\ r.id \in issued
  BY ClientFacts DEF skiplist_insert, CallShape, Writers
<1>2. CASE Return(c) /\ Acknowledge(c) /\ UNCHANGED <<leaf, alive>>
  BY <1>1, <1>2, ClientFacts, NoCallType, ReturnMoves, AcknowledgingStep DEF Acknowledge, Calls, PCs
<1>3. CASE \E l \in Leaves \ alive :
               /\ leaf' = [leaf EXCEPT ![l] = [key |-> r.id, doc |-> r.doc]]
               /\ alive' = alive \cup {l}
               /\ GoOn(c, "append", [r EXCEPT !.leaf = l])
               /\ UNCHANGED acked
  <2>1. PICK l \in Leaves \ alive :
               /\ leaf' = [leaf EXCEPT ![l] = [key |-> r.id, doc |-> r.doc]]
               /\ alive' = alive \cup {l}
               /\ GoOn(c, "append", [r EXCEPT !.leaf = l])
               /\ UNCHANGED acked
    BY <1>3
  <2> DEFINE q == [r EXCEPT !.leaf = l]
  <2>2. q \in Calls /\ q.op = r.op /\ q.id = r.id /\ q.tag = r.tag /\ q.leaf = l /\ q.doc = r.doc
    BY <1>1 DEF Calls
  <2>3. GoOn(c, "append", q)
    BY <2>1
  <2> HIDE DEF q
  <2>4. CallShape(c, "append", q)
    BY <1>1, <2>2 DEF CallShape, Inserts
  <2>5. /\ pc' \in [Clients -> PCs] /\ call' \in [Clients -> Calls]
        /\ pc'[c] = "append" /\ call'[c] = q
        /\ \A d \in Clients \ {c} : pc'[d] = pc[d] /\ call'[d] = call[d]
        /\ \A d \in Clients : CallShape(d, pc[d], call[d])'
        /\ \A d \in Clients : call'[d].leaf \in Leaves \cup {NoLeaf}
    BY <1>1, <2>2, <2>3, <2>4, ClientMoves DEF ListInv, PCs
  <2>6. [key |-> r.id, doc |-> r.doc] \in [key : Ids \cup {AnyId}, doc : Docs \cup {NoDoc}]
    BY <1>1
  <2>7. /\ leaf' \in [Leaves -> [key : Ids \cup {AnyId}, doc : Docs \cup {NoDoc}]]
        /\ leaf'[l] = [key |-> r.id, doc |-> r.doc]
        /\ \A x \in Leaves \ {l} : leaf'[x] = leaf[x]
    BY <2>1, <2>6, ClientFacts
  <2>8. TypeInv'
    BY <1>1, <2>1, <2>7, ClientFacts, <2>5 DEF ListInv, TypeInv, TypeOK
  <2>9. PrivateLeaves' = PrivateLeaves \cup {l}
    BY <1>1, <2>2, <2>5 DEF PrivateLeaves
  <2>10. l \notin ToSet(list) /\ \A d \in Clients : pc[d] = "append" => call[d].leaf \in Leaves \ {l}
    BY <2>1, ClientFacts DEF PrivateLeaves
  <2>11. Ownership'
    <3>1. ListOwnsLeaves'
      BY <1>1, <2>1, <2>9, <2>10, ClientFacts DEF ListOwnsLeaves
    <3>2. \A d \in Clients : pc'[d] = "append" =>
              leaf'[call'[d].leaf] = [key |-> call'[d].id, doc |-> call'[d].doc]
      <4>1. leaf'[call'[c].leaf] = [key |-> call'[c].id, doc |-> call'[c].doc]
        BY <2>2, <2>5, <2>7
      <4>2. ASSUME NEW d \in Clients \ {c}, pc'[d] = "append"
            PROVE  leaf'[call'[d].leaf] = [key |-> call'[d].id, doc |-> call'[d].doc]
        <5>1. pc[d] = "append" /\ call'[d] = call[d]
          BY <2>5, <4>2
        <5>2. leaf[call[d].leaf] = [key |-> call[d].id, doc |-> call[d].doc]
          BY <5>1 DEF ListInv, Ownership
        <5>3. leaf'[call[d].leaf] = leaf[call[d].leaf]
          BY <2>7, <2>10, <5>1
        <5> QED BY <5>1, <5>2, <5>3
      <4> QED BY <4>1, <4>2
    <3>3. ASSUME NEW d \in Clients, NEW e \in Clients, pc'[d] = "append", pc'[e] = "append",
                 call'[d].leaf = call'[e].leaf
          PROVE  d = e
      BY <2>5, <2>10, <2>2, <3>3 DEF ListInv, Ownership
    <3>4. \A d, e \in Clients : pc'[d] = "append" /\ pc'[e] = "append" /\ call'[d].leaf = call'[e].leaf => d = e
      BY <3>3
    <3> QED BY <3>1, <3>2, <3>4 DEF Ownership
  <2> QED BY <2>8, <2>11 DEF ListInv
<1> QED BY <1>2, <1>3 DEF skiplist_insert
\* AppendLeaf: the new leaf goes from its client to the list.
LEMMA AppendKeepsList ==
    ASSUME ListInv, NEW c \in Clients, AppendLeaf(c), UNCHANGED use
    PROVE  ListInv'
<1> DEFINE r == call[c]
           x == r.leaf
<1>1. /\ pc[c] = "append" /\ r \in Calls /\ list' = Append(list, x) /\ GoOn(c, "idle", NoCall)
      /\ UNCHANGED <<leaf, alive, issued, docCache, queryCache>> /\ Acknowledge(c)
  BY ClientFacts, ReturnMoves DEF AppendLeaf, art_add_to_list
<1>2. x \in PrivateLeaves /\ x \in Leaves
  BY <1>1, ClientFacts DEF CallShape
<1>3. acked' \in [Ids -> SUBSET Tags]
  BY <1>1, ClientFacts DEF Acknowledge, Calls
<1>4. /\ pc' \in [Clients -> PCs] /\ call' \in [Clients -> Calls]
      /\ pc'[c] = "idle" /\ call'[c] = NoCall
      /\ \A d \in Clients \ {c} : pc'[d] = pc[d] /\ call'[d] = call[d]
      /\ \A d \in Clients : CallShape(d, pc[d], call[d])'
      /\ \A d \in Clients : call'[d].leaf \in Leaves \cup {NoLeaf}
  BY <1>1, NoCallType, ClientMoves DEF ListInv, PCs
<1>5. PrivateLeaves' = PrivateLeaves \ {x}
  BY <1>4, <1>1 DEF ListInv, Ownership, PrivateLeaves
<1> HIDE DEF x
<1>6. list' \in Seq(Leaves) /\ ToSet(list') = ToSet(list) \cup {x} /\ IsInjective(list')
  BY <1>1, <1>2, ClientFacts, AppendToSet
<1>7. TypeInv'
  BY <1>1, <1>3, <1>4, <1>6, ClientFacts DEF ListInv, TypeInv, TypeOK
<1>8. ListOwnsLeaves'
  BY <1>1, <1>2, <1>5, <1>6, ClientFacts DEF ListOwnsLeaves
<1>9. \A d \in Clients : pc'[d] = "append" => pc[d] = "append" /\ call'[d] = call[d]
  BY <1>4
<1>10. Ownership'
  BY <1>1, <1>8, <1>9 DEF ListInv, Ownership
<1> QED BY <1>7, <1>10 DEF ListInv

\* An insert that fails frees the leaf it had made, if any.
LEMMA FailureKeepsList ==
    ASSUME ListInv, NEW c \in Clients, InsertFails(c), UNCHANGED use
    PROVE  ListInv'
<1> DEFINE r == call[c]
           x == r.leaf
<1>1. /\ pc[c] \in {"check", "append"} /\ r \in Calls /\ CallShape(c, pc[c], r)
      /\ GoOn(c, "idle", NoCall) /\ Acknowledge(c)
      /\ UNCHANGED <<list, issued, docCache, queryCache>>
      /\ alive' = alive \ {x}
      /\ leaf' = [l \in Leaves |-> IF l = x THEN BlankLeaf ELSE leaf[l]]
  BY ClientFacts, ReturnMoves DEF InsertFails, FreeLeaf
<1>2. acked' \in [Ids -> SUBSET Tags]
  BY <1>1, ClientFacts DEF Acknowledge, Calls
<1>3. CASE pc[c] = "check"
  <2>1. x \notin Leaves
    BY <1>1, <1>3 DEF CallShape
  <2>2. alive' = alive /\ leaf' = leaf
    BY <1>1, <2>1, ClientFacts
  <2> QED BY <1>1, <1>2, <1>3, <2>2, AcknowledgingStep, NoCallType, ClientFacts DEF PCs
<1>4. CASE pc[c] = "append"
  <2>1. x \in PrivateLeaves /\ x \in Leaves /\ x \notin ToSet(list)
    BY <1>1, <1>4, ClientFacts DEF CallShape
  <2>2. /\ pc' \in [Clients -> PCs] /\ call' \in [Clients -> Calls]
        /\ pc'[c] = "idle" /\ call'[c] = NoCall
        /\ \A d \in Clients \ {c} : pc'[d] = pc[d] /\ call'[d] = call[d]
        /\ \A d \in Clients : CallShape(d, pc[d], call[d])'
        /\ \A d \in Clients : call'[d].leaf \in Leaves \cup {NoLeaf}
    BY <1>1, NoCallType, ClientMoves DEF ListInv, PCs
  <2>3. \A d \in Clients : pc'[d] = "append" <=> pc[d] = "append" /\ d # c
    BY <2>2
  <2>4. \A d \in Clients : pc[d] = "append" /\ d # c => call'[d] = call[d] /\ call[d].leaf # x
    BY <1>4, <2>2 DEF ListInv, Ownership
  <2>5. PrivateLeaves' = PrivateLeaves \ {x}
    BY <1>4, <2>3, <2>4 DEF PrivateLeaves
  <2>6. \A d \in Clients : pc[d] = "append" => call[d].leaf \in Leaves
    BY ClientFacts DEF CallShape
  <2> HIDE DEF x
  <2>7. leaf' \in [Leaves -> [key : Ids \cup {AnyId}, doc : Docs \cup {NoDoc}]] /\ \A l \in Leaves \ {x} : leaf'[l] = leaf[l]
    BY <1>1, ClientFacts DEF BlankLeaf
  <2>8. TypeInv'
    BY <1>1, <2>7, ClientFacts, <1>2, <2>2 DEF ListInv, TypeInv, TypeOK
  <2>9. ListOwnsLeaves'
    BY <1>1, <2>1, <2>5, ClientFacts DEF ListOwnsLeaves
  <2>10. \A d \in Clients : pc'[d] = "append" =>
             leaf'[call'[d].leaf] = [key |-> call'[d].id, doc |-> call'[d].doc]
    BY <2>3, <2>4, <2>6, <2>7 DEF ListInv, Ownership
  <2>11. \A d, e \in Clients : pc'[d] = "append" /\ pc'[e] = "append" /\ call'[d].leaf = call'[e].leaf => d = e
    BY <2>3, <2>4 DEF ListInv, Ownership
  <2>12. Ownership'
    BY <2>9, <2>10, <2>11 DEF Ownership
  <2> QED BY <2>8, <2>12 DEF ListInv
<1> QED BY <1>1, <1>3, <1>4

LEMMA NextKeepsList == ListInv /\ [Next]_vars => ListInv'
<1> SUFFICES ASSUME ListInv, [Next]_vars PROVE ListInv'
  OBVIOUS
<1>1. ASSUME NEW c \in Clients, Request(c), UNCHANGED use PROVE ListInv'
  BY <1>1, RequestKeepsList
<1>2. ASSUME NEW c \in Clients, Step(c), UNCHANGED use PROVE ListInv'
  BY <1>2, ReadLeafKeepsList, DeleteKeepsList, InsertKeepsList, AppendKeepsList, FailureKeepsList, ScanStepsKeepList,
     CacheStepsKeepList DEF Step
<1>3. CASE UNCHANGED vars
  BY <1>3 DEF vars, ListInv, TypeInv, TypeOK, CallShape, Ownership, ListOwnsLeaves, PrivateLeaves
<1> QED BY <1>1, <1>2, <1>3 DEF Next

\* The list lock keeps the list sound whatever the clients do at once: every variable
\* has its type, no leaf is in the list twice, and every allocated leaf is in the list
\* or with the one skiplist_insert that made it: none leaks, none is linked once freed.
THEOREM ListIsSound == Spec => [](TypeOK /\ ListOwnsLeaves)
<1>1. Init => ListInv
  BY InitList
<1>2. ListInv /\ [Next]_vars => ListInv'
  BY NextKeepsList
<1>3. ListInv => TypeOK /\ ListOwnsLeaves
  BY DEF ListInv, TypeInv, Ownership
<1> QED BY <1>1, <1>2, <1>3, PTL DEF Spec
-----------------------------------------------------------------------------
(* Without updates and deletes every copy of a document is the stored one. *)

\* The documents a query for a uuid, or for any, may return.
Originals(id) == {NewDoc(x) : x \in {y \in Ids : Stored(y) /\ id \in {AnyId, y}}}

\* A call at step p points to leaves of the list and holds what was inserted.
CallFresh(p, r) ==
    /\ p \in {"copy", "parse"} => r.leaf \in ToSet(list)
    /\ p = "copy" => leaf[r.leaf].key = r.id
    /\ p \in {"check", "append", "put"} => r.doc = NewDoc(r.id)
    /\ p = "put" => Stored(r.id)
    /\ ToSet(r.hits) \subseteq Originals(r.id)

AppendInv ==
    /\ \A l \in alive : leaf[l].doc = NewDoc(leaf[l].key)
    /\ \A id \in Ids : docCache[id] # NoDoc => docCache[id] = NewDoc(id) /\ Stored(id)
    /\ \A q \in Queries : queryCache[q] # NoResult => ToSet(queryCache[q]) \subseteq Originals(q.id)
    /\ \A c \in Clients : CallFresh(pc[c], call[c])

\* A uuid is stored if and only if a leaf of the list has it as its key.
LEMMA StoredIff == \A id : Stored(id) <=> \E l \in ToSet(list) : leaf[l].key = id
BY DEF Stored, IndicesOf, ToSet

LEMMA StoredIffNext == \A id : Stored(id)' <=> \E l \in ToSet(list') : leaf'[l].key = id
BY DEF Stored, IndicesOf, ToSet

LEMMA NoHits == ToSet(<<>>) = {} /\ NoCall.hits = <<>>
BY DEF ToSet, NoCall

\* While leaves only join the list, nothing that was true of a call becomes false.
LEMMA ListGrows ==
    ASSUME ToSet(list) \subseteq ToSet(list'), \A l \in ToSet(list) : leaf'[l] = leaf[l]
    PROVE  /\ \A id : Stored(id) => Stored(id)'
           /\ \A id : Originals(id) \subseteq Originals(id)'
  BY StoredIff, StoredIffNext DEF Originals

\* What a step of client c has to show.
LEMMA AppendFrame ==
    ASSUME ListInv, AppendInv, NEW c \in Clients,
           ToSet(list) \subseteq ToSet(list'), \A l \in ToSet(list) : leaf'[l] = leaf[l],
           \A d \in Clients \ {c} : pc'[d] = pc[d] /\ call'[d] = call[d],
           CallFresh(pc[c], call[c])',
           \A l \in alive' : leaf'[l].doc = NewDoc(leaf'[l].key),
           \A id \in Ids : \/ docCache'[id] \in {docCache[id], NoDoc}
                           \/ docCache'[id] = NewDoc(id) /\ Stored(id),
           \A q \in Queries : \/ queryCache'[q] \in {queryCache[q], NoResult}
                              \/ ToSet(queryCache'[q]) \subseteq Originals(q.id)
    PROVE  AppendInv'
<1>1. /\ \A id : Stored(id) => Stored(id)'
      /\ \A id : Originals(id) \subseteq Originals(id)'
  BY ListGrows
<1>2. \A id \in Ids : docCache'[id] # NoDoc => docCache'[id] = NewDoc(id) /\ Stored(id)'
  BY <1>1 DEF AppendInv
<1>3. \A q \in Queries : queryCache'[q] # NoResult => ToSet(queryCache'[q]) \subseteq Originals(q.id)'
  BY <1>1 DEF AppendInv
<1>4. \A d \in Clients : CallFresh(pc[d], call[d])'
  <2> SUFFICES ASSUME NEW d \in Clients PROVE CallFresh(pc[d], call[d])'
    OBVIOUS
  <2>1. CASE d # c
    BY <2>1, <1>1 DEF AppendInv, CallFresh
  <2>2. CASE d = c
    BY <2>2
  <2> QED BY <2>1, <2>2
<1> QED BY <1>2, <1>3, <1>4 DEF AppendInv
LEMMA Moved ==
    ASSUME ListInv, NEW c \in Clients, NEW p, NEW r, GoOn(c, p, r)
    PROVE  /\ pc'[c] = p /\ call'[c] = r
           /\ \A d \in Clients \ {c} : pc'[d] = pc[d] /\ call'[d] = call[d]
BY DEF GoOn, ListInv, TypeInv, TypeOK

\* What a step that moves client c and leaves list and leaves alone has to show.
LEMMA AppendLocal ==
    ASSUME ListInv, AppendInv, NEW c \in Clients, NEW p, NEW r, GoOn(c, p, r),
           UNCHANGED <<list, leaf, alive>>, CallFresh(p, r),
           \A id \in Ids : \/ docCache'[id] \in {docCache[id], NoDoc}
                           \/ docCache'[id] = NewDoc(id) /\ Stored(id),
           \A q \in Queries : \/ queryCache'[q] \in {queryCache[q], NoResult}
                              \/ ToSet(queryCache'[q]) \subseteq Originals(q.id)
    PROVE  AppendInv'
<1>1. /\ pc'[c] = p /\ call'[c] = r
      /\ \A d \in Clients \ {c} : pc'[d] = pc[d] /\ call'[d] = call[d]
  BY Moved
<1>2. ToSet(list) \subseteq ToSet(list') /\ \A l \in ToSet(list) : leaf'[l] = leaf[l]
  OBVIOUS
<1>3. CallFresh(pc[c], call[c])'
  BY <1>1, <1>2, ListGrows DEF CallFresh
<1>4. \A l \in alive' : leaf'[l].doc = NewDoc(leaf'[l].key)
  BY DEF AppendInv
<1> QED BY <1>1, <1>2, <1>3, <1>4, AppendFrame

\* An original of one uuid is the document inserted under it, and it is stored.
LEMMA OriginalOf ==
    ASSUME NEW id \in Ids, NEW d \in Originals(id)
    PROVE  d = NewDoc(id) /\ Stored(id)
BY StoreAssumption DEF Originals

LEMMA HeadIn ==
    ASSUME NEW S, NEW s \in Seq(S), s # <<>>
    PROVE  Head(s) \in ToSet(s)
  BY LenProperties, EmptySeq DEF ToSet

\* A call that has just started has collected nothing.
LEMMA FreshStart ==
    ASSUME NEW op \in Ops, NEW id \in Ids \cup {AnyId}, NEW kind \in Kinds, NEW tag \in SUBSET Tags
    PROVE  ToSet(CallOf(op, id, kind, tag).hits) = {}
BY CallOfType, NoHits

LEMMA AppendRequest ==
    ASSUME ListInv, AppendInv, AppendOnly, NEW c \in Clients, Request(c), UNCHANGED use
    PROVE  AppendInv'
<1>1. ASSUME NEW op \in Gets \cup Updates \cup Deletes, NEW id \in Ids, NEW kind \in Kinds, NEW tag \in SUBSET Tags,
             Searches(c, op, id, kind, tag)
      PROVE  AppendInv'
  <2> DEFINE r0 == CallOf(op, id, kind, tag)
             r  == [r0 EXCEPT !.leaf = art_search_in_list(r0.id)]
  <2>1. op \in Ops /\ op \notin Updates \cup Deletes
    BY <1>1 DEF Searches, AppendOnly, Ops, Writers, Inserts
  <2>2. r0 \in Calls /\ r0.op = op /\ r0.id = id /\ ToSet(r0.hits) = {}
    BY <2>1, CallOfType, FreshStart
  <2> HIDE DEF r0
  <2>3. /\ r0.id = id /\ art_search_in_list(id) # NoLeaf /\ GoOn(c, "copy", r)
        /\ UNCHANGED <<list, leaf, alive, docCache, queryCache>>
    BY <1>1, <2>2 DEF Searches, Search, r0
  <2>4. /\ art_search_in_list(id) \in ToSet(list) /\ leaf[art_search_in_list(id)].key = id
    BY <2>3, SearchFinds DEF art_search_in_list
  <2>5. r.leaf = art_search_in_list(id) /\ r.id = id /\ r.hits = r0.hits
    BY <2>2 DEF Calls
  <2> HIDE DEF r
  <2>6. CallFresh("copy", r)
    BY <2>2, <2>4, <2>5 DEF CallFresh
  <2> QED BY <2>3, <2>6, AppendLocal
<1>2. ASSUME NEW op \in Scans, NEW id \in Ids \cup {AnyId}, NEW kind \in Kinds, StartsScan(c, op, id, kind)
      PROVE  AppendInv'
  <2> DEFINE r == CallOf(op, id, kind, {})
  <2>1. op \in Ops
    BY DEF Ops
  <2>2. ToSet(r.hits) = {}
    BY <2>1, FreshStart
  <2>3. GoOn(c, "scan", r) /\ UNCHANGED <<list, leaf, alive, docCache, queryCache>>
    BY <1>2 DEF StartsScan, StartScan
  <2> HIDE DEF r
  <2>4. CallFresh("scan", r)
    BY <2>2 DEF CallFresh
  <2> QED BY <2>3, <2>4, AppendLocal
<1>3. ASSUME NEW id \in Ids, NEW kind \in Kinds, NEW result \in Seq(Docs), UsesCached(c, id, kind, result)
      PROVE  AppendInv'
  <2> DEFINE r0 == CallOf("db_get_document", id, kind, {})
             r  == [r0 EXCEPT !.doc = Head(result)]
             q  == [kind |-> kind, id |-> id]
  <2>1. "db_get_document" \in Ops
    BY DEF Ops, Scans
  <2>2. r0 \in Calls /\ r0.id = id /\ ToSet(r0.hits) = {}
    BY <2>1, CallOfType, FreshStart
  <2>3. /\ result = queryCache[q] /\ result # NoResult /\ result # <<>> /\ GoOn(c, "put", r)
        /\ UNCHANGED <<list, leaf, alive, docCache, queryCache>>
    BY <1>3 DEF UsesCached
  <2>4. q \in Queries /\ q.id = id
    BY DEF Queries
  <2> HIDE DEF q, r0
  <2>5. ToSet(result) \subseteq Originals(id)
    BY <2>3, <2>4 DEF AppendInv
  <2>6. Head(result) = NewDoc(id) /\ Stored(id)
    BY <2>3, <2>5, HeadIn, OriginalOf
  <2>7. r.doc = NewDoc(id) /\ r.id = id /\ r.hits = r0.hits
    BY <2>2, <2>6 DEF Calls
  <2> HIDE DEF r
  <2>8. CallFresh("put", r)
    BY <2>2, <2>6, <2>7 DEF CallFresh
  <2> QED BY <2>3, <2>8, AppendLocal
<1>4. ASSUME NEW id \in Ids, storage_insert_document(c, id)
      PROVE  AppendInv'
  <2> DEFINE r0 == CallOf("storage_insert_document", id, KindOf[id], {})
             r  == [r0 EXCEPT !.doc = NewDoc(id)]
  <2>1. "storage_insert_document" \in Ops /\ KindOf[id] \in Kinds
    BY StoreAssumption DEF Ops, Writers, Inserts
  <2>2. r0 \in Calls /\ r0.id = id /\ ToSet(r0.hits) = {}
    <3> DEFINE kind == KindOf[id]
    <3>1. kind \in Kinds
      BY <2>1
    <3> HIDE DEF kind
    <3>2. /\ CallOf("storage_insert_document", id, kind, {}) \in Calls
          /\ CallOf("storage_insert_document", id, kind, {}).id = id
          /\ ToSet(CallOf("storage_insert_document", id, kind, {}).hits) = {}
      BY <2>1, <3>1, CallOfType, FreshStart
    <3> QED BY <3>2 DEF kind
  <2>3. GoOn(c, "check", r) /\ UNCHANGED <<list, leaf, alive, docCache, queryCache>>
    BY <1>4 DEF storage_insert_document
  <2> HIDE DEF r0
  <2>4. r.doc = NewDoc(id) /\ r.id = id /\ r.hits = r0.hits
    BY <2>2 DEF Calls
  <2> HIDE DEF r
  <2>5. CallFresh("check", r)
    BY <2>2, <2>4 DEF CallFresh
  <2> QED BY <2>3, <2>5, AppendLocal
<1> QED BY <1>1, <1>2, <1>3, <1>4, RequestCases
LEMMA AppendStep ==
    ASSUME ListInv, AppendInv, AppendOnly, NEW c \in Clients, Step(c), UNCHANGED use
    PROVE  AppendInv'
<1> DEFINE r == call[c]
<1>1. /\ r \in Calls /\ CallShape(c, pc[c], r) /\ CallFresh(pc[c], r)
      /\ ToSet(list) \subseteq alive /\ alive \subseteq Leaves
  BY ClientFacts DEF AppendInv
<1>2. pc[c] # "idle" => r.op \notin Updates \cup Deletes
  BY <1>1 DEF CallShape, AppendOnly
<1>3. CallFresh("idle", NoCall)
  BY NoHits DEF CallFresh
<1>4. CASE ReadLeaf(c)
  <2>1. pc[c] = "copy" /\ UNCHANGED <<list, leaf, alive, docCache, queryCache>>
    BY <1>4 DEF ReadLeaf
  <2>2. PICK doc \in TextAt(r.leaf) :
           \/ Return(c)
           \/ r.op = "virtual_get" /\ doc # NoDoc /\ GoOn(c, "put", [r EXCEPT !.leaf = NoLeaf, !.doc = doc])
    BY <1>2, <1>4, <2>1 DEF ReadLeaf, Updates, Deletes
  <2>3. r.leaf \in ToSet(list) /\ leaf[r.leaf].key = r.id /\ r.leaf \in alive /\ r.id \in Ids
    BY <1>1, <2>1 DEF CallFresh, CallShape
  <2>4. doc = NewDoc(r.id) /\ Stored(r.id)
    BY <2>2, <2>3, StoredIff DEF TextAt, AppendInv
  <2>5. CASE Return(c)
    BY <1>3, <2>1, <2>5, ReturnMoves, AppendLocal
  <2>6. CASE GoOn(c, "put", [r EXCEPT !.leaf = NoLeaf, !.doc = doc])
    <3> DEFINE q == [r EXCEPT !.leaf = NoLeaf, !.doc = doc]
    <3>1. q.id = r.id /\ q.doc = doc /\ q.hits = r.hits
      BY <1>1 DEF Calls
    <3> HIDE DEF q
    <3>2. CallFresh("put", q)
      BY <1>1, <2>4, <3>1 DEF CallFresh
    <3> QED BY <2>1, <2>6, <3>2, AppendLocal DEF q
  <2> QED BY <2>2, <2>5, <2>6
<1>5. CASE skiplist_delete(c)
  BY <1>1, <1>2, <1>5 DEF skiplist_delete, CallShape
<1>6. CASE skiplist_insert(c)
  <2>1. pc[c] = "check" /\ UNCHANGED <<list, docCache, queryCache>>
    BY <1>6 DEF skiplist_insert
  <2>2. CASE Return(c) /\ UNCHANGED <<leaf, alive>>
    BY <1>3, <2>1, <2>2, ReturnMoves, AppendLocal
  <2>3. CASE \E l \in Leaves \ alive :
               /\ leaf' = [leaf EXCEPT ![l] = [key |-> r.id, doc |-> r.doc]]
               /\ alive' = alive \cup {l}
               /\ GoOn(c, "append", [r EXCEPT !.leaf = l])
    <3>1. PICK l \in Leaves \ alive :
               /\ leaf' = [leaf EXCEPT ![l] = [key |-> r.id, doc |-> r.doc]]
               /\ alive' = alive \cup {l}
               /\ GoOn(c, "append", [r EXCEPT !.leaf = l])
      BY <2>3
    <3> DEFINE q == [r EXCEPT !.leaf = l]
    <3>2. q.id = r.id /\ q.doc = r.doc /\ q.hits = r.hits
      BY <1>1 DEF Calls
    <3>3. GoOn(c, "append", q)
      BY <3>1
    <3> HIDE DEF q
    <3>4. r.doc = NewDoc(r.id) /\ CallFresh("append", q)
      BY <1>1, <2>1, <3>2 DEF CallFresh
    <3>5. leaf'[l] = [key |-> r.id, doc |-> r.doc] /\ \A x \in Leaves \ {l} : leaf'[x] = leaf[x]
      BY <3>1, ClientFacts
    <3>6. ToSet(list) \subseteq ToSet(list') /\ \A x \in ToSet(list) : leaf'[x] = leaf[x]
      BY <1>1, <2>1, <3>1, <3>5
    <3>7. \A x \in alive' : leaf'[x].doc = NewDoc(leaf'[x].key)
      BY <3>4, <3>5, <1>1, <3>1 DEF AppendInv
    <3>8. /\ pc'[c] = "append" /\ call'[c] = q
          /\ \A d \in Clients \ {c} : pc'[d] = pc[d] /\ call'[d] = call[d]
      BY <3>3, Moved
    <3>9. CallFresh(pc[c], call[c])'
      BY <3>4, <3>6, <3>8, ListGrows DEF CallFresh
    <3> QED BY <2>1, <3>6, <3>7, <3>8, <3>9, AppendFrame
  <2> QED BY <1>6, <2>2, <2>3 DEF skiplist_insert
<1>7. CASE AppendLeaf(c)
  <2>1. /\ pc[c] = "append" /\ list' = Append(list, r.leaf) /\ GoOn(c, "idle", NoCall)
        /\ UNCHANGED <<leaf, alive, docCache, queryCache>>
    BY <1>7, ReturnMoves DEF AppendLeaf, art_add_to_list
  <2>2. r.leaf \in Leaves
    BY <1>1, <2>1 DEF CallShape
  <2>3. ToSet(list) \subseteq ToSet(list') /\ \A x \in ToSet(list) : leaf'[x] = leaf[x]
    BY <2>1, <2>2, ClientFacts, AppendToSet
  <2>4. /\ pc'[c] = "idle" /\ call'[c] = NoCall
        /\ \A d \in Clients \ {c} : pc'[d] = pc[d] /\ call'[d] = call[d]
    BY <2>1, Moved
  <2>5. CallFresh(pc[c], call[c])'
    BY <2>4, NoHits DEF CallFresh
  <2>6. \A l \in alive' : leaf'[l].doc = NewDoc(leaf'[l].key)
    BY <2>1 DEF AppendInv
  <2> QED BY <2>1, <2>3, <2>4, <2>5, <2>6, AppendFrame
<1>8. CASE InsertFails(c)
  <2> DEFINE x == r.leaf
  <2>1. /\ pc[c] \in {"check", "append"} /\ GoOn(c, "idle", NoCall)
        /\ UNCHANGED <<list, docCache, queryCache>>
        /\ alive' = alive \ {x}
        /\ leaf' = [l \in Leaves |-> IF l = x THEN BlankLeaf ELSE leaf[l]]
    BY <1>8, ReturnMoves DEF InsertFails, FreeLeaf
  <2>2. x \notin ToSet(list)
    BY ClientFacts, <1>1, <2>1 DEF CallShape
  <2> HIDE DEF x
  <2>3. \A l \in Leaves \ {x} : leaf'[l] = leaf[l]
    BY <2>1
  <2>4. ToSet(list) \subseteq ToSet(list') /\ \A l \in ToSet(list) : leaf'[l] = leaf[l]
    BY <1>1, <2>1, <2>2, <2>3
  <2>5. /\ pc'[c] = "idle" /\ call'[c] = NoCall
        /\ \A d \in Clients \ {c} : pc'[d] = pc[d] /\ call'[d] = call[d]
    BY <2>1, Moved
  <2>6. CallFresh(pc[c], call[c])'
    BY <2>5, NoHits DEF CallFresh
  <2>7. \A l \in alive' : leaf'[l].doc = NewDoc(leaf'[l].key)
    BY <1>1, <2>1, <2>3 DEF AppendInv
  <2> QED BY <2>1, <2>4, <2>5, <2>6, <2>7, AppendFrame
<1>9. CASE skiplist_iterator_next(c)
  <2> DEFINE q == [r EXCEPT !.leaf = list[r.next], !.next = @ + 1]
  <2>1. /\ pc[c] = "scan" /\ r.next <= Len(list) /\ GoOn(c, "parse", q)
        /\ UNCHANGED <<list, leaf, alive, docCache, queryCache>>
    BY <1>9 DEF skiplist_iterator_next
  <2>2. r.next \in Nat \ {0} /\ DOMAIN list = 1 .. Len(list) /\ Len(list) \in Nat
    BY <1>1, ClientFacts, LenProperties DEF Calls
  <2>3. list[r.next] \in ToSet(list)
    BY <2>1, <2>2 DEF ToSet
  <2>4. q.id = r.id /\ q.leaf = list[r.next] /\ q.hits = r.hits
    BY <1>1 DEF Calls
  <2> HIDE DEF q
  <2>5. CallFresh("parse", q)
    BY <1>1, <2>3, <2>4 DEF CallFresh
  <2> QED BY <2>1, <2>5, AppendLocal
<1>10. CASE ParseDocument(c)
  <2>1. pc[c] = "parse" /\ UNCHANGED <<list, leaf, alive, docCache, queryCache>>
    BY <1>10 DEF ParseDocument
  <2>2. PICK doc \in TextAt(r.leaf) :
             GoOn(c, "scan", [r EXCEPT !.leaf = NoLeaf,
                                       !.hits = IF Matches(r, doc) THEN Append(@, doc) ELSE @])
    BY <1>10 DEF ParseDocument
  <2> DEFINE h == IF Matches(r, doc) THEN Append(r.hits, doc) ELSE r.hits
             q == [r EXCEPT !.leaf = NoLeaf, !.hits = h]
             id == leaf[r.leaf].key
  <2>3. r.leaf \in ToSet(list) /\ r.leaf \in alive
    BY <1>1, <2>1 DEF CallFresh
  <2>4. doc = NewDoc(id) /\ Stored(id) /\ id \in Ids
    BY <2>2, <2>3, StoredIff, ClientFacts DEF TextAt, AppendInv, ListInv, TypeInv
  <2>5. doc \in Docs /\ doc.id = id /\ r.hits \in Seq(Docs)
    BY <1>1, <2>4, DocTypes DEF Calls
  <2>6. Matches(r, doc) => doc \in Originals(r.id)
    BY <2>4, <2>5 DEF Matches, Originals
  <2>7. ToSet(h) \subseteq Originals(r.id)
    BY <1>1, <2>5, AppendToSet, <2>6 DEF CallFresh
  <2>8. GoOn(c, "scan", q)
    BY <2>2
  <2> HIDE DEF h
  <2>9. q.id = r.id /\ q.hits = h
    BY <1>1 DEF Calls
  <2> HIDE DEF q
  <2>10. CallFresh("scan", q)
    BY <2>7, <2>9 DEF CallFresh
  <2> QED BY <2>1, <2>8, <2>10, AppendLocal
<1>11. CASE EndScan(c)
  <2> DEFINE k == [kind |-> r.kind, id |-> r.id]
             q == [NoCall EXCEPT !.op = r.op, !.id = r.id, !.kind = r.kind, !.doc = Head(r.hits)]
             v == r.hits
  <2>1. k \in Queries /\ v \in Seq(Docs) /\ k.id = r.id
    BY <1>1 DEF Calls, Queries
  <2>2. /\ pc[c] = "scan" /\ UNCHANGED <<list, leaf, alive, docCache>>
        /\ \/ queryCache' = queryCache
           \/ queryCache' \in CachePut(queryCache, NoResult, k, v)
        /\ \/ r.op = "db_get_document" /\ v # <<>> /\ GoOn(c, "put", q)
           \/ Return(c)
    BY <1>11 DEF EndScan
  <2>3. ToSet(v) \subseteq Originals(r.id)
    BY <1>1 DEF CallFresh
  <2> HIDE DEF k, v, q
  <2>4. \A z \in Queries : \/ queryCache'[z] \in {queryCache[z], NoResult}
                           \/ ToSet(queryCache'[z]) \subseteq Originals(z.id)
    <3>1. CASE queryCache' = queryCache
      BY <3>1
    <3>2. CASE queryCache' \in CachePut(queryCache, NoResult, k, v)
      <4> DEFINE m == queryCache'
      <4>1. DOMAIN queryCache = Queries /\ queryCache = [x \in Queries |-> queryCache[x]]
        BY ClientFacts
      <4>2. m \in CachePut(queryCache, NoResult, k, v)
        BY <3>2
      <4> HIDE DEF m
      <4>3. \A x \in Queries : IF x = k THEN m[x] \in {v, NoResult} ELSE m[x] \in {queryCache[x], NoResult}
        BY <2>1, <4>1, <4>2, CachePutEntries
      <4> QED BY <2>1, <2>3, <4>3 DEF m
    <3> QED BY <2>2, <3>1, <3>2
  <2>5. CASE Return(c)
    BY <1>3, <2>2, <2>4, <2>5, ReturnMoves, AppendLocal
  <2>6. CASE r.op = "db_get_document" /\ v # <<>> /\ GoOn(c, "put", q)
    <3>1. Head(v) \in ToSet(v)
      BY <2>1, <2>6, HeadIn
    <3>2. r.id \in Ids
      BY <1>1, <2>6 DEF CallShape
    <3>3. Head(v) = NewDoc(r.id) /\ Stored(r.id)
      BY <2>3, <3>1, <3>2, OriginalOf
    <3>4. q.id = r.id /\ q.doc = Head(v) /\ q.hits = <<>>
      BY DEF q, v, NoCall
    <3>5. CallFresh("put", q)
      BY <3>3, <3>4, NoHits DEF CallFresh
    <3> QED BY <2>2, <2>4, <2>6, <3>5, AppendLocal
  <2> QED BY <2>2, <2>5, <2>6
<1>12. CASE PutDocument(c)
  <2>1. /\ pc[c] = "put" /\ UNCHANGED <<list, leaf, alive, queryCache>> /\ GoOn(c, "idle", NoCall)
        /\ docCache' \in CachePut(docCache, NoDoc, r.id, r.doc)
    BY <1>12, ReturnMoves DEF PutDocument
  <2>2. r.id \in Ids /\ r.doc = NewDoc(r.id) /\ Stored(r.id)
    BY <1>1, <2>1 DEF CallShape, CallFresh
  <2> DEFINE m == docCache'
             v == r.doc
             k == r.id
  <2>3. DOMAIN docCache = Ids /\ docCache = [x \in Ids |-> docCache[x]]
    BY ClientFacts
  <2>4. m \in CachePut(docCache, NoDoc, k, v) /\ k \in Ids /\ v = NewDoc(k) /\ Stored(k)
    BY <2>1, <2>2
  <2> HIDE DEF m, v, k
  <2>5. \A x \in Ids : IF x = k THEN m[x] \in {v, NoDoc} ELSE m[x] \in {docCache[x], NoDoc}
    BY <2>3, <2>4, CachePutEntries
  <2>6. \A x \in Ids : \/ docCache'[x] \in {docCache[x], NoDoc}
                       \/ docCache'[x] = NewDoc(x) /\ Stored(x)
    BY <2>4, <2>5 DEF m
  <2> QED BY <1>3, <2>1, <2>6, AppendLocal
<1> QED BY <1>4, <1>5, <1>6, <1>7, <1>8, <1>9, <1>10, <1>11, <1>12 DEF Step
LEMMA InitAppend == Init => AppendInv
<1> SUFFICES ASSUME Init PROVE AppendInv
  OBVIOUS
<1>1. \A l \in alive : leaf[l].doc = NewDoc(leaf[l].key)
  <2> SUFFICES ASSUME NEW l \in alive PROVE leaf[l].doc = NewDoc(leaf[l].key)
    OBVIOUS
  <2>1. PICK i \in DOMAIN list : l = list[i]
    BY InitLeaves DEF ToSet
  <2>2. leaf[l] = [key |-> InitialIds[i], doc |-> NewDoc(InitialIds[i])]
    BY <2>1, InitLeaves
  <2> QED BY <2>2
<1>2. /\ pc = [c \in Clients |-> "idle"] /\ call = [c \in Clients |-> NoCall]
      /\ docCache = [id \in Ids |-> NoDoc] /\ queryCache = [q \in Queries |-> NoResult]
  BY DEF Init
<1>3. CallFresh("idle", NoCall)
  BY NoHits DEF CallFresh
<1> QED BY <1>1, <1>2, <1>3 DEF AppendInv

\* At every moment the variables have their types and documents are owned by one node of
\* the list; and as long as nothing is updated or deleted, no client reads a leaf that
\* was freed and a cached document is the stored one.
THEOREM StoreIsSound == Spec => []StoreSound
<1> DEFINE Inv == ListInv /\ (AppendOnly => AppendInv)
<1>1. Init => Inv
  BY InitList, InitAppend
<1>2. Inv /\ [Next]_vars => Inv'
  <2> SUFFICES ASSUME Inv, [Next]_vars PROVE Inv'
    OBVIOUS
  <2>1. ListInv'
    BY NextKeepsList
  <2>2. AppendOnly' => AppendOnly
    BY DEF Next, vars, AppendOnly
  <2>3. ASSUME AppendOnly PROVE AppendInv'
    <3>1. CASE UNCHANGED vars
      BY <2>3, <3>1 DEF vars, AppendInv, CallFresh, Originals, Stored, IndicesOf
    <3>2. CASE Next
      BY <2>3, <3>2, AppendRequest, AppendStep DEF Next
    <3> QED BY <3>1, <3>2
  <2> QED BY <2>1, <2>2, <2>3
<1>3. Inv => StoreSound
  <2> SUFFICES ASSUME Inv PROVE StoreSound
    OBVIOUS
  <2>1. TypeOK /\ ListOwnsLeaves
    BY DEF ListInv, TypeInv, Ownership
  <2>2. NoUseAfterFree
    <3> SUFFICES ASSUME AppendOnly, NEW c \in Clients, call[c].leaf # NoLeaf
                 PROVE  call[c].leaf \in alive
      BY DEF NoUseAfterFree
    <3>1. pc[c] \in {"copy", "parse", "append"}
      BY ClientFacts DEF CallShape, Calls
    <3> QED BY <3>1, ClientFacts DEF AppendInv, CallFresh
  <2>3. DocumentCacheCoherent
    <3> SUFFICES ASSUME AppendOnly, NEW id \in Ids, docCache[id] # NoDoc
                 PROVE  docCache[id] = DocumentOf(id)
      BY DEF DocumentCacheCoherent
    <3>1. docCache[id] = NewDoc(id) /\ Stored(id)
      BY DEF AppendInv
    <3>2. art_search_in_list(id) \in alive /\ leaf[art_search_in_list(id)].key = id
      BY <3>1, SearchFinds
    <3>3. leaf[art_search_in_list(id)].doc = NewDoc(id)
      BY <3>2 DEF AppendInv
    <3> QED BY <3>1, <3>3 DEF DocumentOf
  <2> QED BY <2>1, <2>2, <2>3 DEF StoreSound
<1> HIDE DEF Inv
<1> QED BY <1>1, <1>2, <1>3, PTL DEF Spec
-----------------------------------------------------------------------------
(* Without updates and deletes a scan collects every document once.        *)

\* What the call of a scan holds before and after the iterator's step.
CollectedIn(r, n, li, le) ==
    \E seen \in [DOMAIN r.hits -> 1 .. n] :
        /\ \A j, k \in DOMAIN r.hits : j < k => seen[j] < seen[k]
        /\ \A k \in DOMAIN r.hits : r.hits[k] = le[li[seen[k]]].doc
        /\ \A i \in 1 .. n : Matches(r, le[li[i]].doc) <=> \E k \in DOMAIN r.hits : seen[k] = i

ScanCall(p, r, li, le) ==
    /\ p = "scan" => r.next - 1 <= Len(li) /\ CollectedIn(r, r.next - 1, li, le)
    /\ p = "parse" => /\ r.next > 1 /\ r.next - 1 <= Len(li)
                      /\ r.leaf = li[r.next - 1] /\ CollectedIn(r, r.next - 2, li, le)

ScanInv == \A c \in Clients : ScanCall(pc[c], call[c], list, leaf)

\* The list keeps its leaves where they are, and they keep what they hold.
Grown == /\ Len(list') >= Len(list)
         /\ \A i \in 1 .. Len(list) : list'[i] = list[i] /\ leaf'[list[i]] = leaf[list[i]]

LEMMA CollectedStill ==
    ASSUME Grown, NEW r, NEW n \in Nat, n <= Len(list), Len(list) \in Nat, CollectedIn(r, n, list, leaf)
    PROVE  CollectedIn(r, n, list', leaf')
<1>1. \A i \in 1 .. n : list'[i] = list[i] /\ leaf'[list[i]] = leaf[list[i]]
  BY DEF Grown
<1>2. PICK seen \in [DOMAIN r.hits -> 1 .. n] :
        /\ \A j, k \in DOMAIN r.hits : j < k => seen[j] < seen[k]
        /\ \A k \in DOMAIN r.hits : r.hits[k] = leaf[list[seen[k]]].doc
        /\ \A i \in 1 .. n : Matches(r, leaf[list[i]].doc) <=> \E k \in DOMAIN r.hits : seen[k] = i
  BY DEF CollectedIn
<1>3. \A k \in DOMAIN r.hits : r.hits[k] = leaf'[list'[seen[k]]].doc
  BY <1>1, <1>2
<1>4. \A i \in 1 .. n : Matches(r, leaf'[list'[i]].doc) <=> \E k \in DOMAIN r.hits : seen[k] = i
  BY <1>1, <1>2
<1> QED BY <1>2, <1>3, <1>4 DEF CollectedIn

\* One leaf more: its document joins if it matches.
LEMMA CollectedMore ==
    ASSUME NEW r, NEW q, NEW n \in Nat, r.hits \in Seq(Docs), CollectedIn(r, n, list, leaf),
           NEW doc \in Docs, doc = leaf[list[n + 1]].doc,
           q.kind = r.kind, q.id = r.id,
           q.hits = IF Matches(r, doc) THEN Append(r.hits, doc) ELSE r.hits
    PROVE  CollectedIn(q, n + 1, list, leaf)
<1>1. PICK seen \in [DOMAIN r.hits -> 1 .. n] :
        /\ \A j, k \in DOMAIN r.hits : j < k => seen[j] < seen[k]
        /\ \A k \in DOMAIN r.hits : r.hits[k] = leaf[list[seen[k]]].doc
        /\ \A i \in 1 .. n : Matches(r, leaf[list[i]].doc) <=> \E k \in DOMAIN r.hits : seen[k] = i
  BY DEF CollectedIn
<1>2. \A d : Matches(q, d) <=> Matches(r, d)
  BY DEF Matches
<1>3. 1 .. n + 1 = (1 .. n) \cup {n + 1} /\ n + 1 \notin 1 .. n /\ 1 .. n \subseteq Nat
  OBVIOUS
<1>4. CASE ~ Matches(r, doc)
  <2>a. q.hits = r.hits
    BY <1>4
  <2>b. seen \in [DOMAIN r.hits -> 1 .. n + 1]
    BY <1>1, <1>3
  <2>1. q.hits = r.hits /\ DOMAIN q.hits = DOMAIN r.hits /\ seen \in [DOMAIN q.hits -> 1 .. n + 1]
    BY <2>a, <2>b
  <2>2. \A i \in 1 .. n + 1 : Matches(q, leaf[list[i]].doc) <=> \E k \in DOMAIN q.hits : seen[k] = i
    BY <1>1, <1>2, <1>3, <1>4, <2>1
  <2>3. \A k \in DOMAIN q.hits : q.hits[k] = leaf[list[seen[k]]].doc
    BY <1>1, <2>1
  <2>4. \A j, k \in DOMAIN q.hits : j < k => seen[j] < seen[k]
    BY <1>1, <2>1
  <2> SUFFICES \E s \in [DOMAIN q.hits -> 1 .. n + 1] :
                  /\ \A j, k \in DOMAIN q.hits : j < k => s[j] < s[k]
                  /\ \A k \in DOMAIN q.hits : q.hits[k] = leaf[list[s[k]]].doc
                  /\ \A i \in 1 .. n + 1 : Matches(q, leaf[list[i]].doc) <=> \E k \in DOMAIN q.hits : s[k] = i
    BY DEF CollectedIn
  <2> USE <2>1
  <2> WITNESS seen \in [DOMAIN q.hits -> 1 .. n + 1]
  <2> QED BY <2>2, <2>3, <2>4
<1>5. CASE Matches(r, doc)
  <2> DEFINE m == Len(r.hits) + 1
             new == [k \in 1 .. m |-> IF k = m THEN n + 1 ELSE seen[k]]
  <2>1. /\ Len(r.hits) \in Nat /\ DOMAIN r.hits = 1 .. Len(r.hits) /\ DOMAIN q.hits = 1 .. m
        /\ q.hits[m] = doc /\ \A k \in 1 .. Len(r.hits) : q.hits[k] = r.hits[k]
    BY <1>5, AppendProperties, LenProperties
  <2>2. 1 .. m = (1 .. Len(r.hits)) \cup {m} /\ m \notin 1 .. Len(r.hits) /\ m \in Nat
    BY <2>1
  <2>3. /\ new[m] = n + 1 /\ \A k \in 1 .. Len(r.hits) : new[k] = seen[k]
        /\ new \in [1 .. m -> 1 .. n + 1]
    BY <1>1, <1>3, <2>1, <2>2
  <2>7. \A j \in 1 .. Len(r.hits) : seen[j] \in 1 .. n /\ seen[j] < n + 1
    BY <1>1, <2>1
  <2> HIDE DEF new
  <2>4. ASSUME NEW j \in 1 .. m, NEW k \in 1 .. m, j < k  PROVE new[j] < new[k]
    <3>1. j \in 1 .. Len(r.hits)
      BY <2>1, <2>4
    <3>2. CASE k = m
      BY <2>3, <2>7, <3>1, <3>2
    <3>3. CASE k # m
      BY <1>1, <2>1, <2>2, <2>3, <2>4, <3>1, <3>3
    <3> QED BY <3>2, <3>3
  <2> HIDE DEF m
  <2>5. \A k \in 1 .. m : q.hits[k] = leaf[list[new[k]]].doc
    BY <1>1, <2>1, <2>2, <2>3
  <2>6. ASSUME NEW i \in 1 .. n + 1
        PROVE  Matches(q, leaf[list[i]].doc) <=> \E k \in 1 .. m : new[k] = i
    <3>1. CASE i = n + 1
      BY <1>2, <1>5, <2>2, <2>3, <3>1
    <3>2. CASE i \in 1 .. n
      <4>1. (\E k \in 1 .. m : new[k] = i) <=> \E k \in 1 .. Len(r.hits) : seen[k] = i
        BY <1>3, <2>2, <2>3, <3>2
      <4> QED BY <1>1, <1>2, <2>1, <3>2, <4>1
    <3> QED BY <1>3, <3>1, <3>2
  <2>8. new \in [DOMAIN q.hits -> 1 .. n + 1]
    BY <2>1, <2>3
  <2> SUFFICES \E s \in [DOMAIN q.hits -> 1 .. n + 1] :
                  /\ \A j, k \in DOMAIN q.hits : j < k => s[j] < s[k]
                  /\ \A k \in DOMAIN q.hits : q.hits[k] = leaf[list[s[k]]].doc
                  /\ \A i \in 1 .. n + 1 : Matches(q, leaf[list[i]].doc) <=> \E k \in DOMAIN q.hits : s[k] = i
    BY DEF CollectedIn
  <2> USE <2>8
  <2> WITNESS new \in [DOMAIN q.hits -> 1 .. n + 1]
  <2> QED BY <2>1, <2>4, <2>5, <2>6
<1> QED BY <1>4, <1>5

\* What a step of client c has to show.
LEMMA ScanFrame ==
    ASSUME ListInv, ScanInv, NEW c \in Clients, Grown, list' \in Seq(Leaves),
           \A d \in Clients \ {c} : pc'[d] = pc[d] /\ call'[d] = call[d],
           ScanCall(pc'[c], call'[c], list', leaf')
    PROVE  ScanInv'
<1>1. Len(list) \in Nat /\ Len(list') \in Nat
  BY ClientFacts, LenProperties
<1> SUFFICES ASSUME NEW d \in Clients, d # c PROVE ScanCall(pc'[d], call'[d], list', leaf')
  BY DEF ScanInv
<1>2. PICK p, r : p = pc[d] /\ r = call[d]
  OBVIOUS
<1>3. ScanCall(p, r, list, leaf) /\ r \in Calls
  BY <1>2, ClientFacts DEF ScanInv
<1>4. r.next \in Nat \ {0}
  BY <1>3 DEF Calls
<1>5. \A i \in 1 .. Len(list) : list'[i] = list[i]
  BY DEF Grown
<1>6. CASE p = "scan"
  BY <1>1, <1>3, <1>4, <1>6, CollectedStill, <1>2 DEF ScanCall, Grown
<1>7. CASE p = "parse"
  <2>1. /\ r.next - 2 \in Nat /\ r.next - 2 <= Len(list) /\ r.next - 1 <= Len(list') /\ r.next > 1
        /\ r.next - 1 \in 1 .. Len(list)
    BY <1>1, <1>3, <1>4, <1>7 DEF ScanCall, Grown
  <2>2. CollectedIn(r, r.next - 2, list, leaf) /\ r.leaf = list[r.next - 1]
    BY <1>3, <1>7 DEF ScanCall
  <2>3. CollectedIn(r, r.next - 2, list', leaf')
    BY <1>1, <2>1, <2>2, CollectedStill
  <2>4. r.leaf = list'[r.next - 1]
    BY <1>5, <2>1, <2>2
  <2>5. ScanCall(p, r, list', leaf')
    BY <1>7, <2>1, <2>3, <2>4 DEF ScanCall
  <2> QED BY <1>2, <2>5 DEF ScanCall
<1>8. CASE p \notin {"scan", "parse"}
  BY <1>2, <1>8 DEF ScanCall
<1> QED BY <1>6, <1>7, <1>8

\* What a step that moves client c and leaves the list alone has to show.
LEMMA ScanLocal ==
    ASSUME ListInv, ScanInv, NEW c \in Clients, NEW p, NEW r, GoOn(c, p, r),
           UNCHANGED list, \A i \in 1 .. Len(list) : leaf'[list[i]] = leaf[list[i]],
           p \in {"scan", "parse"} => UNCHANGED leaf /\ ScanCall(p, r, list, leaf)
    PROVE  ScanInv'
  BY Moved, ClientFacts, LenProperties, ScanFrame DEF Grown, ScanCall

LEMMA ScanRequest ==
    ASSUME ListInv, ScanInv, NEW c \in Clients, Request(c)
    PROVE  ScanInv'
<1>1. ASSUME NEW op \in Gets \cup Updates \cup Deletes, NEW id \in Ids, NEW kind \in Kinds, NEW tag \in SUBSET Tags,
             Searches(c, op, id, kind, tag)
      PROVE  ScanInv'
  <2>1. PICK r : GoOn(c, "copy", r) /\ UNCHANGED <<list, leaf>>
    BY <1>1 DEF Searches, Search
  <2> QED BY <2>1, ScanLocal
<1>2. ASSUME NEW op \in Scans, NEW id \in Ids \cup {AnyId}, NEW kind \in Kinds, StartsScan(c, op, id, kind)
      PROVE  ScanInv'
  <2> DEFINE r == CallOf(op, id, kind, {})
  <2>1. op \in Ops
    BY DEF Ops
  <2>2. r.hits = <<>> /\ r.next = 1
    BY <2>1, CallOfType
  <2>3. GoOn(c, "scan", r) /\ UNCHANGED <<list, leaf>>
    BY <1>2 DEF StartsScan, StartScan
  <2> HIDE DEF r
  <2>4. CollectedIn(r, 0, list, leaf)
    <3> DEFINE seen == [k \in {} |-> 0]
    <3>1. DOMAIN r.hits = {} /\ 1 .. 0 = {}
      BY <2>2
    <3>2. seen \in [DOMAIN r.hits -> 1 .. 0]
      BY <3>1
    <3> QED BY <3>1, <3>2 DEF CollectedIn
  <2>5. Len(list) \in Nat
    BY ClientFacts, LenProperties
  <2>6. ScanCall("scan", r, list, leaf)
    BY <2>2, <2>4, <2>5 DEF ScanCall
  <2> QED BY <2>3, <2>6, ScanLocal
<1>3. ASSUME NEW id \in Ids, NEW kind \in Kinds, NEW result \in Seq(Docs), UsesCached(c, id, kind, result)
      PROVE  ScanInv'
  <2>1. PICK r : GoOn(c, "put", r) /\ UNCHANGED <<list, leaf>>
    BY <1>3 DEF UsesCached
  <2> QED BY <2>1, ScanLocal
<1>4. ASSUME NEW id \in Ids, storage_insert_document(c, id)
      PROVE  ScanInv'
  <2>1. PICK r : GoOn(c, "check", r) /\ UNCHANGED <<list, leaf>>
    BY <1>4 DEF storage_insert_document
  <2> QED BY <2>1, ScanLocal
<1> QED BY <1>1, <1>2, <1>3, <1>4, RequestCases

LEMMA ScanStep ==
    ASSUME ListInv, AppendInv, ScanInv, AppendOnly, NEW c \in Clients, Step(c)
    PROVE  ScanInv'
<1> DEFINE r == call[c]
<1>1. /\ r \in Calls /\ CallShape(c, pc[c], r) /\ CallFresh(pc[c], r) /\ ScanCall(pc[c], r, list, leaf)
      /\ ToSet(list) \subseteq alive /\ list \in Seq(Leaves)
  BY ClientFacts DEF AppendInv, ScanInv
<1>2. pc[c] # "idle" => r.op \notin Updates \cup Deletes
  BY <1>1 DEF CallShape, AppendOnly
<1>3. /\ Len(list) \in Nat /\ DOMAIN list = 1 .. Len(list) /\ r.next \in Nat \ {0}
      /\ \A i \in 1 .. Len(list) : list[i] \in ToSet(list)
  BY <1>1, LenProperties DEF Calls, ToSet
<1>r. Return(c) => GoOn(c, "idle", NoCall)
  BY ReturnMoves
<1>4. CASE ReadLeaf(c)
  <2>1. PICK p, q : p \in {"idle", "put", "unlink"} /\ GoOn(c, p, q)
    BY <1>4, <1>r DEF ReadLeaf
  <2> QED BY <1>4, <2>1, ScanLocal DEF ReadLeaf
<1>5. CASE skiplist_delete(c)
  BY <1>1, <1>2, <1>5 DEF skiplist_delete, CallShape
<1>6. CASE skiplist_insert(c)
  <2>1. UNCHANGED list
    BY <1>6 DEF skiplist_insert
  <2>2. PICK l \in Leaves \ alive :
             \/ Return(c) /\ UNCHANGED leaf
             \/ /\ leaf' = [leaf EXCEPT ![l] = [key |-> r.id, doc |-> r.doc]]
                /\ GoOn(c, "append", [r EXCEPT !.leaf = l])
    BY <1>6 DEF skiplist_insert
  <2>3. \A i \in 1 .. Len(list) : leaf'[list[i]] = leaf[list[i]]
    BY <1>1, <1>3, <2>2, ClientFacts
  <2>4. PICK p, q : p \in {"idle", "append"} /\ GoOn(c, p, q)
    BY <1>r, <2>2
  <2> QED BY <2>1, <2>3, <2>4, ScanLocal
<1>7. CASE AppendLeaf(c)
  BY <1>7, ReturnMoves, <1>1, <1>3, AppendProperties, Moved, ScanFrame DEF AppendLeaf, art_add_to_list, CallShape,
     Grown, ScanCall
<1>8. CASE InsertFails(c)
  BY <1>8, ReturnMoves, ClientFacts, <1>1, <1>3, ScanLocal DEF InsertFails, CallShape
<1>9. CASE skiplist_iterator_next(c)
  <2> DEFINE q == [r EXCEPT !.leaf = list[r.next], !.next = @ + 1]
  <2>1. /\ pc[c] = "scan" /\ r.next <= Len(list) /\ GoOn(c, "parse", q) /\ UNCHANGED <<list, leaf>>
    BY <1>9 DEF skiplist_iterator_next
  <2>2. q.leaf = list[r.next] /\ q.next = r.next + 1 /\ q.hits = r.hits /\ q.kind = r.kind /\ q.id = r.id
    BY <1>1 DEF Calls
  <2> HIDE DEF q
  <2>3. q.next - 2 = r.next - 1 /\ q.next - 1 = r.next /\ q.next > 1
    BY <1>3, <2>2
  <2>4. CollectedIn(r, r.next - 1, list, leaf)
    BY <1>1, <2>1 DEF ScanCall
  <2>5. CollectedIn(q, r.next - 1, list, leaf)
    BY <2>2, <2>4 DEF CollectedIn, Matches
  <2>6. ScanCall("parse", q, list, leaf)
    BY <2>1, <2>2, <2>3, <2>5 DEF ScanCall
  <2> QED BY <2>1, <2>6, ScanLocal
<1>10. CASE ParseDocument(c)
  <2>1. pc[c] = "parse" /\ UNCHANGED <<list, leaf>>
    BY <1>10 DEF ParseDocument
  <2>2. PICK doc \in TextAt(r.leaf) :
             GoOn(c, "scan", [r EXCEPT !.leaf = NoLeaf,
                                       !.hits = IF Matches(r, doc) THEN Append(@, doc) ELSE @])
    BY <1>10 DEF ParseDocument
  <2> DEFINE h == IF Matches(r, doc) THEN Append(r.hits, doc) ELSE r.hits
             q == [r EXCEPT !.leaf = NoLeaf, !.hits = h]
             n == r.next - 2
  <2>3. r.next > 1 /\ r.next - 1 <= Len(list) /\ r.leaf = list[r.next - 1] /\ CollectedIn(r, n, list, leaf)
    BY <1>1, <2>1 DEF ScanCall
  <2>4. n \in Nat /\ n + 1 = r.next - 1
    BY <1>3, <2>3
  <2>5. r.leaf \in alive /\ leaf[r.leaf].key \in Ids
    BY <1>1, <2>1, ClientFacts DEF CallFresh, ListInv, TypeInv
  <2>6. doc = leaf[r.leaf].doc /\ doc \in Docs
    BY <2>2, <2>5, DocTypes DEF TextAt, AppendInv
  <2>7. GoOn(c, "scan", q)
    BY <2>2
  <2> HIDE DEF h
  <2>8. q.hits = h /\ q.kind = r.kind /\ q.id = r.id /\ q.next = r.next /\ r.hits \in Seq(Docs)
    BY <1>1 DEF Calls
  <2> HIDE DEF q, n
  <2>9. doc = leaf[list[n + 1]].doc
    BY <2>3, <2>4, <2>6
  <2>10. CollectedIn(q, n + 1, list, leaf)
    BY <2>3, <2>4, <2>6, <2>8, <2>9, CollectedMore DEF h
  <2>11. ScanCall("scan", q, list, leaf)
    BY <2>3, <2>4, <2>8, <2>10 DEF ScanCall
  <2> QED BY <2>1, <2>7, <2>11, ScanLocal
<1>11. CASE EndScan(c)
  <2>1. PICK p, q : p \in {"idle", "put"} /\ GoOn(c, p, q)
    BY <1>11, <1>r DEF EndScan
  <2> QED BY <1>11, <2>1, ScanLocal DEF EndScan
<1>12. CASE PutDocument(c)
  BY <1>12, <1>r, ScanLocal DEF PutDocument
<1> QED BY <1>4, <1>5, <1>6, <1>7, <1>8, <1>9, <1>10, <1>11, <1>12 DEF Step

LEMMA AppendNext ==
    ASSUME ListInv, AppendInv, AppendOnly, [Next]_vars
    PROVE  AppendInv'
<1>1. CASE UNCHANGED vars
  BY <1>1 DEF vars, AppendInv, CallFresh, Originals, Stored, IndicesOf
<1>2. CASE Next
  BY <1>2, AppendRequest, AppendStep DEF Next
<1> QED BY <1>1, <1>2

\* As long as nothing is updated or deleted, what a scan has collected is what matches
\* in the leaves it has passed, each once and in their order, while others append.
THEOREM ScansAreExact == Spec => []ScanIsExact
<1> DEFINE Inv == ListInv /\ (AppendOnly => AppendInv /\ ScanInv)
<1>1. Init => Inv
  <2> SUFFICES ASSUME Init PROVE ScanInv
    BY InitList, InitAppend
  <2> QED BY DEF Init, ScanInv, ScanCall
<1>2. Inv /\ [Next]_vars => Inv'
  <2> SUFFICES ASSUME Inv, [Next]_vars PROVE Inv'
    OBVIOUS
  <2>1. ListInv'
    BY NextKeepsList
  <2>2. AppendOnly' => AppendOnly
    BY DEF Next, vars, AppendOnly
  <2>3. ASSUME AppendOnly PROVE AppendInv' /\ ScanInv'
    BY <2>3, AppendNext, ScanRequest, ScanStep DEF vars, ScanInv, Next
  <2> QED BY <2>1, <2>2, <2>3
<1>3. Inv => ScanIsExact
  BY DEF ScanInv, ScanCall, ScanIsExact, Collected, CollectedIn
<1> HIDE DEF Inv
<1> QED BY <1>1, <1>2, <1>3, PTL DEF Spec
-----------------------------------------------------------------------------
(* With one writer for each uuid the steps of an update and of a delete    *)
(* meet only themselves.                                                   *)

\* What a writer at step p knows of the document it is about to change.
WriterCall(p, r) ==
    /\ p = "copy" /\ r.op \in Writers => r.leaf \in ToSet(list) /\ leaf[r.leaf].key = r.id
    /\ p = "unlink" =>
           \E l \in ToSet(list) : /\ leaf[l].key = r.id
                                  /\ r.op \in Updates => r.doc = Merge(leaf[l].doc, r.tag)
    /\ p \in {"check", "append"} =>
           /\ \A l \in ToSet(list) : leaf[l].key # r.id
           /\ r.doc.id = r.id /\ acked[r.id] \subseteq r.doc.fields
           /\ r.op \in Updates => r.tag \subseteq r.doc.fields
           /\ r.op \notin Updates => r.doc = NewDoc(r.id)

WriterInv ==
    /\ \A l, m \in ToSet(list) : leaf[l].key = leaf[m].key => l = m
    /\ \A l \in ToSet(list) : leaf[l].doc.id = leaf[l].key /\ acked[leaf[l].key] \subseteq leaf[l].doc.fields
    /\ \A id \in Ids \ issued : acked[id] = {}
    /\ \A c \in Clients : WriterCall(pc[c], call[c])

SoleWriters == ListInv /\ OneWriterEach /\ WriterInv

\* The document a uuid stands for, by where it is.
LEMMA DocumentStored ==
    SoleWriters => \A id, l : l \in ToSet(list) /\ leaf[l].key = id => DocumentOf(id) = leaf[l].doc
<1> SUFFICES ASSUME SoleWriters, NEW id, NEW l \in ToSet(list), leaf[l].key = id
             PROVE  DocumentOf(id) = leaf[l].doc
  OBVIOUS
<1>1. Stored(id)
  BY StoredIff
<1>2. art_search_in_list(id) \in ToSet(list) /\ leaf[art_search_in_list(id)].key = id
  BY <1>1, SearchFinds DEF SoleWriters
<1>3. art_search_in_list(id) = l
  BY <1>2 DEF SoleWriters, WriterInv
<1> QED BY <1>1, <1>3 DEF DocumentOf

LEMMA DocumentPending ==
    SoleWriters => \A c \in Clients, id \in Ids : Replacing(c, id) => DocumentOf(id) = call[c].doc
<1> SUFFICES ASSUME SoleWriters, NEW c \in Clients, NEW id \in Ids, Replacing(c, id)
             PROVE  DocumentOf(id) = call[c].doc
  OBVIOUS
<1>1. ~ Stored(id)
  BY StoredIff DEF SoleWriters, WriterInv, WriterCall, Replacing
<1>2. ASSUME NEW d \in Clients, Replacing(d, id) PROVE d = c
  BY <1>2, ClientFacts DEF SoleWriters, Replacing, CallShape, Writers, Inserts, OneWriterEach
<1>3. (CHOOSE d \in Clients : Replacing(d, id)) = c
  BY <1>2
<1> QED BY <1>1, <1>3 DEF DocumentOf

LEMMA DocumentNone ==
    \A id : (\A l \in ToSet(list) : leaf[l].key # id) /\ (\A c \in Clients : ~ Replacing(c, id))
            => DocumentOf(id) = NoDoc
BY StoredIff DEF DocumentOf

LEMMA DocumentStoredNext ==
    (SoleWriters => \A id, l : l \in ToSet(list) /\ leaf[l].key = id => DocumentOf(id) = leaf[l].doc)'
BY DocumentStored, PTL

LEMMA DocumentPendingNext ==
    (SoleWriters => \A c \in Clients, id \in Ids : Replacing(c, id) => DocumentOf(id) = call[c].doc)'
BY DocumentPending, PTL

LEMMA DocumentNoneNext ==
    (\A id : (\A l \in ToSet(list) : leaf[l].key # id) /\ (\A c \in Clients : ~ Replacing(c, id))
             => DocumentOf(id) = NoDoc)'
BY DocumentNone, PTL
\* A step leaves alone the document stored under a uuid.
SameAt(id) ==
    /\ acked'[id] = acked[id]
    /\ \A l : l \in ToSet(list) /\ leaf[l].key = id <=> l \in ToSet(list') /\ leaf'[l].key = id
    /\ \A l \in ToSet(list) : leaf[l].key = id => leaf'[l] = leaf[l]

\* A writing client is at work on the uuid of its call.
Writing(c) == pc[c] # "idle" /\ call[c].op \in Writers

LEMMA OneWriterOf ==
    ASSUME ListInv, OneWriterEach, NEW c \in Clients, NEW d \in Clients, Writing(c), Writing(d),
           call[c].id = call[d].id
    PROVE  c = d
BY ClientFacts DEF CallShape, Writing, OneWriterEach

\* What client c changes at its own uuid does not concern the other clients.
LEMMA OthersUndisturbed ==
    ASSUME SoleWriters, NEW c \in Clients, NEW d \in Clients \ {c},
           pc'[d] = pc[d] /\ call'[d] = call[d],
           \A id : SameAt(id) \/ (Writing(c) /\ id = call[c].id)
    PROVE  WriterCall(pc[d], call[d])'
<1>1. WriterCall(pc[d], call[d]) /\ CallShape(d, pc[d], call[d])
  BY ClientFacts DEF SoleWriters, WriterInv
<1>2. CASE Writing(d)
  <2>1. SameAt(call[d].id)
    BY <1>2, OneWriterOf DEF SoleWriters
  <2> QED BY <1>1, <2>1 DEF WriterCall, SameAt
<1>3. CASE ~ Writing(d)
  BY <1>1, <1>3 DEF CallShape, Writing, Writers, Inserts, WriterCall
<1> QED BY <1>2, <1>3

\* What a step of client c has to show that changes no list, leaf or acknowledgement.
LEMMA WriterLocal ==
    ASSUME SoleWriters, ListInv', NEW c \in Clients, NEW p, NEW r, GoOn(c, p, r),
           UNCHANGED <<list, leaf, acked, use>>, issued \subseteq issued', WriterCall(p, r)
    PROVE  SoleWriters'
  BY Moved, OthersUndisturbed DEF SoleWriters, SameAt, WriterCall, WriterInv, OneWriterEach

\* Calls that write nothing, and those that have ended.
LEMMA NotWriting ==
    /\ WriterCall("idle", NoCall)
    /\ \A p, r : p \in {"scan", "parse", "put"} => WriterCall(p, r)
    /\ \A r : r.op \notin Writers => WriterCall("copy", r)
BY DEF WriterCall

LEMMA WriterRequest ==
    ASSUME SoleWriters, ListInv', NEW c \in Clients, Request(c), UNCHANGED use
    PROVE  SoleWriters'
<1>0. ListInv
  BY DEF SoleWriters
<1>1. ASSUME NEW op \in Gets \cup Updates \cup Deletes, NEW id \in Ids, NEW kind \in Kinds, NEW tag \in SUBSET Tags,
             Searches(c, op, id, kind, tag)
      PROVE  SoleWriters'
  <2> DEFINE r0 == CallOf(op, id, kind, tag)
             r  == [r0 EXCEPT !.leaf = art_search_in_list(r0.id)]
  <2>1. op \in Ops
    BY DEF Ops, Writers, Inserts
  <2>2. r0 \in Calls /\ r0.id = id
    BY <2>1, CallOfType
  <2> HIDE DEF r0
  <2>3. /\ r0.id = id /\ art_search_in_list(id) # NoLeaf /\ GoOn(c, "copy", r)
        /\ UNCHANGED <<list, leaf, acked, issued>>
    BY <1>1, <2>2 DEF Searches, Search, r0
  <2>4. /\ art_search_in_list(id) \in ToSet(list) /\ leaf[art_search_in_list(id)].key = id
    BY <2>3, <1>0, SearchFinds DEF art_search_in_list
  <2>5. r.leaf = art_search_in_list(id) /\ r.id = id
    BY <2>2 DEF Calls
  <2> HIDE DEF r
  <2>6. WriterCall("copy", r)
    BY <2>4, <2>5 DEF WriterCall
  <2> QED BY <2>3, <2>6, WriterLocal
<1>2. ASSUME NEW op \in Scans, NEW id \in Ids \cup {AnyId}, NEW kind \in Kinds, StartsScan(c, op, id, kind)
      PROVE  SoleWriters'
  BY <1>2, NotWriting, WriterLocal DEF StartsScan, StartScan
<1>3. ASSUME NEW id \in Ids, NEW kind \in Kinds, NEW result \in Seq(Docs), UsesCached(c, id, kind, result)
      PROVE  SoleWriters'
  BY <1>3, NotWriting, WriterLocal DEF UsesCached
<1>4. ASSUME NEW id \in Ids, storage_insert_document(c, id)
      PROVE  SoleWriters'
  <2> DEFINE r0 == CallOf("storage_insert_document", id, KindOf[id], {})
             r  == [r0 EXCEPT !.doc = NewDoc(id)]
  <2>1. "storage_insert_document" \in Ops /\ KindOf[id] \in Kinds
    BY StoreAssumption DEF Ops, Writers, Inserts
  <2>2. r0 \in Calls /\ r0.id = id /\ r0.op = "storage_insert_document"
    BY <2>1, CallOfType
  <2>3. GoOn(c, "check", r) /\ UNCHANGED <<list, leaf, acked>> /\ id \notin issued /\ issued \subseteq issued'
    BY <1>4 DEF storage_insert_document
  <2> HIDE DEF r0
  <2>4. r.doc = NewDoc(id) /\ r.id = id /\ r.op = "storage_insert_document"
    BY <2>2 DEF Calls
  <2> HIDE DEF r
  <2>5. \A l \in ToSet(list) : leaf[l].key # id
    BY <1>0, <2>3, SearchFinds, StoredIff
  <2>6. acked[id] = {} /\ NewDoc(id).id = id
    BY <2>3, DocTypes DEF SoleWriters, WriterInv
  <2>7. "storage_insert_document" \notin Updates
    BY DEF Updates
  <2>8. WriterCall("check", r)
    BY <2>4, <2>5, <2>6, <2>7 DEF WriterCall
  <2> QED BY <2>3, <2>8, WriterLocal
<1> QED BY <1>0, <1>1, <1>2, <1>3, <1>4, RequestCases
\* The leaf that skiplist_delete frees is the one its search found.
LEMMA DeleteOfOneWriter ==
    ASSUME SoleWriters, NEW c \in Clients, skiplist_delete(c)
    PROVE  \E x \in ToSet(list) :
              /\ leaf[x].key = call[c].id
              /\ call[c].op \in Updates => call[c].doc = Merge(leaf[x].doc, call[c].tag)
              /\ ToSet(list') = ToSet(list) \ {x}
              /\ \A l \in ToSet(list') : leaf'[l] = leaf[l]
              /\ \A id : id = call[c].id \/ SameAt(id)
<1> DEFINE r == call[c]
           i == FirstIndex(r.id)
           x == list[i]
<1>1. pc[c] = "unlink" /\ ListInv /\ WriterCall("unlink", r) /\ acked' = acked
  BY DEF skiplist_delete, SoleWriters, WriterInv
<1>2. PICK y \in ToSet(list) : leaf[y].key = r.id /\ (r.op \in Updates => r.doc = Merge(leaf[y].doc, r.tag))
  BY <1>1 DEF WriterCall
<1>3. Stored(r.id)
  BY <1>2, StoredIff
<1>4. /\ i \in DOMAIN list /\ x \in ToSet(list) /\ leaf[x].key = r.id
  BY <1>1, <1>3, SearchFinds
<1>5. x = y
  BY <1>2, <1>4 DEF SoleWriters, WriterInv
<1>6. list' = RemoveAt(list, i) /\ leaf' = [leaf EXCEPT ![x] = Residue(x)]
  BY <1>3 DEF skiplist_delete, IndexToRemove
<1> HIDE DEF i
<1>7. ToSet(list') = ToSet(list) \ {x}
  BY <1>1, <1>4, <1>6, ClientFacts, RemoveAtToSet
<1> HIDE DEF x
<1>8. \A l \in ToSet(list') : leaf'[l] = leaf[l]
  BY <1>1, ClientFacts, <1>6, <1>7
<1>9. ASSUME NEW id, id # r.id PROVE SameAt(id)
  BY <1>1, <1>4, <1>7, <1>8, <1>9 DEF SameAt
<1> QED BY <1>2, <1>4, <1>5, <1>7, <1>8, <1>9

\* AppendLeaf links the document of its call.
LEMMA AppendOfOneWriter ==
    ASSUME SoleWriters, NEW c \in Clients, AppendLeaf(c)
    PROVE  /\ call[c].leaf \notin ToSet(list)
           /\ ToSet(list') = ToSet(list) \cup {call[c].leaf}
           /\ leaf' = leaf
           /\ leaf[call[c].leaf] = [key |-> call[c].id, doc |-> call[c].doc]
           /\ \A id : id = call[c].id \/ SameAt(id)
           /\ acked'[call[c].id] \subseteq call[c].doc.fields
<1> DEFINE r == call[c]
           x == r.leaf
<1>1. /\ pc[c] = "append" /\ ListInv /\ WriterCall("append", r) /\ leaf' = leaf /\ list' = Append(list, x)
      /\ Acknowledge(c)
  BY DEF AppendLeaf, art_add_to_list, SoleWriters, WriterInv
<1>2. r.id \in Ids /\ x \in Leaves /\ x \notin ToSet(list)
  BY <1>1, ClientFacts DEF CallShape
<1>3. leaf[x] = [key |-> r.id, doc |-> r.doc]
  BY <1>1 DEF ListInv, Ownership
<1> HIDE DEF x
<1>4. ToSet(list') = ToSet(list) \cup {x}
  BY <1>1, <1>2, ClientFacts, AppendToSet
<1>5. acked' = [acked EXCEPT ![r.id] = IF r.op \in Updates THEN @ \cup r.tag ELSE @]
  BY <1>1 DEF Acknowledge
<1>6. acked \in [Ids -> SUBSET Tags]
  BY <1>1, ClientFacts
<1>7. acked'[r.id] \subseteq r.doc.fields
  BY <1>1, <1>2, <1>5, <1>6 DEF WriterCall
<1>8. ASSUME NEW id, id # r.id PROVE SameAt(id)
  BY <1>5, <1>6, <1>8, <1>1, <1>3, <1>4 DEF SameAt
<1> QED BY <1>1, <1>2, <1>3, <1>4, <1>7, <1>8 DEF x

LEMMA WriterStep ==
    ASSUME SoleWriters, ListInv', NEW c \in Clients, Step(c), UNCHANGED use
    PROVE  SoleWriters'
<1> DEFINE r == call[c]
<1>1. /\ ListInv /\ r \in Calls /\ CallShape(c, pc[c], r) /\ WriterCall(pc[c], r)
      /\ ToSet(list) \subseteq alive /\ alive \subseteq Leaves
      /\ OneWriterEach'
  BY ClientFacts DEF SoleWriters, WriterInv, OneWriterEach
<1>2. CASE ReadLeaf(c)
  <2>1. pc[c] = "copy" /\ UNCHANGED <<list, leaf, acked, issued>>
    BY <1>2 DEF ReadLeaf
  <2>2. PICK doc \in TextAt(r.leaf) :
           \/ Return(c)
           \/ GoOn(c, "put", [r EXCEPT !.leaf = NoLeaf, !.doc = doc])
           \/ /\ r.op \in Deletes
              /\ GoOn(c, "unlink", [r EXCEPT !.leaf = NoLeaf])
           \/ /\ r.op \in Updates
              /\ GoOn(c, "unlink", [r EXCEPT !.leaf = NoLeaf, !.doc = Merge(doc, r.tag)])
    BY <1>2 DEF ReadLeaf, Updates, Deletes
  <2>3. r.op \in Writers => r.leaf \in ToSet(list) /\ leaf[r.leaf].key = r.id /\ doc = leaf[r.leaf].doc
    BY <1>1, <2>1, <2>2 DEF WriterCall, TextAt
  <2>4. CASE Return(c)
    BY <2>1, <2>4, NotWriting, ReturnMoves, WriterLocal
  <2>5. CASE GoOn(c, "put", [r EXCEPT !.leaf = NoLeaf, !.doc = doc])
    BY <2>1, <2>5, NotWriting, WriterLocal
  <2>6. CASE r.op \in Deletes /\ GoOn(c, "unlink", [r EXCEPT !.leaf = NoLeaf])
    <3> DEFINE q == [r EXCEPT !.leaf = NoLeaf]
    <3>1. q.op = r.op /\ q.id = r.id
      BY <1>1 DEF Calls
    <3>2. r.op \in Writers /\ r.op \notin Updates
      BY <2>6 DEF Writers, Deletes, Updates
    <3> HIDE DEF q
    <3>3. WriterCall("unlink", q)
      BY <2>3, <3>1, <3>2 DEF WriterCall
    <3> QED BY <2>1, <2>6, <3>3, WriterLocal DEF q
  <2>7. CASE r.op \in Updates /\ GoOn(c, "unlink", [r EXCEPT !.leaf = NoLeaf, !.doc = Merge(doc, r.tag)])
    <3> DEFINE m == Merge(doc, r.tag)
               q == [r EXCEPT !.leaf = NoLeaf, !.doc = m]
    <3> HIDE DEF m
    <3>1. q.op = r.op /\ q.id = r.id /\ q.tag = r.tag /\ q.doc = m
      BY <1>1 DEF Calls
    <3>2. r.op \in Writers
      BY <2>7 DEF Writers, Inserts
    <3>3. GoOn(c, "unlink", q)
      BY <2>7 DEF m
    <3> HIDE DEF q
    <3>4. WriterCall("unlink", q)
      BY <2>3, <3>1, <3>2 DEF WriterCall, m
    <3> QED BY <2>1, <3>3, <3>4, WriterLocal
  <2> QED BY <2>2, <2>4, <2>5, <2>6, <2>7
<1>3. CASE skiplist_delete(c)
  <2>1. pc[c] = "unlink" /\ UNCHANGED <<issued, acked>> /\ Writing(c) /\ r.id \in Ids
    BY <1>1, <1>3 DEF skiplist_delete, CallShape, Writing, Writers, Inserts
  <2>2. PICK x \in ToSet(list) :
              /\ leaf[x].key = r.id
              /\ r.op \in Updates => r.doc = Merge(leaf[x].doc, r.tag)
              /\ ToSet(list') = ToSet(list) \ {x}
              /\ \A l \in ToSet(list') : leaf'[l] = leaf[l]
              /\ \A id : id = r.id \/ SameAt(id)
    BY <1>3, DeleteOfOneWriter
  <2>3. \A l \in ToSet(list') : leaf'[l].key # r.id
    BY <2>2 DEF SoleWriters, WriterInv
  <2>4. (r.op \in Deletes /\ GoOn(c, "idle", NoCall)) \/ (r.op \in Updates /\ GoOn(c, "check", r))
    BY <1>1, <1>3, <2>1, ReturnMoves DEF skiplist_delete, CallShape
  <2>5. \A d \in Clients \ {c} : pc'[d] = pc[d] /\ call'[d] = call[d]
    BY <1>1, <2>4, Moved
  <2>6. WriterCall(pc[c], call[c])'
    <3>1. CASE GoOn(c, "idle", NoCall)
      BY <1>1, <3>1, Moved DEF WriterCall
    <3>2. CASE r.op \in Updates /\ GoOn(c, "check", r)
      <4>1. pc'[c] = "check" /\ call'[c] = r
        BY <1>1, <3>2, Moved
      <4>2. leaf[x].doc \in Docs /\ leaf[x].doc.id = r.id /\ acked[r.id] \subseteq leaf[x].doc.fields
        BY <1>1, <2>2 DEF SoleWriters, WriterInv, ListInv, TypeInv
      <4>3. r.tag \in SUBSET Tags
        BY <1>1 DEF Calls
      <4>4. r.doc.id = r.id /\ r.doc.fields = leaf[x].doc.fields \cup r.tag
        BY <2>2, <3>2, <4>2, <4>3, DocTypes
      <4> QED BY <2>1, <2>3, <3>2, <4>1, <4>2, <4>4 DEF WriterCall
    <3> QED BY <2>4, <3>1, <3>2
  <2>7. \A d \in Clients \ {c} : WriterCall(pc[d], call[d])'
    <3> SUFFICES ASSUME NEW d \in Clients \ {c} PROVE WriterCall(pc[d], call[d])'
      OBVIOUS
    <3>1. \A id : SameAt(id) \/ (Writing(c) /\ id = call[c].id)
      BY <2>1, <2>2
    <3> QED BY <2>5, <3>1, OthersUndisturbed
  <2>8. WriterInv'
    BY <2>1, <2>2, <2>6, <2>7 DEF SoleWriters, WriterInv
  <2> QED BY <1>1, <2>8 DEF SoleWriters
<1>4. CASE skiplist_insert(c)
  <2>1. pc[c] = "check" /\ UNCHANGED <<list, issued>>
    BY <1>4 DEF skiplist_insert
  <2>2. ~ Stored(r.id)
    BY <1>1, <2>1, StoredIff DEF WriterCall
  <2>3. PICK l \in Leaves \ alive :
               /\ leaf' = [leaf EXCEPT ![l] = [key |-> r.id, doc |-> r.doc]]
               /\ GoOn(c, "append", [r EXCEPT !.leaf = l])
               /\ UNCHANGED acked
    BY <1>4, <2>2 DEF skiplist_insert
  <2> DEFINE q == [r EXCEPT !.leaf = l]
  <2>4. q.op = r.op /\ q.id = r.id /\ q.doc = r.doc /\ q.tag = r.tag
    BY <1>1 DEF Calls
  <2>5. GoOn(c, "append", q)
    BY <2>3
  <2> HIDE DEF q
  <2>6. \A x \in ToSet(list) : leaf'[x] = leaf[x]
    BY <1>1, <2>3, ClientFacts
  <2>7. \A id : SameAt(id)
    BY <2>1, <2>3, <2>6 DEF SameAt
  <2>8. /\ pc'[c] = "append" /\ call'[c] = q
        /\ \A d \in Clients \ {c} : pc'[d] = pc[d] /\ call'[d] = call[d]
    BY <1>1, <2>5, Moved
  <2>9. WriterCall(pc[c], call[c])'
    BY <1>1, <2>1, <2>3, <2>4, <2>6, <2>8 DEF WriterCall
  <2>10. \A d \in Clients \ {c} : WriterCall(pc[d], call[d])'
    <3> SUFFICES ASSUME NEW d \in Clients \ {c} PROVE WriterCall(pc[d], call[d])'
      OBVIOUS
    <3>1. \A id : SameAt(id) \/ (Writing(c) /\ id = call[c].id)
      BY <2>7
    <3> QED BY <2>8, <3>1, OthersUndisturbed
  <2>11. WriterInv'
    BY <2>1, <2>3, <2>6, <2>9, <2>10 DEF SoleWriters, WriterInv
  <2> QED BY <1>1, <2>11 DEF SoleWriters
<1>5. CASE AppendLeaf(c)
  <2> DEFINE x == r.leaf
  <2>1. pc[c] = "append" /\ issued' = issued /\ Writing(c) /\ r.id \in Ids /\ r.id \in issued /\ GoOn(c, "idle", NoCall)
    BY <1>1, <1>5, ReturnMoves DEF AppendLeaf, CallShape, Writing, Writers
  <2>2. /\ ToSet(list') = ToSet(list) \cup {x}
        /\ leaf' = leaf
        /\ leaf[x] = [key |-> r.id, doc |-> r.doc]
        /\ \A id : id = r.id \/ SameAt(id)
        /\ acked'[r.id] \subseteq r.doc.fields
    BY <1>5, AppendOfOneWriter
  <2> HIDE DEF x
  <2>3. r.doc.id = r.id /\ \A l \in ToSet(list) : leaf[l].key # r.id
    BY <1>1, <2>1 DEF WriterCall
  <2>4. \A d \in Clients \ {c} : pc'[d] = pc[d] /\ call'[d] = call[d]
    BY <1>1, <2>1, Moved
  <2>5. \A d \in Clients \ {c} : WriterCall(pc[d], call[d])'
    <3> SUFFICES ASSUME NEW d \in Clients \ {c} PROVE WriterCall(pc[d], call[d])'
      OBVIOUS
    <3>1. \A id : SameAt(id) \/ (Writing(c) /\ id = call[c].id)
      BY <2>1, <2>2
    <3> QED BY <2>4, <3>1, OthersUndisturbed
  <2>6. WriterCall(pc[c], call[c])'
    BY <1>1, <2>1, Moved DEF WriterCall
  <2>7. \A id : id # r.id => acked'[id] = acked[id]
    BY <2>2 DEF SameAt
  <2>8. \A l, m \in ToSet(list') : leaf'[l].key = leaf'[m].key => l = m
    BY <2>2, <2>3 DEF SoleWriters, WriterInv
  <2>9. \A l \in ToSet(list') : leaf'[l].doc.id = leaf'[l].key /\ acked'[leaf'[l].key] \subseteq leaf'[l].doc.fields
    BY <2>2, <2>3, <2>7 DEF SoleWriters, WriterInv
  <2>10. \A id \in Ids \ issued' : acked'[id] = {}
    BY <2>1, <2>7 DEF SoleWriters, WriterInv
  <2>11. WriterInv'
    BY <2>5, <2>6, <2>8, <2>9, <2>10 DEF WriterInv
  <2> QED BY <1>1, <2>11 DEF SoleWriters
<1>6. CASE InsertFails(c)
  BY <1>6 DEF InsertFails, SoleWriters, OneWriterEach
<1>7. CASE skiplist_iterator_next(c)
  BY <1>7, NotWriting, WriterLocal DEF skiplist_iterator_next
<1>8. CASE ParseDocument(c)
  <2>1. PICK q : GoOn(c, "scan", q)
    BY <1>8 DEF ParseDocument
  <2>2. UNCHANGED <<list, leaf, acked, issued>>
    BY <1>8 DEF ParseDocument
  <2> QED BY <2>1, <2>2, NotWriting, WriterLocal
<1>9. CASE EndScan(c)
  BY <1>9, NotWriting, ReturnMoves, WriterLocal DEF EndScan
<1>10. CASE PutDocument(c)
  BY <1>10, NotWriting, ReturnMoves, WriterLocal DEF PutDocument
<1> QED BY <1>2, <1>3, <1>4, <1>5, <1>6, <1>7, <1>8, <1>9, <1>10 DEF Step
LEMMA InitWriter == Init => WriterInv
<1> SUFFICES ASSUME Init PROVE WriterInv
  OBVIOUS
<1>1. /\ pc = [c \in Clients |-> "idle"] /\ call = [c \in Clients |-> NoCall]
      /\ acked = [id \in Ids |-> {}]
  BY DEF Init
<1>2. \A l \in ToSet(list) : \E i \in DOMAIN InitialIds :
          l = list[i] /\ leaf[l] = [key |-> InitialIds[i], doc |-> NewDoc(InitialIds[i])] /\ InitialIds[i] \in Ids
  BY InitLeaves DEF ToSet
<1>3. ASSUME NEW l \in ToSet(list), NEW m \in ToSet(list), leaf[l].key = leaf[m].key
      PROVE  l = m
  <2>1. PICK i \in DOMAIN InitialIds : l = list[i] /\ leaf[l] = [key |-> InitialIds[i], doc |-> NewDoc(InitialIds[i])]
    BY <1>2
  <2>2. PICK j \in DOMAIN InitialIds : m = list[j] /\ leaf[m] = [key |-> InitialIds[j], doc |-> NewDoc(InitialIds[j])]
    BY <1>2
  <2>3. InitialIds[i] = InitialIds[j]
    BY <1>3, <2>1, <2>2
  <2>4. i = j
    BY <2>3, StoreAssumption DEF IsInjective
  <2> QED BY <2>1, <2>2, <2>4
<1>4. \A l \in ToSet(list) : leaf[l].doc.id = leaf[l].key /\ acked[leaf[l].key] \subseteq leaf[l].doc.fields
  <2> SUFFICES ASSUME NEW l \in ToSet(list)
               PROVE  leaf[l].doc.id = leaf[l].key /\ acked[leaf[l].key] \subseteq leaf[l].doc.fields
    OBVIOUS
  <2>1. PICK id \in Ids : leaf[l] = [key |-> id, doc |-> NewDoc(id)]
    BY <1>2
  <2> QED BY <1>1, <2>1, DocTypes
<1> QED BY <1>1, <1>3, <1>4, NotWriting DEF WriterInv

LEMMA OneWriterNext ==
    ListInv /\ (OneWriterEach => WriterInv) /\ [Next]_vars => ListInv' /\ (OneWriterEach => WriterInv)'
<1> SUFFICES ASSUME ListInv, OneWriterEach => WriterInv, [Next]_vars
             PROVE  ListInv' /\ (OneWriterEach => WriterInv)'
  OBVIOUS
<1>1. ListInv'
  BY NextKeepsList
<1>2. OneWriterEach' => OneWriterEach
  BY DEF Next, vars, OneWriterEach
<1>3. ASSUME OneWriterEach PROVE WriterInv'
  BY <1>3, <1>1, WriterRequest, WriterStep DEF SoleWriters, vars, WriterInv, WriterCall, Next
<1> QED BY <1>1, <1>2, <1>3

\* With one writer for each uuid no acknowledged update is lost, though an update takes
\* the document out of the list before it puts the new one in, and the document that a
\* delete or an update found is still there when skiplist_delete comes for it.
THEOREM OneWriterIsSound == Spec => []OneWriterSound
<1> DEFINE Inv == ListInv /\ (OneWriterEach => WriterInv)
<1>1. Init => Inv
  BY InitList, InitWriter
<1>2. Inv /\ [Next]_vars => Inv'
  BY OneWriterNext
<1>3. Inv => OneWriterSound
  <2> SUFFICES ASSUME Inv, OneWriterEach
               PROVE  UpdatesKept /\ \A c \in Clients : pc[c] = "unlink" => Stored(call[c].id)
    BY DEF OneWriterSound, AcknowledgedUpdatesKept, FoundDocumentIsDeleted
  <2>1. SoleWriters
    BY DEF SoleWriters
  <2>2. ASSUME NEW id \in Ids, DocumentOf(id) # NoDoc
        PROVE  acked[id] \subseteq DocumentOf(id).fields
    BY <2>1, DocumentStored, DocumentPending, <2>2, DocumentNone DEF SoleWriters, WriterInv, WriterCall, Replacing
  <2>3. \A c \in Clients : pc[c] = "unlink" => Stored(call[c].id)
    BY <2>1, StoredIff DEF SoleWriters, WriterInv, WriterCall
  <2> QED BY <2>2, <2>3 DEF UpdatesKept
<1> HIDE DEF Inv
<1> QED BY <1>1, <1>2, <1>3, PTL DEF Spec

-----------------------------------------------------------------------------
(* The refinement: skiplist_delete is the abstract delete or update, the   *)
(* AppendLeaf of an insert is the abstract insert, all else is invisible.  *)

\* A uuid whose leaf and whose pending update stay as they are keeps its document.
LEMMA DocumentKept ==
    ASSUME SoleWriters, SoleWriters', NEW id \in Ids, SameAt(id),
           \A d \in Clients : Replacing(d, id)' <=> Replacing(d, id),
           \A d \in Clients : Replacing(d, id) => call'[d].doc = call[d].doc
    PROVE  DocumentOf(id)' = DocumentOf(id)
<1>1. CASE \E l \in ToSet(list) : leaf[l].key = id
  <2>1. PICK l \in ToSet(list) : leaf[l].key = id
    BY <1>1
  <2>2. l \in ToSet(list') /\ leaf'[l] = leaf[l]
    BY <2>1 DEF SameAt
  <2> QED BY <2>1, <2>2, DocumentStored, DocumentStoredNext
<1>2. CASE \E c \in Clients : Replacing(c, id)
  BY <1>2, DocumentPending, DocumentPendingNext
<1>3. CASE (\A l \in ToSet(list) : leaf[l].key # id) /\ (\A c \in Clients : ~ Replacing(c, id))
  BY <1>3, DocumentNone, DocumentNoneNext DEF SameAt
<1> QED BY <1>1, <1>2, <1>3

\* A step that leaves list, leaves and acknowledgements alone, by a client that neither
\* was nor gets between skiplist_delete and the end of skiplist_insert.
LEMMA LocalKeepsDocuments ==
    ASSUME SoleWriters, SoleWriters', NEW c \in Clients, UNCHANGED <<list, leaf, acked>>,
           \A d \in Clients \ {c} : pc'[d] = pc[d] /\ call'[d] = call[d],
           \A id : ~ Replacing(c, id) /\ ~ Replacing(c, id)'
    PROVE  \A id \in Ids : DocumentOf(id)' = DocumentOf(id)
<1> SUFFICES ASSUME NEW id \in Ids PROVE DocumentOf(id)' = DocumentOf(id)
  OBVIOUS
<1>1. SameAt(id)
  BY DEF SameAt
<1>2. ASSUME NEW d \in Clients
      PROVE  (Replacing(d, id)' <=> Replacing(d, id)) /\ (Replacing(d, id) => call'[d].doc = call[d].doc)
  BY DEF Replacing
<1> QED BY <1>1, <1>2, DocumentKept
\* skiplist_delete of the only writer: the document goes, or the updated one takes its place.
LEMMA DeleteChanges ==
    ASSUME SoleWriters, SoleWriters', NEW c \in Clients, NEW id, id = call[c].id, skiplist_delete(c)
    PROVE  /\ id \in Ids
           /\ \A other \in Ids \ {id} : DocumentOf(other)' = DocumentOf(other)
           /\ DocumentOf(id) \in Docs
           /\ \/ DocumentOf(id)' = NoDoc
              \/ \E t \in Tags : DocumentOf(id)' = Merge(DocumentOf(id), {t})
<1> DEFINE r == call[c]
<1>1. /\ ListInv /\ pc[c] = "unlink" /\ r \in Calls /\ CallShape(c, "unlink", r) /\ id \in Ids /\ r.id = id
      /\ Writing(c)
  BY ClientFacts DEF SoleWriters, skiplist_delete, CallShape, Writing, Writers, Inserts
<1>2. PICK x \in ToSet(list) :
              /\ leaf[x].key = id
              /\ r.op \in Updates => r.doc = Merge(leaf[x].doc, r.tag)
              /\ ToSet(list') = ToSet(list) \ {x}
              /\ \A l \in ToSet(list') : leaf'[l] = leaf[l]
              /\ \A y : y = id \/ SameAt(y)
  BY DeleteOfOneWriter
<1>3. \A l \in ToSet(list') : leaf'[l].key # id
  BY <1>2 DEF SoleWriters, WriterInv
<1>4. (r.op \in Deletes /\ GoOn(c, "idle", NoCall)) \/ (r.op \in Updates /\ GoOn(c, "check", r))
  BY <1>1, ReturnMoves DEF skiplist_delete, CallShape
<1>5. /\ \A d \in Clients \ {c} : pc'[d] = pc[d] /\ call'[d] = call[d]
      /\ \/ r.op \in Deletes /\ pc'[c] = "idle"
         \/ r.op \in Updates /\ pc'[c] = "check" /\ call'[c] = r
  BY <1>1, <1>4, Moved
<1>6. DocumentOf(id) = leaf[x].doc /\ leaf[x].doc \in Docs
  BY <1>1, <1>2, ClientFacts, DocumentStored DEF ListInv, TypeInv
<1>7. ASSUME NEW y \in Ids \ {id} PROVE DocumentOf(y)' = DocumentOf(y)
  BY <1>1, <1>5, <1>2, DocumentKept DEF Replacing
<1>8. CASE r.op \in Deletes /\ pc'[c] = "idle"
  BY <1>8, <1>1, OneWriterOf, <1>5, <1>3, DocumentNoneNext, <1>6, <1>7 DEF Replacing, SoleWriters, Writing, Writers,
     Inserts
<1>9. CASE r.op \in Updates /\ pc'[c] = "check" /\ call'[c] = r
  <2>1. Replacing(c, id)'
    BY <1>9 DEF Replacing
  <2>2. DocumentOf(id)' = r.doc
    BY <1>1, <1>9, <2>1, DocumentPendingNext
  <2>3. PICK t \in Tags : r.tag = {t}
    BY <1>1, <1>9 DEF CallShape
  <2>4. DocumentOf(id)' = Merge(DocumentOf(id), {t})
    BY <1>2, <1>6, <1>9, <2>2, <2>3
  <2> QED BY <1>1, <1>6, <1>7, <2>4
<1> QED BY <1>5, <1>8, <1>9

\* AppendLeaf of the only writer: an inserted document appears; an updated one was there.
LEMMA AppendChanges ==
    ASSUME SoleWriters, SoleWriters', NEW c \in Clients, NEW id, id = call[c].id, AppendLeaf(c)
    PROVE  /\ id \in Ids
           /\ \A other \in Ids \ {id} : DocumentOf(other)' = DocumentOf(other)
           /\ \/ DocumentOf(id)' = DocumentOf(id)
              \/ DocumentOf(id) = NoDoc /\ DocumentOf(id)' = NewDoc(id)
<1> DEFINE r == call[c]
           x == r.leaf
<1>1. /\ ListInv /\ pc[c] = "append" /\ r \in Calls /\ WriterCall("append", r) /\ id \in Ids /\ r.id = id
      /\ Writing(c) /\ GoOn(c, "idle", NoCall)
  BY ClientFacts, ReturnMoves DEF SoleWriters, WriterInv, AppendLeaf, CallShape, Writing, Writers
<1>2. /\ ToSet(list') = ToSet(list) \cup {x}
      /\ leaf' = leaf
      /\ leaf[x] = [key |-> id, doc |-> r.doc]
      /\ \A y : y = id \/ SameAt(y)
  BY AppendOfOneWriter
<1>3. pc'[c] = "idle" /\ \A d \in Clients \ {c} : pc'[d] = pc[d] /\ call'[d] = call[d]
  BY <1>1, Moved
<1>4. DocumentOf(id)' = r.doc
  <2> HIDE DEF x
  <2>1. x \in ToSet(list') /\ leaf'[x].key = id /\ leaf'[x].doc = r.doc
    BY <1>2
  <2> QED BY <2>1, DocumentStoredNext
<1>5. ASSUME NEW y \in Ids \ {id} PROVE DocumentOf(y)' = DocumentOf(y)
  BY <1>1, <1>3, <1>2, DocumentKept DEF Replacing
<1>6. CASE r.op \in Updates
  BY <1>1, <1>6, DocumentPending, <1>4, <1>5 DEF Replacing
<1>7. CASE r.op \notin Updates
  BY <1>7, <1>1, OneWriterOf, DocumentNone, <1>4, <1>5 DEF Replacing, SoleWriters, Writing, Writers, Inserts,
     WriterCall
<1> QED BY <1>6, <1>7
\* The same for a step that sends its client on to step p.
LEMMA GoesOnKeepsDocuments ==
    ASSUME SoleWriters, SoleWriters', NEW c \in Clients, NEW p, NEW q, GoOn(c, p, q),
           UNCHANGED <<list, leaf, acked>>, pc[c] \notin {"check", "append"},
           p \notin {"check", "append"} \/ q.op \notin Updates
    PROVE  \A id \in Ids : DocumentOf(id)' = DocumentOf(id)
  BY Moved, LocalKeepsDocuments DEF SoleWriters, Replacing

\* No request changes a document at its first step.
LEMMA RequestKeepsDocuments ==
    ASSUME SoleWriters, SoleWriters', NEW c \in Clients, Request(c)
    PROVE  \A id \in Ids : DocumentOf(id)' = DocumentOf(id)
<1>1. ListInv
  BY DEF SoleWriters
<1>2. ASSUME pc[c] = "idle", NEW p, NEW q, GoOn(c, p, q), UNCHANGED <<list, leaf, acked>>,
             p \notin {"check", "append"} \/ q.op \notin Updates
      PROVE  \A id \in Ids : DocumentOf(id)' = DocumentOf(id)
  BY <1>2, GoesOnKeepsDocuments
<1>3. ASSUME NEW op \in Gets \cup Updates \cup Deletes, NEW id \in Ids, NEW kind \in Kinds, NEW tag \in SUBSET Tags,
             Searches(c, op, id, kind, tag)
      PROVE  \A x \in Ids : DocumentOf(x)' = DocumentOf(x)
  BY <1>2, <1>3 DEF Searches, Search
<1>4. ASSUME NEW op \in Scans, NEW id \in Ids \cup {AnyId}, NEW kind \in Kinds, StartsScan(c, op, id, kind)
      PROVE  \A x \in Ids : DocumentOf(x)' = DocumentOf(x)
  BY <1>2, <1>4 DEF StartsScan, StartScan
<1>5. ASSUME NEW id \in Ids, NEW kind \in Kinds, NEW result \in Seq(Docs), UsesCached(c, id, kind, result)
      PROVE  \A x \in Ids : DocumentOf(x)' = DocumentOf(x)
  BY <1>2, <1>5 DEF UsesCached
<1>6. ASSUME NEW id \in Ids, storage_insert_document(c, id)
      PROVE  \A x \in Ids : DocumentOf(x)' = DocumentOf(x)
  <2> DEFINE r0 == CallOf("storage_insert_document", id, KindOf[id], {})
             r  == [r0 EXCEPT !.doc = NewDoc(id)]
  <2>1. "storage_insert_document" \in Ops /\ KindOf[id] \in Kinds
    BY StoreAssumption DEF Ops, Writers, Inserts
  <2>2. r0 \in Calls /\ r0.op = "storage_insert_document"
    BY <2>1, CallOfType
  <2>3. GoOn(c, "check", r) /\ UNCHANGED <<list, leaf, acked>> /\ pc[c] = "idle"
    BY <1>6 DEF storage_insert_document
  <2> HIDE DEF r0
  <2>4. r.op \notin Updates
    BY <2>2 DEF Calls, Updates
  <2> HIDE DEF r
  <2> QED BY <1>2, <2>3, <2>4
<1> QED BY <1>1, <1>3, <1>4, <1>5, <1>6, RequestCases

\* skiplist_insert of the only writer never meets a duplicate.
LEMMA InsertKeepsDocuments ==
    ASSUME SoleWriters, SoleWriters', NEW c \in Clients, skiplist_insert(c)
    PROVE  \A id \in Ids : DocumentOf(id)' = DocumentOf(id)
<1> DEFINE r == call[c]
<1>1. /\ ListInv /\ pc[c] = "check" /\ r \in Calls /\ WriterCall("check", r) /\ list' = list
      /\ ToSet(list) \subseteq alive /\ alive \subseteq Leaves /\ DOMAIN leaf = Leaves
  BY ClientFacts DEF SoleWriters, WriterInv, skiplist_insert
<1>2. ~ Stored(r.id)
  BY <1>1, StoredIff DEF WriterCall
<1>3. PICK l \in Leaves \ alive :
             /\ leaf' = [leaf EXCEPT ![l] = [key |-> r.id, doc |-> r.doc]]
             /\ GoOn(c, "append", [r EXCEPT !.leaf = l])
             /\ UNCHANGED acked
  BY <1>2 DEF skiplist_insert
<1> DEFINE q == [r EXCEPT !.leaf = l]
<1>4. q.op = r.op /\ q.id = r.id /\ q.doc = r.doc
  BY <1>1 DEF Calls
<1>5. GoOn(c, "append", q)
  BY <1>3
<1> HIDE DEF q
<1>6. \A x \in ToSet(list) : leaf'[x] = leaf[x]
  BY <1>1, <1>3
<1>7. \A id : SameAt(id)
  BY <1>1, <1>3, <1>6 DEF SameAt
<1>8. /\ pc'[c] = "append" /\ call'[c] = q
      /\ \A d \in Clients \ {c} : pc'[d] = pc[d] /\ call'[d] = call[d]
  BY <1>1, <1>5, Moved
<1>9. ASSUME NEW id \in Ids PROVE DocumentOf(id)' = DocumentOf(id)
  BY <1>1, <1>4, <1>8, <1>7, DocumentKept DEF Replacing
<1> QED BY <1>9

\* What a step does to the documents: nothing, or what DocumentMap lets one uuid undergo.
MapStep ==
    \/ \A id \in Ids : DocumentOf(id)' = DocumentOf(id)
    \/ \E id \in Ids :
           /\ \A other \in Ids \ {id} : DocumentOf(other)' = DocumentOf(other)
           /\ \/ DocumentOf(id) = NoDoc /\ DocumentOf(id)' = NewDoc(id)
              \/ DocumentOf(id) \in Docs /\ DocumentOf(id)' = NoDoc
              \/ DocumentOf(id) \in Docs /\ \E t \in Tags : DocumentOf(id)' = Merge(DocumentOf(id), {t})

LEMMA StepIsMapStep ==
    ASSUME SoleWriters, SoleWriters', NEW c \in Clients, Step(c)
    PROVE  MapStep
<1> DEFINE r == call[c]
           Same == \A id \in Ids : DocumentOf(id)' = DocumentOf(id)
<1>1. ASSUME NEW p, NEW q, GoOn(c, p, q), UNCHANGED <<list, leaf, acked>>,
             pc[c] \notin {"check", "append"}, p \notin {"check", "append"}
      PROVE  Same
  BY <1>1, GoesOnKeepsDocuments
<1>2. CASE ReadLeaf(c)
  BY <1>2, ReturnMoves, <1>1 DEF ReadLeaf, MapStep
<1>3. CASE skiplist_delete(c)
  <2>1. PICK id : id = call[c].id
    OBVIOUS
  <2>2. /\ id \in Ids
        /\ \A other \in Ids \ {id} : DocumentOf(other)' = DocumentOf(other)
        /\ DocumentOf(id) \in Docs
        /\ \/ DocumentOf(id)' = NoDoc
           \/ \E t \in Tags : DocumentOf(id)' = Merge(DocumentOf(id), {t})
    BY <1>3, <2>1, DeleteChanges
  <2> QED BY <2>2 DEF MapStep
<1>4. CASE skiplist_insert(c)
  BY <1>4, InsertKeepsDocuments DEF MapStep
<1>5. CASE AppendLeaf(c)
  <2>1. PICK id : id = call[c].id
    OBVIOUS
  <2>2. /\ id \in Ids
        /\ \A other \in Ids \ {id} : DocumentOf(other)' = DocumentOf(other)
        /\ \/ DocumentOf(id)' = DocumentOf(id)
           \/ DocumentOf(id) = NoDoc /\ DocumentOf(id)' = NewDoc(id)
    BY <1>5, <2>1, AppendChanges
  <2>3. CASE DocumentOf(id)' = DocumentOf(id)
    BY <2>2, <2>3 DEF MapStep
  <2> QED BY <2>2, <2>3 DEF MapStep
<1>6. CASE InsertFails(c)
  BY <1>6 DEF InsertFails, SoleWriters, OneWriterEach
<1>7. CASE skiplist_iterator_next(c)
  BY <1>1, <1>7 DEF skiplist_iterator_next, MapStep
<1>8. CASE ParseDocument(c)
  BY <1>8, <1>1 DEF ParseDocument, MapStep
<1>9. CASE EndScan(c)
  BY <1>9, ReturnMoves, <1>1 DEF EndScan, MapStep
<1>10. CASE PutDocument(c)
  BY <1>10, ReturnMoves, <1>1 DEF PutDocument, MapStep
<1> QED BY <1>2, <1>3, <1>4, <1>5, <1>6, <1>7, <1>8, <1>9, <1>10 DEF Step
LEMMA InitImplementsMap == Init => Abstract!Init
<1> SUFFICES ASSUME Init, OneWriterEach PROVE [id \in Ids |-> DocumentOf(id)] = FirstDocuments
  BY DEF Abstract!Init, DocumentsOfOneWriter
<1>1. SoleWriters
  BY InitList, InitWriter DEF SoleWriters
<1>2. \A c \in Clients : \A id : ~ Replacing(c, id)
  BY DEF Init, Replacing
<1>3. ASSUME NEW id \in Ids
      PROVE  DocumentOf(id) = IF id \in ToSet(InitialIds) THEN NewDoc(id) ELSE NoDoc
  <2>1. CASE id \in ToSet(InitialIds)
    <3>1. PICK i \in DOMAIN list : leaf[list[i]] = [key |-> id, doc |-> NewDoc(id)]
      BY <2>1, InitLeaves DEF ToSet
    <3> DEFINE l == list[i]
    <3>2. l \in ToSet(list) /\ leaf[l].key = id /\ leaf[l].doc = NewDoc(id)
      BY <3>1 DEF ToSet
    <3> HIDE DEF l
    <3>3. DocumentOf(id) = NewDoc(id)
      BY <1>1, <3>2, DocumentStored
    <3> QED BY <2>1, <3>3
  <2>2. CASE id \notin ToSet(InitialIds)
    <3>1. ASSUME NEW l \in ToSet(list) PROVE leaf[l].key # id
      <4>1. PICK i \in DOMAIN InitialIds : leaf[l] = [key |-> InitialIds[i], doc |-> NewDoc(InitialIds[i])]
        BY InitLeaves DEF ToSet
      <4> QED BY <2>2, <4>1 DEF ToSet
    <3>2. DocumentOf(id) = NoDoc
      BY <1>2, <3>1, DocumentNone
    <3> QED BY <2>2, <3>2
  <2> QED BY <2>1, <2>2
<1> QED BY <1>3 DEF FirstDocuments

\* A step of the documents is a step of the map that holds them.
LEMMA MapStepRefines ==
    ASSUME MapStep, OneWriterEach, OneWriterEach'
    PROVE  [Abstract!Next]_DocumentsOfOneWriter
<1> DEFINE old == [x \in Ids |-> DocumentOf(x)]
           new == [x \in Ids |-> DocumentOf(x)']
<1>1. DocumentsOfOneWriter = old /\ DocumentsOfOneWriter' = new
  BY DEF DocumentsOfOneWriter
<1>2. CASE \A id \in Ids : DocumentOf(id)' = DocumentOf(id)
  BY <1>1, <1>2
<1>3. ASSUME NEW id \in Ids,
             \A other \in Ids \ {id} : DocumentOf(other)' = DocumentOf(other),
             \/ DocumentOf(id) = NoDoc /\ DocumentOf(id)' = NewDoc(id)
             \/ DocumentOf(id) \in Docs /\ DocumentOf(id)' = NoDoc
             \/ DocumentOf(id) \in Docs /\ \E t \in Tags : DocumentOf(id)' = Merge(DocumentOf(id), {t})
      PROVE  Abstract!Next
  <2>1. /\ old \in [Ids -> {old[x] : x \in Ids}] /\ old[id] = DocumentOf(id)
        /\ new = [old EXCEPT ![id] = DocumentOf(id)']
    BY <1>3
  <2>2. CASE DocumentOf(id) = NoDoc /\ DocumentOf(id)' = NewDoc(id)
    <3>1. KindOf[id] \in Kinds /\ DocumentOf(id)' = [id |-> id, kind |-> KindOf[id], fields |-> {}]
      BY <2>2, StoreAssumption DEF NewDoc
    <3> HIDE DEF old, new
    <3>2. Abstract!Insert(id)
      BY <1>1, <2>1, <2>2, <3>1 DEF Abstract!Insert
    <3> QED BY <3>2 DEF Abstract!Next
  <2>3. CASE DocumentOf(id) \in Docs /\ DocumentOf(id)' = NoDoc
    <3>1. old[id] # NoDoc
      BY <2>1, <2>3, DocTypes
    <3> HIDE DEF old, new
    <3>2. Abstract!Delete(id)
      BY <1>1, <2>1, <2>3, <3>1 DEF Abstract!Delete
    <3> QED BY <3>2 DEF Abstract!Next
  <2>4. CASE DocumentOf(id) \in Docs /\ \E t \in Tags : DocumentOf(id)' = Merge(DocumentOf(id), {t})
    <3>1. old[id] # NoDoc
      BY <2>1, <2>4, DocTypes
    <3>2. PICK t \in Tags : DocumentOf(id)' = [old[id] EXCEPT !.fields = @ \cup {t}]
      BY <2>1, <2>4 DEF Merge
    <3> HIDE DEF old, new
    <3>3. new = [old EXCEPT ![id].fields = @ \cup {t}]
      BY <2>1, <3>2
    <3>4. Abstract!Update(id)
      BY <1>1, <3>1, <3>3 DEF Abstract!Update
    <3> QED BY <3>4 DEF Abstract!Next
  <2> QED BY <1>3, <2>2, <2>3, <2>4
<1> QED BY <1>2, <1>3 DEF MapStep

\* With one writer for each uuid, and no failed allocation, the collection implements the
\* map of DocumentMap: skiplist_delete followed by skiplist_insert is one atomic update,
\* and an insert and a delete take effect at the one step that links or unlinks the leaf.
THEOREM ImplementsMap == Spec => ImplementsDocumentMap
<1> DEFINE Inv == ListInv /\ (OneWriterEach => WriterInv)
<1>1. Init => Inv
  BY InitList, InitWriter
<1>2. Inv /\ [Next]_vars => Inv'
  BY OneWriterNext
<1>3. Inv /\ Inv' /\ [Next]_vars => [Abstract!Next]_DocumentsOfOneWriter
  <2> SUFFICES ASSUME Inv, Inv', [Next]_vars PROVE [Abstract!Next]_DocumentsOfOneWriter
    OBVIOUS
  <2>1. OneWriterEach' <=> OneWriterEach
    BY DEF Next, vars, OneWriterEach
  <2>2. CASE ~ OneWriterEach
    BY <2>1, <2>2 DEF DocumentsOfOneWriter, FirstDocuments
  <2>3. CASE UNCHANGED vars
    BY <2>3 DEF vars, DocumentsOfOneWriter, OneWriterEach, DocumentOf, Stored, IndicesOf,
                art_search_in_list, FirstIndex, Replacing
  <2>4. CASE OneWriterEach /\ Next
    BY <2>1, <2>4, RequestKeepsDocuments, StepIsMapStep, MapStepRefines DEF SoleWriters, Next, MapStep
  <2> QED BY <2>2, <2>3, <2>4
<1>4. Init => Abstract!Init
  BY InitImplementsMap
<1> HIDE DEF Inv
<1> QED BY <1>1, <1>2, <1>3, <1>4, PTL DEF Spec, ImplementsDocumentMap, Abstract!Spec
=============================================================================

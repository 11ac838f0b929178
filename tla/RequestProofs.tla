----------------------------- MODULE RequestProofs -----------------------------
(***************************************************************************)
(* What a request meets on its way, for every number of threads, tokens    *)
(* and nodes: the sessions and the token cache that let it in, and the     *)
(* lock-free queue of the connections.                                     *)
(*                                                                         *)
(* Sessions.  A token is carried by the session document that has it, by a *)
(* pending copy of that document, or by the login that will make the       *)
(* session.  Nearly everything follows from one fact: a token never has    *)
(* two carriers with different documents (SessPlaces), so that the session *)
(* a logout finds is the only one its token will ever have (Settled).      *)
(*                                                                         *)
(* The queue is described by the node of every item that ever joined:      *)
(* at[i] is the node of the i-th, at[0] the first sentinel, so that the    *)
(* list from qhead to its end is at[Len(taken)], ..., at[Len(joined)].     *)
(* The free list is a stack fs[1], ..., fs[k].  kind and own say where     *)
(* each node is: no node is in two places.  The invariant holds until an   *)
(* exchange meets a recycled node (reused), where the model stops.         *)
(***************************************************************************)
EXTENDS Sessions, LockFreeQueue, FiniteSetTheorems, SequenceTheorems, NaturalsInduction, WellFoundedInduction, TLAPS

-----------------------------------------------------------------------------
(* Sessions: types of the state.                                           *)

SessTokens == [user : SUsers, exp : Nat]
SessDocs   == [user : SUsers, token : Nat, active : BOOLEAN, seen : Nat,
               library : {"default", "system"}, live : BOOLEAN, copy : Nat]
CacheEntries == [token : Nat, exp : Nat, at : Nat]
SessReqs   == [pc : {"idle", "extend", "lookup", "put", "writeback", "others", "old", "kill",
                     "uncache", "uncacheUser", "byToken", "passwd"},
               tok : Nat, new : Nat, ids : Seq(Nat), doc : {<<>>} \cup (Nat \X SessDocs), pw : Nat, out : BOOLEAN]

\* A session document: its token is an issued one, of the same user.
DocSound(d, tk) ==
    /\ d.token \in 1 .. Len(tk) /\ d.user = tk[d.token].user
    /\ d.copy \in 0 .. Len(tk)

\* A request: what it names exists, and a copy it will write back is that of an
\* active session of the same user.
ReqSound(r, tk, ss) ==
    /\ r.tok \in 0 .. Len(tk) /\ r.new \in 0 .. Len(tk)
    /\ r.pc \in {"lookup", "put", "extend", "old", "uncache", "uncacheUser", "byToken", "passwd"} => r.tok # 0
    /\ r.pc \in {"others", "old"} => r.new # 0
    /\ r.new # 0 => r.pc \in {"others", "old", "kill"} /\ ~ r.out
    /\ r.out => r.tok # 0 /\ r.pc \in {"uncache", "uncacheUser", "byToken", "kill"}
    /\ r.pc \in {"uncacheUser", "byToken"} => r.out
    /\ r.out /\ r.pc # "kill" => r.ids = <<>>
    /\ Len(r.ids) <= 1 /\ \A i \in 1 .. Len(r.ids) : r.ids[i] \in 1 .. Len(ss)
    /\ r.pc = "writeback" =>
          /\ r.doc \in (1 .. Len(ss)) \X SessDocs
          /\ r.doc[2].user = ss[r.doc[1]].user /\ DocSound(r.doc[2], tk)
          /\ r.doc[2].live /\ r.doc[2].active

SessTypes ==
    /\ clock \in 1 .. MaxClock
    /\ tokens \in Seq(SessTokens)
    /\ sessions \in Seq(SessDocs)
    /\ \A s \in 1 .. Len(sessions) : DocSound(sessions[s], tokens)
    /\ password \in [SUsers -> Nat]
    /\ req \in [SThreads -> SessReqs]
    /\ \A t \in SThreads : ReqSound(req[t], tokens, sessions)
    /\ accepted \in [token : Nat, time : Nat]
    /\ killed \subseteq 1 .. Len(sessions) /\ stale \subseteq killed

\* The document layer and the tokens only grow: what was sound stays sound.
SessGrown(tk, ss, tk2, ss2) ==
    /\ Len(tk) <= Len(tk2) /\ \A k \in 1 .. Len(tk) : tk2[k] = tk[k]
    /\ Len(ss) <= Len(ss2) /\ \A s \in 1 .. Len(ss) : ss2[s].user = ss[s].user

LEMMA SessReqsKept ==
    ASSUME NEW tk \in Seq(SessTokens), NEW tk2 \in Seq(SessTokens),
           NEW ss \in Seq(SessDocs), NEW ss2 \in Seq(SessDocs), SessGrown(tk, ss, tk2, ss2)
    PROVE /\ \A d \in SessDocs : DocSound(d, tk) => DocSound(d, tk2)
          /\ \A r \in SessReqs : ReqSound(r, tk, ss) => ReqSound(r, tk2, ss2)
<1>0. Len(tk) \in Nat /\ Len(tk2) \in Nat /\ Len(ss) \in Nat /\ Len(ss2) \in Nat
  OBVIOUS
<1>1. ASSUME NEW d \in SessDocs, DocSound(d, tk) PROVE DocSound(d, tk2)
  BY <1>0, <1>1 DEF DocSound, SessGrown
<1>2. ASSUME NEW r \in SessReqs, ReqSound(r, tk, ss) PROVE ReqSound(r, tk2, ss2)
  <2>1. CASE r.pc = "writeback"
    <3>1. /\ r.doc \in (1 .. Len(ss)) \X SessDocs /\ r.doc \in (1 .. Len(ss2)) \X SessDocs
          /\ r.doc[2] \in SessDocs /\ r.doc[2].user = ss[r.doc[1]].user /\ DocSound(r.doc[2], tk)
          /\ r.doc[2].live /\ r.doc[2].active
      BY <1>0, <1>2, <2>1 DEF ReqSound, SessGrown
    <3>2. DocSound(r.doc[2], tk2)
      BY <1>1, <3>1
    <3>3. r.doc[2].user = ss2[r.doc[1]].user
      BY <3>1 DEF SessGrown
    <3> HIDE DEF DocSound
    <3> QED BY <1>0, <1>2, <2>1, <3>1, <3>2, <3>3 DEF ReqSound, SessGrown
  <2>2. CASE r.pc # "writeback"
    BY <1>0, <1>2, <2>2 DEF ReqSound, SessGrown
  <2> QED BY <2>1, <2>2
<1> QED BY <1>1, <1>2

\* A thread goes on with r, the others stay where they are.
Onward(t, r) ==
    /\ r \in SessReqs /\ req' \in [SThreads -> SessReqs] /\ req'[t] = r
    /\ \A o \in SThreads : o # t => req'[o] = req[o]

LEMMA GoesOn ==
    ASSUME req \in [SThreads -> SessReqs], NEW t \in SThreads, NEW r \in SessReqs, Go(t, r)
    PROVE Onward(t, r)
BY DEF Go, Onward

LEMMA IdleIs ==
    /\ Idle \in SessReqs
    /\ Idle.pc = "idle" /\ Idle.tok = 0 /\ Idle.new = 0 /\ Idle.ids = <<>> /\ Idle.doc = <<>>
    /\ Idle.pw = 0 /\ Idle.out = FALSE
  BY DEF Idle, SessReqs

\* Which threads move from one query to the next, and which stay.
Unwritten == /\ clock' = clock /\ tokens' = tokens /\ sessions' = sessions /\ password' = password
             /\ killed' = killed /\ stale' = stale /\ switched' = switched

\* A request is taken up or ends, by one record that names no new token and no copy.
LEMMA Asks ==
    ASSUME SessTypes, NEW t \in SThreads, NEW k \in DOMAIN tokens
    PROVE /\ authenticate(t, k) =>
               /\ Unwritten /\ jwtCache' = jwtCache /\ loggedOut' = loggedOut /\ raced' = raced
               /\ \E r : /\ Onward(t, r) /\ r.tok = k /\ r.new = 0 /\ r.ids = <<>> /\ r.out = FALSE
                         /\ \/ r.pc = "extend" /\ jwt_cache_get(k) /\ accepted' = [token |-> k, time |-> clock]
                            \/ r.pc = "lookup" /\ accepted' = accepted
          /\ logout(t, k) =>
               /\ Unwritten /\ jwtCache' = jwtCache /\ loggedOut' = loggedOut /\ raced' = raced /\ accepted' = accepted
               /\ \E r : /\ Onward(t, r) /\ r.tok = k /\ r.new = 0 /\ r.ids = <<>> /\ r.out = TRUE
                         /\ r.pc = "uncache" /\ ActiveWith(k) # {}
          /\ change_password(t, k) =>
               /\ Unwritten /\ jwtCache' = jwtCache /\ loggedOut' = loggedOut /\ raced' = raced /\ accepted' = accepted
               /\ \E r : /\ Onward(t, r) /\ r.tok = k /\ r.new = 0 /\ r.ids = <<>> /\ r.out = FALSE /\ r.pc = "passwd"
<1>0. k \in Nat /\ req \in [SThreads -> SessReqs]
  BY DEF SessTypes
<1>1. ASSUME authenticate(t, k)
      PROVE  /\ Unwritten /\ jwtCache' = jwtCache /\ loggedOut' = loggedOut /\ raced' = raced
             /\ \E r : /\ Onward(t, r) /\ r.tok = k /\ r.new = 0 /\ r.ids = <<>> /\ r.out = FALSE
                       /\ \/ r.pc = "extend" /\ jwt_cache_get(k) /\ accepted' = [token |-> k, time |-> clock]
                          \/ r.pc = "lookup" /\ accepted' = accepted
  <2>1. Unwritten /\ jwtCache' = jwtCache /\ loggedOut' = loggedOut /\ raced' = raced
    BY <1>1 DEF authenticate, Unwritten
  <2>2. CASE jwt_cache_get(k)
    <3> DEFINE r == [Idle EXCEPT !.pc = "extend", !.tok = k]
    <3>1. r \in SessReqs /\ r.tok = k /\ r.new = 0 /\ r.ids = <<>> /\ r.out = FALSE /\ r.pc = "extend"
      BY <1>0, IdleIs DEF SessReqs
    <3>2. Go(t, r) /\ accepted' = [token |-> k, time |-> clock]
      BY <1>1, <2>2 DEF authenticate, LetThrough
    <3> HIDE DEF r
    <3> QED BY <1>0, <2>1, <2>2, <3>1, <3>2, GoesOn
  <2>3. CASE ~ jwt_cache_get(k)
    <3> DEFINE r == [Idle EXCEPT !.pc = "lookup", !.tok = k]
    <3>1. r \in SessReqs /\ r.tok = k /\ r.new = 0 /\ r.ids = <<>> /\ r.out = FALSE /\ r.pc = "lookup"
      BY <1>0, IdleIs DEF SessReqs
    <3>2. Go(t, r) /\ accepted' = accepted
      BY <1>1, <2>3 DEF authenticate
    <3> HIDE DEF r
    <3> QED BY <1>0, <2>1, <3>1, <3>2, GoesOn
  <2> QED BY <2>2, <2>3
<1>2. ASSUME logout(t, k)
      PROVE  /\ Unwritten /\ jwtCache' = jwtCache /\ loggedOut' = loggedOut /\ raced' = raced /\ accepted' = accepted
             /\ \E r : /\ Onward(t, r) /\ r.tok = k /\ r.new = 0 /\ r.ids = <<>> /\ r.out = TRUE
                       /\ r.pc = "uncache" /\ ActiveWith(k) # {}
  <2> DEFINE r == [Idle EXCEPT !.pc = "uncache", !.tok = k, !.out = TRUE]
  <2>1. r \in SessReqs /\ r.tok = k /\ r.new = 0 /\ r.ids = <<>> /\ r.out = TRUE /\ r.pc = "uncache"
    BY <1>0, IdleIs DEF SessReqs
  <2>2. /\ Go(t, r) /\ ActiveWith(k) # {} /\ Unwritten
        /\ jwtCache' = jwtCache /\ loggedOut' = loggedOut /\ raced' = raced /\ accepted' = accepted
    BY <1>2 DEF logout, Unwritten, history
  <2> HIDE DEF r
  <2> QED BY <1>0, <2>1, <2>2, GoesOn
<1>3. ASSUME change_password(t, k)
      PROVE  /\ Unwritten /\ jwtCache' = jwtCache /\ loggedOut' = loggedOut /\ raced' = raced /\ accepted' = accepted
             /\ \E r : /\ Onward(t, r) /\ r.tok = k /\ r.new = 0 /\ r.ids = <<>> /\ r.out = FALSE /\ r.pc = "passwd"
  <2> DEFINE r == [Idle EXCEPT !.pc = "passwd", !.tok = k, !.pw = password[tokens[k].user] + 1]
  <2>0. tokens[k].user \in SUsers
    <3>1. tokens[k] \in SessTokens
      BY ElementOfSeq DEF SessTypes
    <3> QED BY <3>1 DEF SessTokens
  <2>1. password[tokens[k].user] + 1 \in Nat
    BY <2>0 DEF SessTypes
  <2>2. r \in SessReqs /\ r.tok = k /\ r.new = 0 /\ r.ids = <<>> /\ r.out = FALSE /\ r.pc = "passwd"
    BY <1>0, <2>1, IdleIs DEF SessReqs
  <2>3. /\ Go(t, r) /\ Unwritten
        /\ jwtCache' = jwtCache /\ loggedOut' = loggedOut /\ raced' = raced /\ accepted' = accepted
    BY <1>3 DEF change_password, Unwritten, history
  <2> HIDE DEF r
  <2> QED BY <1>0, <2>2, <2>3, GoesOn
<1> QED BY <1>1, <1>2, <1>3

LEMMA FirstSession ==
    ASSUME NEW S \in SUBSET Nat, S # {}
    PROVE  FirstOf(S) \in S
<1> DEFINE Below == {p \in Nat \X Nat : p[1] < p[2]}
<1>1. IsWellFoundedOn(Below, Nat)
  BY NatLessThanWellFounded DEF OpToRel
<1> HIDE DEF Below
<1>2. PICK m \in S : \A k \in S : ~ (<<k, m>> \in Below)
  BY <1>1, WFMin
<1>3. \A k \in S : ~ (k < m)
  BY <1>2 DEF Below
<1>4. \A k \in S : m <= k
  BY <1>2, <1>3
<1> QED BY <1>2, <1>4 DEF FirstOf

\* The active sessions of a token, among those filed in "system".
LEMMA ActiveIs ==
    ASSUME SessTypes, NEW k
    PROVE /\ ActiveWith(k) \subseteq 1 .. Len(sessions)
          /\ \A s \in ActiveWith(k) : /\ sessions[s] \in SessDocs /\ sessions[s].library = "system"
                                      /\ sessions[s].live /\ sessions[s].active /\ sessions[s].token = k
          /\ ActiveWith(k) # {} => FirstOf(ActiveWith(k)) \in ActiveWith(k)
<1>1. ActiveWith(k) \subseteq 1 .. Len(sessions)
  BY DEF ActiveWith, FiledIn, SessTypes
<1>2. \A s \in 1 .. Len(sessions) : sessions[s] \in SessDocs
  BY ElementOfSeq DEF SessTypes
<1>3. ActiveWith(k) # {} => FirstOf(ActiveWith(k)) \in ActiveWith(k)
  BY <1>1, FirstSession
<1> QED BY <1>1, <1>2, <1>3 DEF ActiveWith, FiledIn, InUse

\* The list of at most one session.
LEMMA ListOfOne ==
    /\ SetToSeq({}) = <<>>
    /\ \A s \in Nat : SetToSeq({s}) = <<s>>
<1>1. Cardinality({}) = 0 /\ 1 .. 0 = {}
  BY FS_EmptySet
<1>2. SetToSeq({}) = <<>>
  <2> DEFINE F == {f \in [1 .. Cardinality({}) -> {}] : IsInjective(f)}
  <2>1. <<>> \in [1 .. Cardinality({}) -> {}]
    BY <1>1
  <2>2. \A f \in [1 .. Cardinality({}) -> {}] : f = <<>>
    BY <1>1
  <2>3. IsInjective(<<>>)
    BY DEF IsInjective
  <2> QED BY <2>1, <2>2, <2>3 DEF SetToSeq
<1>3. ASSUME NEW s \in Nat PROVE SetToSeq({s}) = <<s>>
  <2>0. Cardinality({s}) = 1 /\ 1 .. 1 = {1}
    <3>1. Cardinality({s}) = 1
      BY FS_Singleton
    <3>2. 1 .. 1 = {1}
      OBVIOUS
    <3> QED BY <3>1, <3>2
  <2>1. <<s>> \in [1 .. Cardinality({s}) -> {s}]
    BY <2>0
  <2>2. \A f \in [1 .. Cardinality({s}) -> {s}] : f = <<s>>
    BY <2>0
  <2>3. IsInjective(<<s>>)
    BY DEF IsInjective
  <2> QED BY <2>1, <2>2, <2>3 DEF SetToSeq
<1> QED BY <1>2, <1>3

\* A request that goes on keeps all but its place and its list.
Keeps(r, q) == r.tok = q.tok /\ r.new = q.new /\ r.doc = q.doc /\ r.out = q.out

\* The queries of a request that is under way.
LEMMA Looks ==
    ASSUME SessTypes, NEW t \in SThreads
    PROVE LET q == req[t] IN
          /\ lookup(t) =>
               /\ Unwritten /\ jwtCache' = jwtCache /\ loggedOut' = loggedOut /\ raced' = raced /\ q.pc = "lookup"
               /\ \E r : /\ Onward(t, r)
                         /\ \/ r = Idle /\ accepted' = accepted
                            \/ /\ r.pc = "put" /\ r.ids = q.ids /\ Keeps(r, q)
                               /\ ActiveWith(q.tok) # {} /\ jwt_verify(q.tok)
                               /\ accepted' = [token |-> q.tok, time |-> clock]
          /\ login_others(t) =>
               /\ Unwritten /\ jwtCache' = jwtCache /\ loggedOut' = loggedOut /\ raced' = raced /\ accepted' = accepted
               /\ q.pc = "others"
               /\ \E r : Onward(t, r) /\ r.pc = "kill" /\ r.ids = <<>> /\ Keeps(r, q)
          /\ refresh_old(t) =>
               /\ Unwritten /\ jwtCache' = jwtCache /\ loggedOut' = loggedOut /\ raced' = raced /\ accepted' = accepted
               /\ q.pc = "old"
               /\ \E r : /\ Onward(t, r) /\ r.pc = "kill" /\ Keeps(r, q)
                         /\ r.ids = <<>> \/ \E s \in 1 .. Len(sessions) : r.ids = <<s>>
<1> DEFINE q == req[t]
<1>0. q \in SessReqs /\ req \in [SThreads -> SessReqs] /\ <<>> \in Seq(Nat)
  BY DEF SessTypes
<1>1. ASSUME lookup(t)
      PROVE /\ Unwritten /\ jwtCache' = jwtCache /\ loggedOut' = loggedOut /\ raced' = raced /\ q.pc = "lookup"
            /\ \E r : /\ Onward(t, r)
                      /\ \/ r = Idle /\ accepted' = accepted
                         \/ /\ r.pc = "put" /\ r.ids = q.ids /\ Keeps(r, q)
                            /\ ActiveWith(q.tok) # {} /\ jwt_verify(q.tok)
                            /\ accepted' = [token |-> q.tok, time |-> clock]
  <2>1. Unwritten /\ jwtCache' = jwtCache /\ loggedOut' = loggedOut /\ raced' = raced /\ q.pc = "lookup"
    BY <1>1 DEF lookup, Unwritten
  <2>2. CASE ActiveWith(q.tok) # {} /\ jwt_verify(q.tok)
    <3> DEFINE r == [q EXCEPT !.pc = "put"]
    <3>1. Go(t, r) /\ accepted' = [token |-> q.tok, time |-> clock]
      BY <1>1, <2>2 DEF lookup, LetThrough
    <3>2. r \in SessReqs /\ r.pc = "put" /\ r.ids = q.ids /\ Keeps(r, q)
      BY <1>0 DEF SessReqs, Keeps
    <3> HIDE DEF r, q
    <3> QED BY <1>0, <2>1, <2>2, <3>1, <3>2, GoesOn
  <2>3. CASE ~ (ActiveWith(q.tok) # {} /\ jwt_verify(q.tok))
    BY <1>1, <2>3, <1>0, <2>1, GoesOn, IdleIs DEF lookup, Done
  <2> QED BY <2>2, <2>3
<1>2. ASSUME login_others(t)
      PROVE /\ Unwritten /\ jwtCache' = jwtCache /\ loggedOut' = loggedOut /\ raced' = raced /\ accepted' = accepted
            /\ q.pc = "others"
            /\ \E r : Onward(t, r) /\ r.pc = "kill" /\ r.ids = <<>> /\ Keeps(r, q)
  <2> DEFINE r == [q EXCEPT !.pc = "kill", !.ids = <<>>]
  <2>1. ActiveOf(tokens[q.new].user) \cap FiledIn("default") = {}
    BY DEF ActiveOf, FiledIn
  <2>2. /\ Go(t, r) /\ Unwritten /\ q.pc = "others"
        /\ jwtCache' = jwtCache /\ loggedOut' = loggedOut /\ raced' = raced /\ accepted' = accepted
    BY <1>2, <2>1, ListOfOne DEF login_others, Unwritten, history
  <2>3. r \in SessReqs /\ r.pc = "kill" /\ r.ids = <<>> /\ Keeps(r, q)
    BY <1>0 DEF SessReqs, Keeps
  <2> HIDE DEF r, q
  <2> QED BY <1>0, <2>2, <2>3, GoesOn
<1>3. ASSUME refresh_old(t)
      PROVE /\ Unwritten /\ jwtCache' = jwtCache /\ loggedOut' = loggedOut /\ raced' = raced /\ accepted' = accepted
            /\ q.pc = "old"
            /\ \E r : /\ Onward(t, r) /\ r.pc = "kill" /\ Keeps(r, q)
                      /\ r.ids = <<>> \/ \E s \in 1 .. Len(sessions) : r.ids = <<s>>
  <2> DEFINE S == ActiveWith(q.tok)
             i == IF S = {} THEN <<>> ELSE <<FirstOf(S)>>
             r == [q EXCEPT !.pc = "kill", !.ids = i]
  <2>1. i \in Seq(Nat) /\ (i = <<>> \/ \E s \in 1 .. Len(sessions) : i = <<s>>)
    BY ActiveIs
  <2>2. /\ Go(t, r) /\ Unwritten /\ q.pc = "old"
        /\ jwtCache' = jwtCache /\ loggedOut' = loggedOut /\ raced' = raced /\ accepted' = accepted
    BY <1>3 DEF refresh_old, Unwritten, history
  <2> HIDE DEF i, q
  <2>3. r \in SessReqs /\ r.pc = "kill" /\ r.ids = i /\ Keeps(r, q)
    BY <1>0, <2>1 DEF SessReqs, Keeps, q
  <2> HIDE DEF r
  <2> QED BY <1>0, <2>1, <2>2, <2>3, GoesOn
<1> QED BY <1>1, <1>2, <1>3

\* Session x has token k, or will have it when a pending copy is written back.
Carries(x, k) ==
    \/ x \in 1 .. Len(sessions) /\ sessions[x].token = k
    \/ \E o \in SThreads : req[o].pc = "writeback" /\ req[o].doc[1] = x /\ req[o].doc[2].token = k

\* A token is that of one session at most, of none while the session is still to
\* be made, and one request makes it.
SessPlaces ==
    /\ \A k \in Nat : \A x, y \in Nat : Carries(x, k) /\ Carries(y, k) => x = y
    /\ \A t \in SThreads, k \in Nat : req[t].new = k /\ k # 0 => \A x \in Nat : ~ Carries(x, k)
    /\ \A t, o \in SThreads : req[t].new # 0 /\ req[t].new = req[o].new => t = o

LEMMA OneActive ==
    ASSUME SessTypes, SessPlaces, NEW k \in Nat, NEW s \in ActiveWith(k)
    PROVE ActiveWith(k) = {s} /\ s \in 1 .. Len(sessions) /\ Carries(s, k)
<1>1. \A x \in ActiveWith(k) : x \in Nat /\ Carries(x, k)
  BY ActiveIs DEF Carries
<1>2. \A x \in ActiveWith(k) : x = s
  BY <1>1 DEF SessPlaces
<1> QED BY <1>1, <1>2, ActiveIs

\* The steps of a request on the cache, and of a logout to its sessions.
LEMMA Uncaches ==
    ASSUME SessTypes, SessPlaces, NEW t \in SThreads
    PROVE LET q == req[t] IN
          /\ put(t) =>
               /\ Unwritten /\ loggedOut' = loggedOut /\ accepted' = accepted /\ q.pc = "put"
               /\ jwt_cache_put(q.tok)
               /\ raced' = IF \E o \in SThreads : req[o].out /\ req[o].tok = q.tok
                           THEN raced \cup {q.tok} ELSE raced
               /\ \E r : Onward(t, r) /\ r.pc = "extend" /\ r.ids = q.ids /\ Keeps(r, q)
          /\ uncache_token(t) =>
               /\ Unwritten /\ loggedOut' = loggedOut /\ raced' = raced /\ accepted' = accepted /\ q.pc = "uncache"
               /\ jwt_cache_invalidate_token(q.tok)
               /\ \E r : /\ Onward(t, r) /\ r.ids = q.ids /\ Keeps(r, q)
                         /\ r.pc = IF q.out THEN "uncacheUser" ELSE "kill"
          /\ uncache_user(t) =>
               /\ Unwritten /\ loggedOut' = loggedOut /\ raced' = raced /\ accepted' = accepted /\ q.pc = "uncacheUser"
               /\ jwt_cache_invalidate_user(tokens[q.tok].user)
               /\ \E r : Onward(t, r) /\ r.pc = "byToken" /\ r.ids = q.ids /\ Keeps(r, q)
          /\ rbac_db_invalidate_sessions_by_token(t) =>
               /\ Unwritten /\ jwtCache' = jwtCache /\ loggedOut' = loggedOut /\ raced' = raced /\ accepted' = accepted
               /\ q.pc = "byToken"
               /\ \E r : /\ Onward(t, r)
                         /\ \/ r = Idle /\ ActiveWith(q.tok) = {}
                            \/ \E s \in ActiveWith(q.tok) : r.pc = "kill" /\ Keeps(r, q) /\ r.ids = <<s>>
          /\ change_password_write(t) =>
               /\ clock' = clock /\ tokens' = tokens /\ sessions' = sessions
               /\ killed' = killed /\ stale' = stale /\ switched' = switched
               /\ jwtCache' = jwtCache /\ loggedOut' = loggedOut /\ raced' = raced /\ accepted' = accepted
               /\ q.pc = "passwd" /\ password' \in [SUsers -> Nat] /\ Onward(t, Idle)
<1> DEFINE q == req[t]
<1>0. q \in SessReqs /\ req \in [SThreads -> SessReqs] /\ q.tok \in Nat
  BY DEF SessTypes, SessReqs
<1>1. ASSUME put(t)
      PROVE /\ Unwritten /\ loggedOut' = loggedOut /\ accepted' = accepted /\ q.pc = "put"
            /\ jwt_cache_put(q.tok)
            /\ raced' = IF \E o \in SThreads : req[o].out /\ req[o].tok = q.tok
                        THEN raced \cup {q.tok} ELSE raced
            /\ \E r : Onward(t, r) /\ r.pc = "extend" /\ r.ids = q.ids /\ Keeps(r, q)
  <2> DEFINE r == [q EXCEPT !.pc = "extend"]
  <2>1. /\ Unwritten /\ loggedOut' = loggedOut /\ accepted' = accepted /\ q.pc = "put" /\ Go(t, r)
        /\ jwt_cache_put(q.tok)
        /\ raced' = IF \E o \in SThreads : req[o].out /\ req[o].tok = q.tok
                    THEN raced \cup {q.tok} ELSE raced
    BY <1>1 DEF put, Unwritten
  <2>2. r \in SessReqs /\ r.pc = "extend" /\ r.ids = q.ids /\ Keeps(r, q)
    BY <1>0 DEF SessReqs, Keeps
  <2> HIDE DEF r, q
  <2> QED BY <1>0, <2>1, <2>2, GoesOn
<1>2. ASSUME uncache_token(t)
      PROVE /\ Unwritten /\ loggedOut' = loggedOut /\ raced' = raced /\ accepted' = accepted /\ q.pc = "uncache"
            /\ jwt_cache_invalidate_token(q.tok)
            /\ \E r : /\ Onward(t, r) /\ r.ids = q.ids /\ Keeps(r, q)
                      /\ r.pc = IF q.out THEN "uncacheUser" ELSE "kill"
  <2> DEFINE p == IF q.out THEN "uncacheUser" ELSE "kill"
             r == [q EXCEPT !.pc = p]
  <2>1. /\ Unwritten /\ loggedOut' = loggedOut /\ raced' = raced /\ accepted' = accepted /\ q.pc = "uncache"
        /\ Go(t, r) /\ jwt_cache_invalidate_token(q.tok)
    BY <1>2 DEF uncache_token, Unwritten, history
  <2>2. p \in {"uncacheUser", "kill"}
    OBVIOUS
  <2> HIDE DEF p
  <2>3. r \in SessReqs /\ r.pc = p /\ r.ids = q.ids /\ Keeps(r, q)
    BY <1>0, <2>2 DEF SessReqs, Keeps
  <2> HIDE DEF r, q
  <2> QED BY <1>0, <2>1, <2>3, GoesOn DEF p
<1>3. ASSUME uncache_user(t)
      PROVE /\ Unwritten /\ loggedOut' = loggedOut /\ raced' = raced /\ accepted' = accepted /\ q.pc = "uncacheUser"
            /\ jwt_cache_invalidate_user(tokens[q.tok].user)
            /\ \E r : Onward(t, r) /\ r.pc = "byToken" /\ r.ids = q.ids /\ Keeps(r, q)
  <2> DEFINE r == [q EXCEPT !.pc = "byToken"]
  <2>1. /\ Unwritten /\ loggedOut' = loggedOut /\ raced' = raced /\ accepted' = accepted /\ q.pc = "uncacheUser"
        /\ Go(t, r) /\ jwt_cache_invalidate_user(tokens[q.tok].user)
    BY <1>3 DEF uncache_user, Unwritten, history
  <2>2. r \in SessReqs /\ r.pc = "byToken" /\ r.ids = q.ids /\ Keeps(r, q)
    BY <1>0 DEF SessReqs, Keeps
  <2> HIDE DEF r, q
  <2> QED BY <1>0, <2>1, <2>2, GoesOn
<1>4. ASSUME rbac_db_invalidate_sessions_by_token(t)
      PROVE /\ Unwritten /\ jwtCache' = jwtCache /\ loggedOut' = loggedOut /\ raced' = raced /\ accepted' = accepted
            /\ q.pc = "byToken"
            /\ \E r : /\ Onward(t, r)
                      /\ \/ r = Idle /\ ActiveWith(q.tok) = {}
                         \/ \E s \in ActiveWith(q.tok) : r.pc = "kill" /\ Keeps(r, q) /\ r.ids = <<s>>
  <2>1. /\ Unwritten /\ jwtCache' = jwtCache /\ loggedOut' = loggedOut /\ raced' = raced /\ accepted' = accepted
        /\ q.pc = "byToken"
    BY <1>4 DEF rbac_db_invalidate_sessions_by_token, Unwritten, history
  <2>2. CASE ActiveWith(q.tok) = {}
    BY <1>4, <2>2, <1>0, <2>1, GoesOn, IdleIs DEF rbac_db_invalidate_sessions_by_token, Done
  <2>3. ASSUME NEW s \in ActiveWith(q.tok)
        PROVE \E r : Onward(t, r) /\ r.pc = "kill" /\ Keeps(r, q) /\ r.ids = <<s>>
    <3> DEFINE r == [q EXCEPT !.pc = "kill", !.ids = <<s>>]
    <3>1. ActiveWith(q.tok) = {s} /\ s \in Nat /\ <<s>> \in Seq(Nat)
      BY <1>0, OneActive
    <3>2. Go(t, [q EXCEPT !.pc = "kill", !.ids = SetToSeq(ActiveWith(q.tok))])
      BY <1>4, <2>3 DEF rbac_db_invalidate_sessions_by_token
    <3>3. SetToSeq(ActiveWith(q.tok)) = <<s>>
      BY <3>1, ListOfOne
    <3>4. Go(t, r)
      BY <3>2, <3>3
    <3>5. r \in SessReqs /\ r.pc = "kill" /\ r.ids = <<s>> /\ Keeps(r, q)
      BY <1>0, <3>1 DEF SessReqs, Keeps
    <3> HIDE DEF r, q
    <3> QED BY <1>0, <3>4, <3>5, GoesOn
  <2> QED BY <2>1, <2>2, <2>3
<1>5. ASSUME change_password_write(t)
      PROVE /\ clock' = clock /\ tokens' = tokens /\ sessions' = sessions
            /\ killed' = killed /\ stale' = stale /\ switched' = switched
            /\ jwtCache' = jwtCache /\ loggedOut' = loggedOut /\ raced' = raced /\ accepted' = accepted
            /\ q.pc = "passwd" /\ password' \in [SUsers -> Nat] /\ Onward(t, Idle)
  BY <1>0, <1>5, GoesOn, IdleIs DEF change_password_write, SessTypes, SessReqs, history, Done
<1> QED BY <1>1, <1>2, <1>3, <1>4, <1>5

\* Nothing of the tokens' cache and the histories of the logouts changes.
CacheAlone == /\ jwtCache' = jwtCache /\ loggedOut' = loggedOut /\ raced' = raced
Unkilled   == killed' = killed /\ stale' = stale

\* The copy d of session s, with its token and its library.
CopyOf(d, s, k, l) ==
    /\ d \in SessDocs /\ d.user = sessions[s].user /\ d.live /\ d.active /\ d.copy = sessions[s].copy
    /\ d.token = k /\ d.library = l

\* A request that will write back the copy d of session s.
Writes(r, s, d) == r.pc = "writeback" /\ r.tok = 0 /\ r.new = 0 /\ r.ids = <<>> /\ r.out = FALSE /\ r.doc = <<s, d>>

LEMMA Copies ==
    ASSUME SessTypes, NEW t \in SThreads
    PROVE LET q == req[t] IN
          /\ extend_read(t) =>
               /\ Unwritten /\ CacheAlone /\ accepted' = accepted /\ q.pc = "extend"
               /\ \E r : /\ Onward(t, r)
                         /\ \/ r = Idle
                            \/ \E s \in ActiveWith(q.tok), d \in SessDocs :
                                  Writes(r, s, d) /\ CopyOf(d, s, q.tok, "system")
          /\ \A k \in DOMAIN tokens, l \in {"default", "system"} : switch_library(t, k, l) =>
               /\ clock' = clock /\ sessions' = sessions /\ password' = password /\ Unkilled
               /\ CacheAlone /\ accepted' = accepted
               /\ \E n \in SessTokens : n.user = tokens[k].user /\ tokens' = Append(tokens, n)
               /\ switched' = IF l = "system" THEN switched ELSE switched \cup {Len(tokens) + 1}
               /\ \E r : /\ Onward(t, r)
                         /\ \/ r = Idle
                            \/ \E s \in ActiveWith(k), d \in SessDocs :
                                  Writes(r, s, d) /\ CopyOf(d, s, Len(tokens) + 1, l)
<1> DEFINE q == req[t]
<1>0. q \in SessReqs /\ req \in [SThreads -> SessReqs] /\ q.tok \in Nat /\ clock \in Nat /\ Len(tokens) \in Nat
  BY DEF SessTypes, SessReqs
<1>1. ASSUME extend_read(t)
      PROVE /\ Unwritten /\ CacheAlone /\ accepted' = accepted /\ q.pc = "extend"
            /\ \E r : /\ Onward(t, r)
                      /\ \/ r = Idle
                         \/ \E s \in ActiveWith(q.tok), d \in SessDocs :
                               Writes(r, s, d) /\ CopyOf(d, s, q.tok, "system")
  <2> DEFINE S == ActiveWith(q.tok)
             s == FirstOf(S)
  <2>1. Unwritten /\ CacheAlone /\ accepted' = accepted /\ q.pc = "extend"
    BY <1>1 DEF extend_read, Unwritten, CacheAlone, history
  <2>2. CASE S = {} \/ clock - sessions[s].seen < UpdateGap
    BY <1>1, <2>2, <1>0, <2>1, GoesOn, IdleIs DEF extend_read, Done
  <2>3. CASE ~ (S = {} \/ clock - sessions[s].seen < UpdateGap)
    <3> DEFINE d == [sessions[s] EXCEPT !.seen = clock]
               r == [Idle EXCEPT !.pc = "writeback", !.doc = <<s, d>>]
    <3>1. Go(t, r)
      BY <1>1, <2>3 DEF extend_read
    <3>2. /\ s \in S /\ s \in Nat /\ sessions[s] \in SessDocs /\ sessions[s].library = "system"
          /\ sessions[s].live /\ sessions[s].active /\ sessions[s].token = q.tok
      BY <2>3, ActiveIs
    <3> HIDE DEF s, q
    <3>3. CopyOf(d, s, q.tok, "system")
      BY <1>0, <3>2 DEF CopyOf, SessDocs
    <3>4. <<s, d>> \in Nat \X SessDocs
      BY <3>2, <3>3 DEF CopyOf
    <3>5. r \in SessReqs /\ Writes(r, s, d)
      BY <3>4, IdleIs DEF SessReqs, Writes
    <3>6. d \in SessDocs
      BY <3>3 DEF CopyOf
    <3> HIDE DEF r, d, S
    <3>7. Onward(t, r)
      BY <1>0, <3>1, <3>5, GoesOn
    <3> QED BY <2>1, <3>2, <3>3, <3>5, <3>6, <3>7 DEF S
  <2> QED BY <2>2, <2>3
<1>2. ASSUME NEW k \in DOMAIN tokens, NEW l \in {"default", "system"}, switch_library(t, k, l)
      PROVE /\ clock' = clock /\ sessions' = sessions /\ password' = password /\ Unkilled
            /\ CacheAlone /\ accepted' = accepted
            /\ \E n \in SessTokens : n.user = tokens[k].user /\ tokens' = Append(tokens, n)
            /\ switched' = IF l = "system" THEN switched ELSE switched \cup {Len(tokens) + 1}
            /\ \E r : /\ Onward(t, r)
                      /\ \/ r = Idle
                         \/ \E s \in ActiveWith(k), d \in SessDocs :
                               Writes(r, s, d) /\ CopyOf(d, s, Len(tokens) + 1, l)
  <2> DEFINE S == ActiveWith(k)
             s == FirstOf(S)
             n == [user |-> tokens[k].user, exp |-> clock + 2 * TokenLife]
  <2>1. /\ clock' = clock /\ sessions' = sessions /\ password' = password /\ Unkilled
        /\ CacheAlone /\ accepted' = accepted /\ tokens' = Append(tokens, n)
        /\ switched' = IF l = "system" THEN switched ELSE switched \cup {Len(tokens) + 1}
    BY <1>2 DEF switch_library, Unkilled, CacheAlone, jwt_create_token_pair
  <2>2. n \in SessTokens /\ n.user = tokens[k].user
    <3>1. tokens[k] \in SessTokens
      BY ElementOfSeq DEF SessTypes
    <3>2. TokenLife \in Nat
      BY SessionsAssumption
    <3> QED BY <1>0, <3>1, <3>2 DEF SessTokens
  <2>3. CASE S = {}
    <3>1. Go(t, Idle)
      BY <1>2, <2>3 DEF switch_library, Done
    <3> HIDE DEF n
    <3> QED BY <1>0, <2>1, <2>2, <3>1, GoesOn, IdleIs
  <2>4. CASE S # {}
    <3> DEFINE m == Len(tokens) + 1
               d == [sessions[s] EXCEPT !.token = m, !.library = l]
               r == [Idle EXCEPT !.pc = "writeback", !.doc = <<s, d>>]
    <3>0. m \in Nat
      BY <1>0
    <3>1. Go(t, r)
      BY <1>2, <2>4 DEF switch_library
    <3>2. /\ s \in S /\ s \in Nat /\ sessions[s] \in SessDocs /\ sessions[s].live /\ sessions[s].active
      BY <2>4, ActiveIs
    <3> HIDE DEF s, n, m
    <3>3. CopyOf(d, s, m, l)
      BY <3>0, <3>2 DEF CopyOf, SessDocs
    <3>4. <<s, d>> \in Nat \X SessDocs
      BY <3>2, <3>3 DEF CopyOf
    <3>5. r \in SessReqs /\ Writes(r, s, d)
      BY <3>4, IdleIs DEF SessReqs, Writes
    <3>6. d \in SessDocs
      BY <3>3 DEF CopyOf
    <3> HIDE DEF r, d, S
    <3>7. Onward(t, r)
      BY <1>0, <3>1, <3>5, GoesOn
    <3> QED BY <2>1, <2>2, <3>2, <3>3, <3>5, <3>6, <3>7 DEF S, m
  <2> QED BY <2>3, <2>4
<1> QED BY <1>1, <1>2

\* One session document changes, to d.
Rewritten(s, d) ==
    /\ s \in 1 .. Len(sessions) /\ d \in SessDocs
    /\ sessions' \in Seq(SessDocs) /\ Len(sessions') = Len(sessions) /\ sessions'[s] = d
    /\ \A x \in 1 .. Len(sessions) : x # s => sessions'[x] = sessions[x]

LEMMA Rewrites ==
    ASSUME sessions \in Seq(SessDocs), NEW s \in 1 .. Len(sessions), NEW d \in SessDocs,
           sessions' = [sessions EXCEPT ![s] = d]
    PROVE  Rewritten(s, d)
  BY ExceptSeq DEF Rewritten

\* A login and a refresh sign a token that nobody carries yet.
LEMMA Opens ==
    ASSUME SessTypes, NEW t \in SThreads
    PROVE /\ \A u \in SUsers, pw \in Nat : login(t, u, pw) =>
               /\ clock' = clock /\ sessions' = sessions /\ password' = password /\ Unkilled
               /\ CacheAlone /\ accepted' = accepted /\ switched' = switched
               /\ \E n \in SessTokens : tokens' = Append(tokens, n)
               /\ \E r : /\ Onward(t, r) /\ r.pc = "others" /\ r.tok = 0 /\ r.new = Len(tokens) + 1
                         /\ r.ids = <<>> /\ r.out = FALSE
          /\ \A k \in DOMAIN tokens : token_refresh(t, k) =>
               /\ clock' = clock /\ sessions' = sessions /\ password' = password /\ Unkilled
               /\ CacheAlone /\ accepted' = accepted /\ switched' = switched
               /\ \E n \in SessTokens : tokens' = Append(tokens, n)
               /\ \E r : /\ Onward(t, r) /\ r.pc = "old" /\ r.tok = k /\ r.new = Len(tokens) + 1
                         /\ r.ids = <<>> /\ r.out = FALSE
<1>0. req \in [SThreads -> SessReqs] /\ clock \in Nat /\ Len(tokens) \in Nat /\ TokenLife \in Nat
  BY SessionsAssumption DEF SessTypes
<1>1. ASSUME NEW u \in SUsers, NEW pw \in Nat, login(t, u, pw)
      PROVE  /\ clock' = clock /\ sessions' = sessions /\ password' = password /\ Unkilled
             /\ CacheAlone /\ accepted' = accepted /\ switched' = switched
             /\ \E n \in SessTokens : tokens' = Append(tokens, n)
             /\ \E r : /\ Onward(t, r) /\ r.pc = "others" /\ r.tok = 0 /\ r.new = Len(tokens) + 1
                       /\ r.ids = <<>> /\ r.out = FALSE
  <2> DEFINE m == Len(tokens) + 1
             n == [user |-> u, exp |-> clock + TokenLife]
             r == [Idle EXCEPT !.pc = "others", !.new = m]
  <2>1. /\ clock' = clock /\ sessions' = sessions /\ password' = password /\ Unkilled
        /\ CacheAlone /\ accepted' = accepted /\ switched' = switched
        /\ tokens' = Append(tokens, n) /\ Go(t, r)
    BY <1>1 DEF login, jwt_create_token_pair, Unkilled, CacheAlone, history
  <2>2. n \in SessTokens /\ m \in Nat
    BY <1>0 DEF SessTokens
  <2> HIDE DEF n, m
  <2>3. r \in SessReqs /\ r.pc = "others" /\ r.tok = 0 /\ r.new = m /\ r.ids = <<>> /\ r.out = FALSE
    BY <2>2, IdleIs DEF SessReqs
  <2> HIDE DEF r
  <2>4. Onward(t, r)
    BY <1>0, <2>1, <2>3, GoesOn
  <2> QED BY <2>1, <2>2, <2>3, <2>4 DEF m
<1>2. ASSUME NEW k \in DOMAIN tokens, token_refresh(t, k)
      PROVE  /\ clock' = clock /\ sessions' = sessions /\ password' = password /\ Unkilled
             /\ CacheAlone /\ accepted' = accepted /\ switched' = switched
             /\ \E n \in SessTokens : tokens' = Append(tokens, n)
             /\ \E r : /\ Onward(t, r) /\ r.pc = "old" /\ r.tok = k /\ r.new = Len(tokens) + 1
                       /\ r.ids = <<>> /\ r.out = FALSE
  <2> DEFINE m == Len(tokens) + 1
             n == [user |-> tokens[k].user, exp |-> clock + TokenLife]
             r == [Idle EXCEPT !.pc = "old", !.tok = k, !.new = m]
  <2>1. /\ clock' = clock /\ sessions' = sessions /\ password' = password /\ Unkilled
        /\ CacheAlone /\ accepted' = accepted /\ switched' = switched
        /\ tokens' = Append(tokens, n) /\ Go(t, r)
    BY <1>2 DEF token_refresh, jwt_create_token_pair, Unkilled, CacheAlone, history
  <2>2. n \in SessTokens /\ m \in Nat /\ k \in Nat
    <3>1. tokens[k] \in SessTokens /\ k \in Nat
      BY ElementOfSeq DEF SessTypes
    <3> QED BY <1>0, <3>1 DEF SessTokens
  <2> HIDE DEF n, m
  <2>3. r \in SessReqs /\ r.pc = "old" /\ r.tok = k /\ r.new = m /\ r.ids = <<>> /\ r.out = FALSE
    BY <2>2, IdleIs DEF SessReqs
  <2> HIDE DEF r
  <2>4. Onward(t, r)
    BY <1>0, <2>1, <2>3, GoesOn
  <2> QED BY <2>1, <2>2, <2>3, <2>4 DEF m
<1> QED BY <1>1, <1>2

\* What a step that changes one session leaves alone.
Elsewhere == /\ clock' = clock /\ tokens' = tokens /\ jwtCache' = jwtCache /\ password' = password
             /\ raced' = raced /\ switched' = switched /\ accepted' = accepted
Unmarked  == Unkilled /\ loggedOut' = loggedOut

\* Document d has the owner, the token, the library and the life of session s.
SameSession(d, s) ==
    /\ d.user = sessions[s].user /\ d.token = sessions[s].token /\ d.library = sessions[s].library
    /\ d.live = sessions[s].live

\* A copy is written back over the session, unless that was deleted meanwhile.
LEMMA WritesBack ==
    ASSUME SessTypes, NEW t \in SThreads, write_back(t)
    PROVE  /\ Elsewhere /\ Unmarked /\ req[t].pc = "writeback" /\ Onward(t, Idle)
           /\ \E s \in 1 .. Len(sessions), d \in SessDocs :
                 /\ t \in Holders(s) /\ req[t].doc[1] = s /\ Rewritten(s, d)
                 /\ d.user = sessions[s].user /\ d.copy = sessions[s].copy /\ d.live = sessions[s].live
                 /\ \/ d.token = req[t].doc[2].token /\ d.library = req[t].doc[2].library
                    \/ d.token = sessions[s].token /\ d.library = sessions[s].library
<1> DEFINE q == req[t]
           s == q.doc[1]
           c == q.doc[2]
           d == IF sessions[s].live THEN [c EXCEPT !.copy = sessions[s].copy] ELSE sessions[s]
<1>1. /\ Elsewhere /\ Unmarked /\ q.pc = "writeback" /\ Go(t, Idle)
      /\ sessions' = [sessions EXCEPT ![s] = d]
  BY DEF write_back, Elsewhere, Unmarked, Unkilled, history, Done
<1>2. /\ q \in SessReqs /\ ReqSound(q, tokens, sessions) /\ req \in [SThreads -> SessReqs]
      /\ sessions \in Seq(SessDocs)
  BY DEF SessTypes
<1>3. /\ s \in 1 .. Len(sessions) /\ c \in SessDocs /\ c.user = sessions[s].user /\ c.live
  BY <1>1, <1>2 DEF ReqSound
<1>4. sessions[s] \in SessDocs
  BY <1>2, <1>3, ElementOfSeq
<1>5. t \in Holders(s)
  BY <1>1 DEF Holders
<1> HIDE DEF q, s, c
<1>6. /\ d \in SessDocs /\ d.user = sessions[s].user /\ d.copy = sessions[s].copy /\ d.live = sessions[s].live
      /\ \/ d.token = c.token /\ d.library = c.library
         \/ d.token = sessions[s].token /\ d.library = sessions[s].library
  <2>1. CASE sessions[s].live
    <3> DEFINE e == [c EXCEPT !.copy = sessions[s].copy]
    <3>1. e \in SessDocs /\ e.user = c.user /\ e.live = c.live /\ e.token = c.token /\ e.library = c.library
          /\ e.copy = sessions[s].copy
      BY <1>3, <1>4 DEF SessDocs
    <3>2. d = e
      BY <2>1
    <3>3. e.live = TRUE /\ sessions[s].live = TRUE
      BY <2>1, <1>3, <1>4, <3>1 DEF SessDocs
    <3> HIDE DEF e, d
    <3> QED BY <1>3, <3>1, <3>2, <3>3
  <2>2. CASE ~ sessions[s].live
    BY <1>4, <2>2
  <2> QED BY <2>1, <2>2
<1> HIDE DEF d
<1>7. Rewritten(s, d) /\ Onward(t, Idle)
  BY <1>1, <1>2, <1>3, <1>6, Rewrites, GoesOn, IdleIs
<1> QED BY <1>1, <1>3, <1>5, <1>6, <1>7 DEF q, s, c

\* The one session of the list is invalidated.
LEMMA Kills ==
    ASSUME SessTypes, NEW t \in SThreads, kill(t)
    PROVE  /\ Elsewhere /\ loggedOut' = loggedOut /\ req[t].pc = "kill"
           /\ \E r : Onward(t, r) /\ r.pc = "kill" /\ r.ids = <<>> /\ Keeps(r, req[t])
           /\ \E s \in 1 .. Len(sessions), d \in SessDocs :
                 /\ req[t].ids = <<s>> /\ NoteKilled({s}) /\ Rewritten(s, d)
                 /\ SameSession(d, s) /\ d.copy = sessions[s].copy /\ ~ (d.live /\ d.active)
<1> DEFINE q == req[t]
           s == Head(q.ids)
           r == [q EXCEPT !.ids = Tail(@)]
           d == [sessions[s] EXCEPT !.active = IF sessions[s].live THEN FALSE ELSE @]
<1>1. /\ Elsewhere /\ loggedOut' = loggedOut /\ q.pc = "kill" /\ Go(t, r) /\ q.ids # <<>> /\ NoteKilled({s})
      /\ sessions' = [sessions EXCEPT ![s] = d]
  BY DEF kill, Elsewhere, rbac_db_invalidate_session
<1>2. /\ q \in SessReqs /\ ReqSound(q, tokens, sessions) /\ req \in [SThreads -> SessReqs]
      /\ sessions \in Seq(SessDocs)
  BY DEF SessTypes
<1>3. /\ q.ids \in Seq(Nat) /\ Len(q.ids) <= 1 /\ \A i \in 1 .. Len(q.ids) : q.ids[i] \in 1 .. Len(sessions)
  BY <1>2 DEF ReqSound, SessReqs
<1>4. q.ids = <<s>> /\ Tail(q.ids) = <<>> /\ s \in 1 .. Len(sessions)
  <2> DEFINE i == q.ids
  <2>0. i \in Seq(Nat) /\ i # <<>> /\ Len(i) <= 1
    BY <1>1, <1>3
  <2> HIDE DEF i
  <2>1. Len(i) = 1 /\ <<i[1]>> \in Seq(Nat) /\ Len(<<i[1]>>) = 1 /\ i[1] \in Nat
    <3>1. Len(i) \in Nat \ {0}
      BY <2>0, EmptySeq
    <3>2. Len(i) = 1
      <4>1. \A n \in Nat \ {0} : n <= 1 => n = 1
        OBVIOUS
      <4>2. Len(i) <= 1
        BY <2>0
      <4> QED BY <3>1, <4>1, <4>2
    <3>3. i[1] \in Nat
      BY <2>0, <3>2, ElementOfSeq
    <3> QED BY <3>2, <3>3
  <2>2. i = <<i[1]>>
    BY <2>0, <2>1, SeqEqual
  <2>3. Head(i) = i[1] /\ Tail(i) = <<>>
    <3>1. Tail(i) \in Seq(Nat) /\ Len(Tail(i)) = 0
      BY <2>0, <2>1, HeadTailProperties
    <3>2. Tail(i) = <<>>
      BY <3>1, EmptySeq
    <3> QED BY <2>0, <2>1, <3>2
  <2> QED BY <1>3, <2>1, <2>2, <2>3 DEF i
<1>5. sessions[s] \in SessDocs
  BY <1>2, <1>4, ElementOfSeq
<1> HIDE DEF q, s
<1>6. r \in SessReqs /\ r.pc = q.pc /\ r.ids = <<>> /\ Keeps(r, q)
  <2>1. Tail(q.ids) \in Seq(Nat)
    BY <1>4
  <2> QED BY <1>2, <1>4, <2>1 DEF SessReqs, Keeps
<1>7. d \in SessDocs /\ SameSession(d, s) /\ d.copy = sessions[s].copy /\ ~ (d.live /\ d.active)
  BY <1>5 DEF SessDocs, SameSession
<1> HIDE DEF r, d
<1>8. Rewritten(s, d) /\ Onward(t, r)
  BY <1>1, <1>2, <1>4, <1>6, <1>7, Rewrites, GoesOn
<1> QED BY <1>1, <1>4, <1>6, <1>7, <1>8 DEF q

\* The list is done: the new session is made, or the logout answered.
LEMMA KillEnds ==
    ASSUME SessTypes, NEW t \in SThreads, kill_end(t)
    PROVE  LET q == req[t] IN
           /\ clock' = clock /\ tokens' = tokens /\ jwtCache' = jwtCache /\ password' = password
           /\ Unkilled /\ switched' = switched /\ accepted' = accepted /\ Onward(t, Idle)
           /\ q.pc = "kill" /\ q.ids = <<>>
           /\ loggedOut' = IF q.out THEN loggedOut \cup {q.tok} ELSE loggedOut
           /\ raced' = IF q.out /\ \E o \in SThreads : req[o].pc = "put" /\ req[o].tok = q.tok
                       THEN raced \cup {q.tok} ELSE raced
           /\ \/ q.new = 0 /\ sessions' = sessions
              \/ /\ q.new \in 1 .. Len(tokens) /\ ~ q.out
                 /\ \E d \in SessDocs : /\ sessions' = Append(sessions, d) /\ d.token = q.new /\ d.copy = 0
                                        /\ d.user = tokens[q.new].user
<1> DEFINE q == req[t]
<1>1. /\ clock' = clock /\ tokens' = tokens /\ jwtCache' = jwtCache /\ password' = password
      /\ Unkilled /\ switched' = switched /\ accepted' = accepted /\ Go(t, Idle)
      /\ q.pc = "kill" /\ q.ids = <<>>
      /\ loggedOut' = IF q.out THEN loggedOut \cup {q.tok} ELSE loggedOut
      /\ raced' = IF q.out /\ \E o \in SThreads : req[o].pc = "put" /\ req[o].tok = q.tok
                  THEN raced \cup {q.tok} ELSE raced
  BY DEF kill_end, Unkilled, Done
<1>2. /\ q \in SessReqs /\ ReqSound(q, tokens, sessions) /\ req \in [SThreads -> SessReqs]
      /\ clock \in Nat /\ Len(tokens) \in Nat /\ tokens \in Seq(SessTokens)
  BY DEF SessTypes
<1>3. Onward(t, Idle)
  BY <1>1, <1>2, GoesOn, IdleIs
<1>4. CASE q.new = 0
  BY <1>4, <1>1, <1>3 DEF kill_end
<1>5. CASE q.new # 0
  <2> DEFINE d == [user |-> tokens[q.new].user, token |-> q.new, active |-> TRUE, seen |-> clock,
                   library |-> "system", live |-> TRUE, copy |-> 0]
  <2>1. sessions' = Append(sessions, d)
    BY <1>5 DEF kill_end, rbac_db_create_session
  <2>2. q.new \in 1 .. Len(tokens) /\ ~ q.out
    BY <1>2, <1>5 DEF ReqSound
  <2>3. tokens[q.new] \in SessTokens
    BY <1>2, <2>2, ElementOfSeq
  <2>4. d \in SessDocs
    BY <1>2, <2>2, <2>3 DEF SessDocs, SessTokens
  <2>5. d.token = q.new /\ d.copy = 0 /\ d.user = tokens[q.new].user
    OBVIOUS
  <2> HIDE DEF d, q
  <2>6. \E e \in SessDocs : /\ sessions' = Append(sessions, e) /\ e.token = q.new /\ e.copy = 0
                            /\ e.user = tokens[q.new].user
    BY <2>1, <2>4, <2>5
  <2> QED BY <1>1, <1>3, <2>2, <2>6 DEF q
<1> QED BY <1>4, <1>5

\* The handlers that end a session by its uuid: one takes the token of the copy out of
\* the cache, ...
LEMMA Terminates ==
    ASSUME SessTypes, NEW t \in SThreads, NEW k \in DOMAIN tokens, NEW s \in DOMAIN sessions,
           terminate_session(t, k, s)
    PROVE  /\ Elsewhere /\ Unmarked
           /\ \E d \in SessDocs :
                 /\ Rewritten(s, d) /\ SameSession(d, s) /\ d.active = sessions[s].active
                 /\ d.copy \in 1 .. Len(tokens)
                 /\ \E r : /\ Onward(t, r) /\ r.pc = "uncache" /\ r.tok = d.copy /\ r.new = 0
                           /\ r.ids = <<s>> /\ r.out = FALSE
<1>0. /\ sessions \in Seq(SessDocs) /\ sessions[s] \in SessDocs /\ s \in 1 .. Len(sessions) /\ s \in Nat
      /\ req \in [SThreads -> SessReqs] /\ Len(tokens) \in Nat /\ clock \in Nat
      /\ DocSound(sessions[s], tokens)
  BY ElementOfSeq DEF SessTypes
<1> DEFINE c == IF sessions[s].copy = 0 THEN sessions[s].token ELSE sessions[s].copy
<1>c. c \in 1 .. Len(tokens) /\ c \in Nat
  BY <1>0 DEF DocSound
<1> DEFINE d == [sessions[s] EXCEPT !.copy = c]
           r == [Idle EXCEPT !.pc = "uncache", !.tok = c, !.ids = <<s>>]
<1>1. /\ Elsewhere /\ Unmarked /\ sessions' = [sessions EXCEPT ![s] = d]
      /\ Go(t, [Idle EXCEPT !.pc = "uncache", !.tok = sessions'[s].copy, !.ids = <<s>>])
  BY DEF terminate_session, virtual_get, Elsewhere, Unmarked, Unkilled, history
<1> HIDE DEF c
<1>n. c \in Nat /\ sessions[s] \in SessDocs /\ s \in Nat
  BY <1>0, <1>c
<1>2. d \in SessDocs /\ SameSession(d, s) /\ d.active = sessions[s].active /\ d.copy = c
  BY <1>n DEF SessDocs, SameSession
<1>3. <<s>> \in Seq(Nat)
  BY <1>0
<1>4. r \in SessReqs /\ r.pc = "uncache" /\ r.tok = c /\ r.new = 0 /\ r.ids = <<s>> /\ r.out = FALSE
  BY <1>n, <1>3, IdleIs DEF SessReqs
<1> HIDE DEF d
<1>5. Rewritten(s, d)
  BY <1>0, <1>1, <1>2, Rewrites
<1>6. sessions'[s].copy = c
  BY <1>2, <1>5 DEF Rewritten
<1>7. Go(t, r)
  BY <1>1, <1>6
<1> HIDE DEF r
<1>8. Onward(t, r)
  BY <1>0, <1>4, <1>7, GoesOn
<1> QED BY <1>c, <1>1, <1>2, <1>4, <1>5, <1>8

\* ... one dates the session of its caller, ...
LEMMA AdminTerminates ==
    ASSUME SessTypes, NEW t \in SThreads, NEW k \in DOMAIN tokens, NEW s \in DOMAIN sessions,
           session_terminate(t, k, s)
    PROVE  /\ Elsewhere /\ Unmarked
           /\ \E x \in ActiveWith(k), d \in SessDocs :
                 /\ Rewritten(x, d) /\ SameSession(d, x) /\ d.active = sessions[x].active
                 /\ d.copy = sessions[x].copy
           /\ \E r : /\ Onward(t, r) /\ r.pc = "kill" /\ r.tok = 0 /\ r.new = 0
                     /\ r.ids = <<s>> /\ r.out = FALSE
<1>0. /\ sessions \in Seq(SessDocs) /\ sessions[s] \in SessDocs /\ s \in 1 .. Len(sessions) /\ s \in Nat
      /\ req \in [SThreads -> SessReqs] /\ Len(tokens) \in Nat /\ clock \in Nat
      /\ DocSound(sessions[s], tokens)
  BY ElementOfSeq DEF SessTypes
<1> DEFINE x == FirstOf(ActiveWith(k))
           d == [sessions[x] EXCEPT !.seen = clock]
           r == [Idle EXCEPT !.pc = "kill", !.ids = <<s>>]
<1>1. /\ Elsewhere /\ Unmarked /\ sessions' = [sessions EXCEPT ![x] = d]
      /\ ActiveWith(k) # {} /\ Go(t, r)
  BY DEF session_terminate, rbac_db_validate_session, Elsewhere, Unmarked, Unkilled, history
<1>2. x \in ActiveWith(k) /\ x \in 1 .. Len(sessions) /\ sessions[x] \in SessDocs
  BY <1>1, ActiveIs
<1> HIDE DEF x
<1>3. d \in SessDocs /\ SameSession(d, x) /\ d.active = sessions[x].active /\ d.copy = sessions[x].copy
  BY <1>0, <1>2 DEF SessDocs, SameSession
<1>4. <<s>> \in Seq(Nat)
  BY <1>0
<1>5. r \in SessReqs /\ r.pc = "kill" /\ r.tok = 0 /\ r.new = 0 /\ r.ids = <<s>> /\ r.out = FALSE
  BY <1>0, <1>4, IdleIs DEF SessReqs
<1> HIDE DEF d, r
<1>6. Rewritten(x, d) /\ Onward(t, r)
  BY <1>0, <1>1, <1>2, <1>3, <1>5, Rewrites, GoesOn
<1>7. \E y \in ActiveWith(k), e \in SessDocs :
         /\ Rewritten(y, e) /\ SameSession(e, y) /\ e.active = sessions[y].active
         /\ e.copy = sessions[y].copy
  BY <1>2, <1>3, <1>6
<1> QED BY <1>1, <1>5, <1>6, <1>7

\* ... and one deletes the document.
LEMMA Deletes ==
    ASSUME SessTypes, NEW t \in SThreads, NEW k \in DOMAIN tokens, NEW s \in DOMAIN sessions,
           delete_session(t, k, s)
    PROVE  /\ Elsewhere /\ loggedOut' = loggedOut /\ req' = req /\ NoteKilled({s})
           /\ \E d \in SessDocs :
                 /\ Rewritten(s, d) /\ d.user = sessions[s].user /\ d.token = sessions[s].token
                 /\ d.library = sessions[s].library /\ d.live = FALSE /\ d.copy \in 0 .. Len(tokens)
<1>0. /\ sessions \in Seq(SessDocs) /\ sessions[s] \in SessDocs /\ s \in 1 .. Len(sessions) /\ s \in Nat
      /\ req \in [SThreads -> SessReqs] /\ Len(tokens) \in Nat /\ clock \in Nat
      /\ DocSound(sessions[s], tokens)
  BY ElementOfSeq DEF SessTypes
<1> DEFINE c == IF sessions[s].copy = 0 THEN sessions[s].token ELSE sessions[s].copy
<1>c. c \in 1 .. Len(tokens) /\ c \in Nat
  BY <1>0 DEF DocSound
<1> DEFINE e == [sessions[s] EXCEPT !.live = FALSE]
           d == [e EXCEPT !.copy = c]
           ss == [sessions EXCEPT ![s] = e]
<1>1. /\ Elsewhere /\ loggedOut' = loggedOut /\ req' = req /\ NoteKilled({s})
      /\ sessions' = [sessions EXCEPT ![s].live = FALSE,
                                      ![s].copy = IF @ = 0 THEN sessions[s].token ELSE @]
  BY DEF delete_session, Elsewhere
<1>2. e \in SessDocs /\ e.copy = sessions[s].copy /\ e.user = sessions[s].user
      /\ e.token = sessions[s].token /\ e.library = sessions[s].library /\ e.live = FALSE
  BY <1>0 DEF SessDocs
<1>3. sessions' = [ss EXCEPT ![s].copy = IF @ = 0 THEN sessions[s].token ELSE @]
  BY <1>1
<1> HIDE DEF e
<1>4. ss[s] = e
  BY <1>0
<1>5. sessions' = [ss EXCEPT ![s] = d]
  BY <1>2, <1>3, <1>4
<1>6. [ss EXCEPT ![s] = d] = [sessions EXCEPT ![s] = d]
  OBVIOUS
<1> HIDE DEF c
<1>7. d \in SessDocs /\ d.copy = c /\ d.user = sessions[s].user
      /\ d.token = sessions[s].token /\ d.library = sessions[s].library /\ d.live = FALSE
  BY <1>c, <1>2 DEF SessDocs
<1> HIDE DEF d, ss
<1>8. Rewritten(s, d)
  BY <1>0, <1>5, <1>6, <1>7, Rewrites
<1>9. d.copy \in 0 .. Len(tokens)
  BY <1>0, <1>c, <1>7
<1> QED BY <1>1, <1>7, <1>8, <1>9

\* The types hold after a step that keeps the documents sound and sends each thread
\* to a sound place.
LEMMA TypesKept ==
    ASSUME SessTypes, clock' \in 1 .. MaxClock, tokens' \in Seq(SessTokens), sessions' \in Seq(SessDocs),
           SessGrown(tokens, sessions, tokens', sessions'),
           \A s \in 1 .. Len(sessions') : DocSound(sessions'[s], tokens'),
           password' \in [SUsers -> Nat], req' \in [SThreads -> SessReqs],
           \A t \in SThreads : req'[t] = req[t] \/ ReqSound(req'[t], tokens', sessions'),
           accepted' \in [token : Nat, time : Nat],
           killed' \subseteq 1 .. Len(sessions'), stale' \subseteq killed'
    PROVE  SessTypes'
  BY SessReqsKept DEF SessTypes

\* The documents and the tokens stay, or one token is signed.
LEMMA TypesOfRequest ==
    ASSUME SessTypes, clock' = clock, sessions' = sessions, password' \in [SUsers -> Nat], Unkilled,
           tokens' = tokens \/ \E n \in SessTokens : tokens' = Append(tokens, n),
           accepted' \in [token : Nat, time : Nat], NEW t \in SThreads, NEW r, Onward(t, r),
           ReqSound(r, tokens', sessions)
    PROVE  SessTypes'
<1>1. /\ tokens \in Seq(SessTokens) /\ sessions \in Seq(SessDocs) /\ req \in [SThreads -> SessReqs]
      /\ \A s \in 1 .. Len(sessions) : DocSound(sessions[s], tokens)
      /\ killed \subseteq 1 .. Len(sessions) /\ stale \subseteq killed /\ clock \in 1 .. MaxClock
  BY DEF SessTypes
<1>2. /\ tokens' \in Seq(SessTokens) /\ Len(tokens) <= Len(tokens')
      /\ \A k \in 1 .. Len(tokens) : tokens'[k] = tokens[k]
  <2>1. CASE tokens' = tokens
    BY <1>1, <2>1
  <2>2. ASSUME NEW n \in SessTokens, tokens' = Append(tokens, n) PROVE <1>2
    BY <1>1, <2>2, AppendProperties
  <2> QED BY <2>1, <2>2
<1>3. SessGrown(tokens, sessions, tokens', sessions')
  BY <1>1, <1>2 DEF SessGrown
<1>4. \A s \in 1 .. Len(sessions) : sessions[s] \in SessDocs
  BY <1>1, ElementOfSeq
<1>5. \A s \in 1 .. Len(sessions) : DocSound(sessions[s], tokens')
  BY <1>1, <1>2, <1>3, <1>4, SessReqsKept
<1>6. req' \in [SThreads -> SessReqs] /\ \A o \in SThreads : req'[o] = req[o] \/ ReqSound(req'[o], tokens', sessions')
  BY DEF Onward
<1> QED BY <1>1, <1>2, <1>3, <1>5, <1>6, TypesKept DEF Unkilled

\* One session document changes.
LEMMA TypesOfSession ==
    ASSUME SessTypes, clock' = clock, tokens' = tokens, password' = password, accepted' = accepted,
           NEW s, NEW d, Rewritten(s, d), DocSound(d, tokens), d.user = sessions[s].user,
           req' \in [SThreads -> SessReqs],
           \A t \in SThreads : req'[t] = req[t] \/ ReqSound(req'[t], tokens, sessions),
           killed' \subseteq 1 .. Len(sessions), stale' \subseteq killed'
    PROVE  SessTypes'
<1>1. /\ tokens \in Seq(SessTokens) /\ sessions \in Seq(SessDocs) /\ req \in [SThreads -> SessReqs]
      /\ \A x \in 1 .. Len(sessions) : DocSound(sessions[x], tokens)
      /\ clock \in 1 .. MaxClock /\ password \in [SUsers -> Nat] /\ accepted \in [token : Nat, time : Nat]
  BY DEF SessTypes
<1>2. /\ s \in 1 .. Len(sessions) /\ sessions' \in Seq(SessDocs) /\ Len(sessions') = Len(sessions)
      /\ sessions'[s] = d /\ \A x \in 1 .. Len(sessions) : x # s => sessions'[x] = sessions[x]
  BY DEF Rewritten
<1>3. SessGrown(tokens, sessions, tokens', sessions')
  BY <1>1, <1>2, SMTT(30) DEF SessGrown
<1>4. \A x \in 1 .. Len(sessions') : DocSound(sessions'[x], tokens')
  BY <1>1, <1>2
<1>5. \A r \in SessReqs : ReqSound(r, tokens, sessions) => ReqSound(r, tokens', sessions')
  BY <1>1, <1>2, <1>3, SessReqsKept
<1>6. \A t \in SThreads : req'[t] = req[t] \/ ReqSound(req'[t], tokens', sessions')
  BY <1>5
<1> QED BY <1>1, <1>2, <1>3, <1>4, <1>6, TypesKept

\* What the request of a thread is like.
LEMMA ReqIs ==
    ASSUME SessTypes, NEW t \in SThreads
    PROVE /\ req[t] \in SessReqs /\ ReqSound(req[t], tokens, sessions)
          /\ \A tk \in Seq(SessTokens) : ReqSound(Idle, tk, sessions)
  BY IdleIs DEF ReqSound, SessTypes

\* A place without a copy is sound when its tokens are issued ones.
LEMMA PlaceSound ==
    ASSUME NEW tk \in Seq(SessTokens), NEW ss \in Seq(SessDocs), NEW r \in SessReqs,
           r.pc # "writeback", r.tok \in 0 .. Len(tk), r.new \in 0 .. Len(tk),
           r.ids = <<>> \/ \E s \in 1 .. Len(ss) : r.ids = <<s>>,
           r.pc \in {"lookup", "put", "extend", "old", "uncache", "uncacheUser", "byToken", "passwd"} => r.tok # 0,
           r.pc \in {"others", "old"} => r.new # 0,
           r.new # 0 => r.pc \in {"others", "old", "kill"} /\ ~ r.out,
           r.out => r.tok # 0 /\ r.pc \in {"uncache", "uncacheUser", "byToken", "kill"},
           r.pc \in {"uncacheUser", "byToken"} => r.out,
           r.out /\ r.pc # "kill" => r.ids = <<>>
    PROVE  ReqSound(r, tk, ss)
<1>1. Len(r.ids) <= 1 /\ \A i \in 1 .. Len(r.ids) : r.ids[i] \in 1 .. Len(ss)
  <2>1. CASE r.ids = <<>>
    BY <2>1
  <2>2. ASSUME NEW s \in 1 .. Len(ss), r.ids = <<s>> PROVE <1>1
    BY <2>2
  <2> QED BY <2>1, <2>2
<1> QED BY <1>1 DEF ReqSound

LEMMA CopySound ==
    ASSUME NEW tk \in Seq(SessTokens), sessions \in Seq(SessDocs), NEW r \in SessReqs,
           NEW s \in 1 .. Len(sessions), NEW d, NEW k, NEW l,
           Writes(r, s, d), CopyOf(d, s, k, l), DocSound(d, tk)
    PROVE  ReqSound(r, tk, sessions)
<1>1. Len(r.ids) = 0 /\ Len(tk) \in Nat
  BY DEF Writes
<1>2. r.doc \in (1 .. Len(sessions)) \X SessDocs /\ r.doc[1] = s /\ r.doc[2] = d
  BY DEF Writes, CopyOf
<1>3. r.doc[2].user = sessions[r.doc[1]].user /\ DocSound(r.doc[2], tk) /\ r.doc[2].live /\ r.doc[2].active
  BY <1>2 DEF CopyOf
<1> HIDE DEF DocSound, CopyOf
<1> QED BY <1>1, <1>2, <1>3 DEF ReqSound, Writes

\* The list of a request names one session or none.
LEMMA ListIs ==
    ASSUME SessTypes, NEW t \in SThreads
    PROVE  req[t].ids = <<>> \/ \E s \in 1 .. Len(sessions) : req[t].ids = <<s>>
<1> DEFINE i == req[t].ids
<1>1. i \in Seq(Nat) /\ Len(i) <= 1 /\ \A j \in 1 .. Len(i) : i[j] \in 1 .. Len(sessions)
  BY ReqIs DEF ReqSound, SessReqs
<1> HIDE DEF i
<1>2. CASE i = <<>>
  BY <1>2 DEF i
<1>3. CASE i # <<>>
  <2>1. Len(i) = 1
    <3>1. \A n \in Nat \ {0} : n <= 1 => n = 1
      OBVIOUS
    <3>2. Len(i) \in Nat \ {0}
      BY <1>1, <1>3, EmptySeq
    <3> QED BY <1>1, <3>1, <3>2
  <2>2. i[1] \in 1 .. Len(sessions) /\ i[1] \in Nat
    BY <1>1, <2>1, ElementOfSeq
  <2>3. <<i[1]>> \in Seq(Nat) /\ Len(<<i[1]>>) = 1
    BY <2>2
  <2>4. i = <<i[1]>>
    BY <1>1, <2>1, <2>3, SeqEqual
  <2> QED BY <2>2, <2>4 DEF i
<1> QED BY <1>2, <1>3

\* The requests that only ask, and those that go on over the token cache.
LEMMA TypesOfQueries ==
    ASSUME SessTypes, SessPlaces, NEW t \in SThreads,
           \/ \E k \in DOMAIN tokens : authenticate(t, k) \/ logout(t, k) \/ change_password(t, k)
           \/ lookup(t) \/ login_others(t) \/ refresh_old(t) \/ put(t) \/ uncache_token(t) \/ uncache_user(t)
           \/ rbac_db_invalidate_sessions_by_token(t) \/ change_password_write(t)
    PROVE  SessTypes'
<1> DEFINE q == req[t]
<1>1. /\ tokens \in Seq(SessTokens) /\ sessions \in Seq(SessDocs) /\ DOMAIN tokens = 1 .. Len(tokens)
      /\ Len(tokens) \in Nat /\ clock \in Nat /\ accepted \in [token : Nat, time : Nat]
      /\ password \in [SUsers -> Nat]
  BY DEF SessTypes
<1>2. /\ q \in SessReqs /\ ReqSound(q, tokens, sessions) /\ ReqSound(Idle, tokens, sessions)
      /\ (q.ids = <<>> \/ \E s \in 1 .. Len(sessions) : q.ids = <<s>>)
  BY <1>1, ReqIs, ListIs
<1>3. q.tok \in 0 .. Len(tokens) /\ q.new \in 0 .. Len(tokens) /\ q.tok \in Nat
  BY <1>1, <1>2 DEF ReqSound
<1>4. \A k \in Nat : [token |-> k, time |-> clock] \in [token : Nat, time : Nat]
  BY <1>1
<1>5. ASSUME NEW r, Onward(t, r), clock' = clock, sessions' = sessions, tokens' = tokens, Unkilled,
             password' \in [SUsers -> Nat], accepted' \in [token : Nat, time : Nat],
             ReqSound(r, tokens, sessions)
      PROVE  SessTypes'
  <2>1. ReqSound(r, tokens', sessions)
    BY <1>5
  <2> HIDE DEF Onward, Unkilled, ReqSound, q
  <2> QED BY <1>5, <2>1, TypesOfRequest
<1>6. ASSUME NEW k \in DOMAIN tokens, authenticate(t, k) \/ logout(t, k) \/ change_password(t, k) PROVE SessTypes'
  <2>1. ASSUME NEW r, Onward(t, r), r.tok = k, r.new = 0, r.ids = <<>>, r.pc \in {"extend", "lookup", "passwd", "uncache"},
               r.out => r.pc = "uncache"
        PROVE  ReqSound(r, tokens, sessions)
    <3>1. k \in 0 .. Len(tokens) /\ k # 0 /\ 0 \in 0 .. Len(tokens)
      BY <1>1
    <3>2. r \in SessReqs
      BY <2>1 DEF Onward
    <3> QED BY <1>1, <2>1, <3>1, <3>2, PlaceSound
  <2>2. CASE authenticate(t, k)
    <3>1. PICK r : /\ Onward(t, r) /\ r.tok = k /\ r.new = 0 /\ r.ids = <<>> /\ r.out = FALSE
                   /\ \/ r.pc = "extend" /\ jwt_cache_get(k) /\ accepted' = [token |-> k, time |-> clock]
                      \/ r.pc = "lookup" /\ accepted' = accepted
      BY <2>2, Asks, ZenonT(40)
    <3>2. Unwritten
      BY <2>2, Asks
    <3>3. accepted' \in [token : Nat, time : Nat]
      BY <1>1, <1>4, <3>1
    <3> QED BY <1>1, <1>5, <2>1, <3>1, <3>2, <3>3 DEF Unwritten, Unkilled
  <2>3. CASE logout(t, k)
    <3>1. PICK r : /\ Onward(t, r) /\ r.tok = k /\ r.new = 0 /\ r.ids = <<>> /\ r.out = TRUE
                   /\ r.pc = "uncache" /\ ActiveWith(k) # {}
      BY <2>3, Asks, ZenonT(40)
    <3>2. Unwritten /\ accepted' = accepted
      BY <2>3, Asks
    <3> QED BY <1>1, <1>5, <2>1, <3>1, <3>2 DEF Unwritten, Unkilled
  <2>4. CASE change_password(t, k)
    <3>1. PICK r : /\ Onward(t, r) /\ r.tok = k /\ r.new = 0 /\ r.ids = <<>> /\ r.out = FALSE /\ r.pc = "passwd"
      BY <2>4, Asks, ZenonT(40)
    <3>2. Unwritten /\ accepted' = accepted
      BY <2>4, Asks
    <3> QED BY <1>1, <1>5, <2>1, <3>1, <3>2 DEF Unwritten, Unkilled
  <2> QED BY <1>6, <2>2, <2>3, <2>4
<1>7. CASE lookup(t)
  <2>1. PICK r : /\ Onward(t, r)
                 /\ \/ r = Idle /\ accepted' = accepted
                    \/ r.pc = "put" /\ r.ids = q.ids /\ Keeps(r, q) /\ accepted' = [token |-> q.tok, time |-> clock]
    BY <1>7, Looks
  <2>2. Unwritten /\ q.pc = "lookup"
    BY <1>7, Looks
  <2>3. ReqSound(r, tokens, sessions) /\ accepted' \in [token : Nat, time : Nat]
    <3>1. CASE r = Idle /\ accepted' = accepted
      BY <1>1, <1>2, <3>1
    <3>2. CASE r.pc = "put" /\ r.ids = q.ids /\ Keeps(r, q) /\ accepted' = [token |-> q.tok, time |-> clock]
      <4>1. accepted' \in [token : Nat, time : Nat]
        BY <1>3, <1>4, <3>2
      <4>2. q.tok # 0 /\ q.new = 0 /\ ~ q.out
        BY <1>2, <2>2 DEF ReqSound
      <4>3. r \in SessReqs /\ r.tok = q.tok /\ r.new = q.new /\ r.out = q.out
        BY <2>1, <3>2 DEF Onward, Keeps
      <4> HIDE DEF q
      <4> QED BY <1>1, <1>2, <1>3, <3>2, <4>1, <4>2, <4>3, PlaceSound
    <3> QED BY <2>1, <3>1, <3>2
  <2> QED BY <1>1, <1>5, <2>1, <2>2, <2>3 DEF Unwritten, Unkilled
<1>8. CASE login_others(t) \/ refresh_old(t)
  <2>1. PICK r : /\ Onward(t, r) /\ r.pc = "kill" /\ Keeps(r, q)
                 /\ (r.ids = <<>> \/ \E s \in 1 .. Len(sessions) : r.ids = <<s>>)
    BY <1>8, Looks
  <2>2. Unwritten /\ accepted' = accepted /\ q.pc \in {"others", "old"}
    BY <1>8, Looks
  <2>3. q.new # 0 /\ ~ q.out
    BY <1>2, <2>2 DEF ReqSound
  <2>4. r \in SessReqs /\ r.tok = q.tok /\ r.new = q.new /\ r.out = q.out
    BY <2>1 DEF Onward, Keeps
  <2> HIDE DEF q
  <2>5. ReqSound(r, tokens, sessions)
    BY <1>1, <1>3, <2>1, <2>3, <2>4, PlaceSound
  <2> QED BY <1>1, <1>5, <2>1, <2>2, <2>5 DEF Unwritten, Unkilled
<1>9. CASE put(t) \/ uncache_token(t) \/ uncache_user(t)
  <2>1. PICK r : /\ Onward(t, r) /\ r.ids = q.ids /\ Keeps(r, q)
                 /\ \/ r.pc = "extend" /\ q.pc = "put"
                    \/ r.pc = (IF q.out THEN "uncacheUser" ELSE "kill") /\ q.pc = "uncache"
                    \/ r.pc = "byToken" /\ q.pc = "uncacheUser"
    BY <1>9, Uncaches
  <2>2. Unwritten /\ accepted' = accepted
    BY <1>9, Uncaches
  <2>3. q.tok # 0 /\ q.new = 0 /\ (q.out => q.pc # "put") /\ (q.pc = "uncacheUser" => q.out /\ q.ids = <<>>)
    BY <1>2, <2>1 DEF ReqSound
  <2>5. q.pc = "uncache" /\ q.out => q.ids = <<>>
    BY <1>2 DEF ReqSound
  <2>4. r \in SessReqs /\ r.tok = q.tok /\ r.new = q.new /\ r.out = q.out
    BY <2>1 DEF Onward, Keeps
  <2> HIDE DEF q
  <2>6. ReqSound(r, tokens, sessions)
    BY <1>1, <1>2, <1>3, <2>1, <2>3, <2>4, <2>5, PlaceSound
  <2> QED BY <1>1, <1>5, <2>1, <2>2, <2>6 DEF Unwritten, Unkilled
<1>10. CASE rbac_db_invalidate_sessions_by_token(t)
  <2>1. PICK r : /\ Onward(t, r)
                 /\ r = Idle \/ \E s \in ActiveWith(q.tok) : r.pc = "kill" /\ Keeps(r, q) /\ r.ids = <<s>>
    BY <1>10, Uncaches
  <2>2. Unwritten /\ accepted' = accepted /\ q.pc = "byToken"
    BY <1>10, Uncaches
  <2>3. CASE r = Idle
    BY <1>1, <1>2, <1>5, <2>1, <2>2, <2>3 DEF Unwritten, Unkilled
  <2>4. ASSUME NEW s \in ActiveWith(q.tok), r.pc = "kill", Keeps(r, q), r.ids = <<s>> PROVE SessTypes'
    <3>1. s \in 1 .. Len(sessions)
      BY ActiveIs
    <3>2. q.tok # 0 /\ q.new = 0
      BY <1>2, <2>2 DEF ReqSound
    <3>3. r \in SessReqs /\ r.tok = q.tok /\ r.new = q.new
      BY <2>1, <2>4 DEF Onward, Keeps
    <3> HIDE DEF q
    <3>4. ReqSound(r, tokens, sessions)
      BY <1>1, <1>3, <2>4, <3>1, <3>2, <3>3, PlaceSound
    <3> QED BY <1>1, <1>5, <2>1, <2>2, <3>4 DEF Unwritten, Unkilled
  <2> QED BY <2>1, <2>3, <2>4
<1>11. CASE change_password_write(t)
  BY <1>1, <1>2, <1>5, <1>11, Uncaches DEF Unkilled
<1> QED BY <1>6, <1>7, <1>8, <1>9, <1>10, <1>11

\* The requests that sign a token.
LEMMA TypesOfTokens ==
    ASSUME SessTypes, NEW t \in SThreads,
           \/ extend_read(t)
           \/ \E u \in SUsers, pw \in Nat : login(t, u, pw)
           \/ \E k \in DOMAIN tokens : token_refresh(t, k) \/ \E l \in {"default", "system"} : switch_library(t, k, l)
    PROVE  SessTypes'
<1> DEFINE q == req[t]
           m == Len(tokens) + 1
<1>1. /\ tokens \in Seq(SessTokens) /\ sessions \in Seq(SessDocs) /\ DOMAIN tokens = 1 .. Len(tokens)
      /\ Len(tokens) \in Nat /\ accepted \in [token : Nat, time : Nat] /\ password \in [SUsers -> Nat]
      /\ \A s \in 1 .. Len(sessions) : DocSound(sessions[s], tokens)
  BY DEF SessTypes
<1>2. /\ q \in SessReqs /\ ReqSound(q, tokens, sessions)
      /\ \A tk \in Seq(SessTokens) : ReqSound(Idle, tk, sessions)
  BY ReqIs
<1>3. ASSUME NEW n \in SessTokens, tokens' = Append(tokens, n)
      PROVE  /\ tokens' \in Seq(SessTokens) /\ Len(tokens') = m /\ tokens'[m] = n /\ m \in Nat
             /\ \A k \in 1 .. Len(tokens) : tokens'[k] = tokens[k] /\ k \in 1 .. Len(tokens')
             /\ m \in 1 .. Len(tokens') /\ 0 \in 0 .. Len(tokens')
  BY <1>1, <1>3, AppendProperties
<1>4. CASE extend_read(t)
  <2>1. Unwritten /\ accepted' = accepted /\ q.pc = "extend"
    BY <1>4, Copies
  <2>2. PICK r : /\ Onward(t, r)
                 /\ \/ r = Idle
                    \/ \E s \in ActiveWith(q.tok), d \in SessDocs :
                          Writes(r, s, d) /\ CopyOf(d, s, q.tok, "system")
    BY <1>4, Copies
  <2>3. CASE r = Idle
    BY <1>1, <1>2, <2>1, <2>2, <2>3, TypesOfRequest DEF Unwritten, Unkilled
  <2>4. ASSUME NEW s \in ActiveWith(q.tok), NEW d \in SessDocs, Writes(r, s, d), CopyOf(d, s, q.tok, "system")
        PROVE  SessTypes'
    <3>1. s \in 1 .. Len(sessions) /\ sessions[s].token = q.tok
      BY ActiveIs
    <3>2. DocSound(d, tokens)
      BY <1>1, <2>4, <3>1 DEF DocSound, CopyOf
    <3>3. r \in SessReqs
      BY <2>2 DEF Onward
    <3> HIDE DEF q
    <3>4. ReqSound(r, tokens, sessions)
      BY <1>1, <2>4, <3>1, <3>2, <3>3, CopySound
    <3>5. tokens' = tokens /\ clock' = clock /\ sessions' = sessions /\ password' = password /\ Unkilled
      BY <2>1 DEF Unwritten, Unkilled
    <3>6. ReqSound(r, tokens', sessions)
      BY <3>4, <3>5
    <3> QED BY <1>1, <2>1, <2>2, <3>5, <3>6, TypesOfRequest
  <2> QED BY <2>2, <2>3, <2>4
<1>5. ASSUME clock' = clock, sessions' = sessions, password' = password, Unkilled, accepted' = accepted,
             NEW n \in SessTokens, tokens' = Append(tokens, n), NEW r, Onward(t, r), ReqSound(r, tokens', sessions)
      PROVE  SessTypes'
  BY <1>1, <1>5, TypesOfRequest
<1>6. ASSUME NEW n \in SessTokens, tokens' = Append(tokens, n), NEW r, Onward(t, r), r.pc \in {"others", "old"},
             r.tok \in 0 .. Len(tokens), r.pc = "old" => r.tok # 0, r.new = m, r.ids = <<>>, r.out = FALSE
      PROVE  ReqSound(r, tokens', sessions)
  <2>1. r \in SessReqs
    BY <1>6 DEF Onward
  <2>2. /\ r.tok \in 0 .. Len(tokens') /\ r.new \in 0 .. Len(tokens') /\ r.new # 0 /\ tokens' \in Seq(SessTokens)
        /\ r.pc # "writeback"
    BY <1>1, <1>3, <1>6
  <2> QED BY <1>1, <1>6, <2>1, <2>2, PlaceSound
<1>7. ASSUME NEW u \in SUsers, NEW pw \in Nat, login(t, u, pw) PROVE SessTypes'
  <2>1. PICK n \in SessTokens : tokens' = Append(tokens, n)
    BY <1>7, Opens
  <2>2. PICK r : /\ Onward(t, r) /\ r.pc = "others" /\ r.tok = 0 /\ r.new = Len(tokens) + 1
                 /\ r.ids = <<>> /\ r.out = FALSE
    BY <1>7, Opens
  <2>3. clock' = clock /\ sessions' = sessions /\ password' = password /\ Unkilled /\ accepted' = accepted
    BY <1>7, Opens
  <2>4. r.pc \in {"others", "old"} /\ r.tok \in 0 .. Len(tokens) /\ (r.pc = "old" => r.tok # 0)
    BY <1>1, <2>2
  <2>5. ReqSound(r, tokens', sessions)
    BY <1>6, <2>1, <2>2, <2>4
  <2> QED BY <1>5, <2>1, <2>2, <2>3, <2>5
<1>8. ASSUME NEW k \in DOMAIN tokens, token_refresh(t, k) PROVE SessTypes'
  <2>1. PICK n \in SessTokens : tokens' = Append(tokens, n)
    BY <1>8, Opens
  <2>2. PICK r : /\ Onward(t, r) /\ r.pc = "old" /\ r.tok = k /\ r.new = Len(tokens) + 1
                 /\ r.ids = <<>> /\ r.out = FALSE
    BY <1>8, Opens
  <2>3. clock' = clock /\ sessions' = sessions /\ password' = password /\ Unkilled /\ accepted' = accepted
    BY <1>8, Opens
  <2>4. r.pc \in {"others", "old"} /\ r.tok \in 0 .. Len(tokens) /\ (r.pc = "old" => r.tok # 0)
    BY <1>1, <2>2
  <2>5. ReqSound(r, tokens', sessions)
    BY <1>6, <2>1, <2>2, <2>4
  <2> QED BY <1>5, <2>1, <2>2, <2>3, <2>5
<1>9. ASSUME NEW k \in DOMAIN tokens, NEW l \in {"default", "system"}, switch_library(t, k, l) PROVE SessTypes'
  <2>1. PICK n \in SessTokens : n.user = tokens[k].user /\ tokens' = Append(tokens, n)
    BY <1>9, Copies
  <2>2. PICK r : /\ Onward(t, r)
                 /\ \/ r = Idle
                    \/ \E s \in ActiveWith(k), d \in SessDocs :
                          Writes(r, s, d) /\ CopyOf(d, s, Len(tokens) + 1, l)
    BY <1>9, Copies
  <2>3. clock' = clock /\ sessions' = sessions /\ password' = password /\ Unkilled /\ accepted' = accepted
    BY <1>9, Copies
  <2>4. CASE r = Idle
    BY <1>2, <1>3, <1>5, <2>1, <2>2, <2>3, <2>4
  <2>5. ASSUME NEW s \in ActiveWith(k), NEW d \in SessDocs, Writes(r, s, d), CopyOf(d, s, m, l)
        PROVE  SessTypes'
    <3>1. s \in 1 .. Len(sessions) /\ sessions[s].token = k
      BY ActiveIs
    <3>2. sessions[s].user = tokens[k].user /\ sessions[s].copy \in 0 .. Len(tokens)
      BY <1>1, <3>1 DEF DocSound
    <3>3. DocSound(d, tokens')
      BY <2>5, <1>1, <1>3, <2>1, <3>2 DEF CopyOf, DocSound
    <3>4. r \in SessReqs
      BY <2>2 DEF Onward
    <3> HIDE DEF m
    <3>5. ReqSound(r, tokens', sessions)
      BY <1>1, <1>3, <2>1, <2>5, <3>1, <3>3, <3>4, CopySound
    <3> QED BY <1>5, <2>1, <2>2, <2>3, <3>5
  <2> QED BY <2>2, <2>4, <2>5
<1> QED BY <1>4, <1>7, <1>8, <1>9

\* What NoteKilled adds to the histories.
LEMMA NotesIn ==
    ASSUME killed \subseteq 1 .. Len(sessions), stale \subseteq killed, NEW s \in 1 .. Len(sessions), NoteKilled({s})
    PROVE  /\ killed' = killed \cup {s} /\ killed' \subseteq 1 .. Len(sessions) /\ stale' \subseteq killed'
           /\ stale \subseteq stale' /\ stale' \subseteq stale \cup {s}
           /\ s \in stale' \/ Holders(s) = {}
<1> DEFINE H == {x \in {s} : Holders(x) # {}}
<1>1. killed' = killed \cup {s} /\ stale' = stale \cup H
  BY DEF NoteKilled
<1>2. H \subseteq {s} /\ (s \in H \/ Holders(s) = {})
  OBVIOUS
<1> HIDE DEF H
<1> QED BY <1>1, <1>2

\* The steps that write a session document.
LEMMA TypesOfWrites ==
    ASSUME SessTypes, NEW t \in SThreads,
           \/ write_back(t) \/ kill(t)
           \/ \E k \in DOMAIN tokens, s \in DOMAIN sessions :
                 terminate_session(t, k, s) \/ session_terminate(t, k, s) \/ delete_session(t, k, s)
    PROVE  SessTypes'
<1> DEFINE q == req[t]
<1>1. /\ tokens \in Seq(SessTokens) /\ sessions \in Seq(SessDocs) /\ DOMAIN tokens = 1 .. Len(tokens)
      /\ DOMAIN sessions = 1 .. Len(sessions)
      /\ Len(tokens) \in Nat /\ Len(sessions) \in Nat /\ req \in [SThreads -> SessReqs]
      /\ \A s \in 1 .. Len(sessions) : DocSound(sessions[s], tokens)
      /\ killed \subseteq 1 .. Len(sessions) /\ stale \subseteq killed
  BY DEF SessTypes
<1>2. q \in SessReqs /\ ReqSound(q, tokens, sessions) /\ ReqSound(Idle, tokens, sessions)
  BY <1>1, ReqIs
<1>3. ASSUME NEW r, Onward(t, r), ReqSound(r, tokens, sessions)
      PROVE  /\ req' \in [SThreads -> SessReqs]
             /\ \A o \in SThreads : req'[o] = req[o] \/ ReqSound(req'[o], tokens, sessions)
  BY <1>3 DEF Onward
<1>4. ASSUME NEW s \in 1 .. Len(sessions), NEW d, d.user = sessions[s].user, d.token = sessions[s].token,
             d.copy \in 0 .. Len(tokens)
      PROVE  DocSound(d, tokens)
  BY <1>1, <1>4 DEF DocSound
<1>5. \A s \in 1 .. Len(sessions) : sessions[s].copy \in 0 .. Len(tokens)
  BY <1>1 DEF DocSound
<1>6. CASE write_back(t)
  <2>1. Elsewhere /\ Unmarked /\ Onward(t, Idle) /\ q.pc = "writeback"
    BY <1>6, WritesBack
  <2>2. PICK s \in 1 .. Len(sessions), d \in SessDocs :
                 /\ t \in Holders(s) /\ req[t].doc[1] = s /\ Rewritten(s, d)
                 /\ d.user = sessions[s].user /\ d.copy = sessions[s].copy /\ d.live = sessions[s].live
                 /\ \/ d.token = req[t].doc[2].token /\ d.library = req[t].doc[2].library
                    \/ d.token = sessions[s].token /\ d.library = sessions[s].library
    BY <1>6, WritesBack
  <2>3. DocSound(q.doc[2], tokens) /\ q.doc[2].user = sessions[s].user
    BY <1>2, <2>1, <2>2 DEF ReqSound
  <2>4. DocSound(d, tokens)
    BY <1>5, <2>2, <2>3, <1>4 DEF DocSound
  <2> QED BY <1>1, <1>2, <1>3, <2>1, <2>2, <2>4, TypesOfSession DEF Elsewhere, Unmarked, Unkilled
<1>7. CASE kill(t)
  <2>1. PICK r : Onward(t, r) /\ r.pc = "kill" /\ r.ids = <<>> /\ Keeps(r, q)
    BY <1>7, Kills
  <2>2. PICK s \in 1 .. Len(sessions), d \in SessDocs :
                 /\ q.ids = <<s>> /\ NoteKilled({s}) /\ Rewritten(s, d)
                 /\ SameSession(d, s) /\ d.copy = sessions[s].copy /\ ~ (d.live /\ d.active)
    BY <1>7, Kills
  <2>3. Elsewhere /\ q.pc = "kill"
    BY <1>7, Kills
  <2>4. r \in SessReqs /\ r.tok = q.tok /\ r.new = q.new /\ r.out = q.out
    BY <2>1 DEF Onward, Keeps
  <2>5. r.tok \in 0 .. Len(tokens) /\ r.new \in 0 .. Len(tokens) /\ (r.out => r.tok # 0) /\ (r.new # 0 => ~ r.out)
    BY <1>2, <2>4 DEF ReqSound
  <2>6. ReqSound(r, tokens, sessions)
    <3> HIDE DEF q
    <3> QED BY <1>1, <2>1, <2>4, <2>5, PlaceSound
  <2>7. DocSound(d, tokens) /\ d.user = sessions[s].user
    BY <1>4, <1>5, <2>2 DEF SameSession
  <2>8. killed' \subseteq 1 .. Len(sessions) /\ stale' \subseteq killed'
    BY <1>1, <2>2, NotesIn
  <2> QED BY <1>3, <2>1, <2>2, <2>3, <2>6, <2>7, <2>8, TypesOfSession DEF Elsewhere
<1>8. ASSUME NEW k \in DOMAIN tokens, NEW s \in DOMAIN sessions, terminate_session(t, k, s) PROVE SessTypes'
  <2>1. PICK d \in SessDocs :
                     /\ Rewritten(s, d) /\ SameSession(d, s) /\ d.active = sessions[s].active
                     /\ d.copy \in 1 .. Len(tokens)
                     /\ \E r : /\ Onward(t, r) /\ r.pc = "uncache" /\ r.tok = d.copy /\ r.new = 0
                               /\ r.ids = <<s>> /\ r.out = FALSE
    BY <1>8, Terminates
  <2>2. PICK r : /\ Onward(t, r) /\ r.pc = "uncache" /\ r.tok = d.copy /\ r.new = 0
                 /\ r.ids = <<s>> /\ r.out = FALSE
    BY <2>1
  <2>3. Elsewhere /\ Unmarked
    BY <1>8, Terminates
  <2>4. r.tok \in 0 .. Len(tokens) /\ r.tok # 0 /\ 0 \in 0 .. Len(tokens) /\ d.copy \in 0 .. Len(tokens)
    BY <1>1, <2>1, <2>2
  <2>5. ReqSound(r, tokens, sessions)
    BY <2>2, <1>1, <2>4, PlaceSound DEF Onward
  <2>6. DocSound(d, tokens) /\ d.user = sessions[s].user
    BY <1>1, <1>4, <2>1, <2>4 DEF SameSession
  <2> QED BY <1>1, <1>3, <2>1, <2>2, <2>3, <2>5, <2>6, TypesOfSession DEF Elsewhere, Unmarked, Unkilled
<1>9. ASSUME NEW k \in DOMAIN tokens, NEW s \in DOMAIN sessions, session_terminate(t, k, s) PROVE SessTypes'
  <2>1. PICK x \in ActiveWith(k), d \in SessDocs :
                     /\ Rewritten(x, d) /\ SameSession(d, x) /\ d.active = sessions[x].active
                     /\ d.copy = sessions[x].copy
    BY <1>9, AdminTerminates
  <2>2. PICK r : /\ Onward(t, r) /\ r.pc = "kill" /\ r.tok = 0 /\ r.new = 0
                 /\ r.ids = <<s>> /\ r.out = FALSE
    BY <1>9, AdminTerminates
  <2>3. Elsewhere /\ Unmarked
    BY <1>9, AdminTerminates
  <2>4. 0 \in 0 .. Len(tokens) /\ x \in 1 .. Len(sessions)
    BY <1>1, ActiveIs
  <2>5. ReqSound(r, tokens, sessions)
    BY <2>2, <1>1, <2>4, PlaceSound DEF Onward
  <2>6. DocSound(d, tokens) /\ d.user = sessions[x].user
    BY <1>4, <1>5, <2>1, <2>4 DEF SameSession
  <2> QED BY <1>1, <1>3, <2>1, <2>2, <2>3, <2>5, <2>6, TypesOfSession DEF Elsewhere, Unmarked, Unkilled
<1>10. ASSUME NEW k \in DOMAIN tokens, NEW s \in DOMAIN sessions, delete_session(t, k, s) PROVE SessTypes'
  <2>1. PICK d \in SessDocs :
                     /\ Rewritten(s, d) /\ d.user = sessions[s].user /\ d.token = sessions[s].token
                     /\ d.library = sessions[s].library /\ d.live = FALSE /\ d.copy \in 0 .. Len(tokens)
    BY <1>10, Deletes
  <2>2. Elsewhere /\ req' = req /\ NoteKilled({s})
    BY <1>10, Deletes
  <2>3. DocSound(d, tokens)
    BY <1>1, <1>4, <2>1
  <2>4. killed' \subseteq 1 .. Len(sessions) /\ stale' \subseteq killed'
    BY <1>1, <2>2, NotesIn
  <2> QED BY <1>1, <2>1, <2>2, <2>3, <2>4, TypesOfSession DEF Elsewhere
<1> QED BY <1>6, <1>7, <1>8, <1>9, <1>10

LEMMA TypesOfEnd ==
    ASSUME SessTypes, NEW t \in SThreads, kill_end(t)
    PROVE  SessTypes'
<1> DEFINE q == req[t]
<1>1. /\ tokens \in Seq(SessTokens) /\ sessions \in Seq(SessDocs) /\ Len(tokens) \in Nat /\ Len(sessions) \in Nat
      /\ \A s \in 1 .. Len(sessions) : DocSound(sessions[s], tokens)
      /\ killed \subseteq 1 .. Len(sessions) /\ stale \subseteq killed /\ clock \in 1 .. MaxClock
      /\ password \in [SUsers -> Nat] /\ accepted \in [token : Nat, time : Nat]
  BY DEF SessTypes
<1>2. clock' = clock /\ tokens' = tokens /\ password' = password /\ Unkilled /\ accepted' = accepted /\ Onward(t, Idle)
  BY KillEnds
<1>3. ReqSound(Idle, tokens, sessions)
  BY <1>1, ReqIs
<1>4. CASE sessions' = sessions
  BY <1>1, <1>2, <1>3, <1>4, TypesOfRequest
<1>5. ASSUME NEW d \in SessDocs, sessions' = Append(sessions, d), q.new \in 1 .. Len(tokens),
             d.token = q.new, d.copy = 0, d.user = tokens[q.new].user
      PROVE  SessTypes'
  <2>1. /\ sessions' \in Seq(SessDocs) /\ Len(sessions') = Len(sessions) + 1
        /\ \A s \in 1 .. Len(sessions) : sessions'[s] = sessions[s]
        /\ sessions'[Len(sessions) + 1] = d
    BY <1>1, <1>5, AppendProperties
  <2>2. DocSound(d, tokens)
    BY <1>1, <1>5 DEF DocSound
  <2>3. SessGrown(tokens, sessions, tokens', sessions')
    BY <1>1, <1>2, <2>1 DEF SessGrown
  <2>4. \A s \in 1 .. Len(sessions') : DocSound(sessions'[s], tokens')
    <3> SUFFICES ASSUME NEW s \in 1 .. Len(sessions') PROVE DocSound(sessions'[s], tokens)
      BY <1>2
    <3>1. CASE s \in 1 .. Len(sessions)
      BY <1>1, <2>1, <3>1
    <3>2. CASE s = Len(sessions) + 1
      BY <2>1, <2>2, <3>2
    <3> QED BY <1>1, <2>1, <3>1, <3>2
  <2>5. ReqSound(Idle, tokens', sessions')
    BY IdleIs, <1>1, <1>2, <1>3, <2>1, <2>3, SessReqsKept
  <2>6. req' \in [SThreads -> SessReqs] /\ \A o \in SThreads : req'[o] = req[o] \/ ReqSound(req'[o], tokens', sessions')
    BY <1>2, <2>5 DEF Onward
  <2>7. killed' \subseteq 1 .. Len(sessions') /\ stale' \subseteq killed'
    BY <1>1, <1>2, <2>1 DEF Unkilled
  <2> QED BY <1>1, <1>2, <2>1, <2>3, <2>4, <2>6, <2>7, TypesKept
<1> QED BY <1>4, <1>5, KillEnds

\* The tokens that are carried were issued before.
LEMMA Carried ==
    ASSUME SessTypes
    PROVE /\ Len(tokens) \in Nat /\ Len(sessions) \in Nat
          /\ \A x, k \in Nat : Carries(x, k) => k \in 1 .. Len(tokens) /\ x \in 1 .. Len(sessions)
          /\ \A o \in SThreads : req[o].new \in 0 .. Len(tokens) /\ req[o].tok \in 0 .. Len(tokens)
  BY ReqIs DEF SessTypes, DocSound, ReqSound, Carries

\* A step gives at most one token to one session, a token that no session had.
Spreads(n, y) ==
    /\ \A x, k \in Nat : Carries(x, k)' => Carries(x, k) \/ (k = n /\ x = y)
    /\ \A x \in Nat : ~ Carries(x, n)
    /\ \A o \in SThreads : req'[o].new \in {0, req[o].new, Len(tokens) + 1} /\ (n # 0 => req'[o].new # n)
    /\ \A o, p \in SThreads : req'[o].new = Len(tokens) + 1 /\ req'[p].new = Len(tokens) + 1 => o = p
    /\ n \in 1 .. Len(tokens) => \E o \in SThreads : req[o].new = n

LEMMA PlacesKept ==
    ASSUME SessTypes, SessPlaces, NEW n \in Nat, NEW y \in Nat, Spreads(n, y)
    PROVE  SessPlaces'
<1>1. ASSUME NEW k \in Nat, NEW x \in Nat, NEW z \in Nat, Carries(x, k)', Carries(z, k)' PROVE x = z
  BY <1>1 DEF Spreads, SessPlaces
<1>2. ASSUME NEW t \in SThreads, NEW k \in Nat, req'[t].new = k, k # 0, NEW x \in Nat, Carries(x, k)' PROVE FALSE
  <2>1. Carries(x, k)
    BY <1>2 DEF Spreads
  <2>2. k # Len(tokens) + 1
    BY <2>1, Carried
  <2>3. k = req[t].new
    BY <1>2, <2>2 DEF Spreads
  <2> QED BY <1>2, <2>1, <2>3 DEF SessPlaces
<1>3. ASSUME NEW t \in SThreads, NEW o \in SThreads, req'[t].new # 0, req'[t].new = req'[o].new PROVE t = o
  BY <1>3 DEF Spreads, SessPlaces
<1> HIDE DEF Carries
<1> QED BY <1>1, <1>2, <1>3 DEF SessPlaces

\* A step that gives no token to any session.
LEMMA SpreadsNone ==
    ASSUME SessTypes, \A x, k \in Nat : Carries(x, k)' => Carries(x, k),
           \A o \in SThreads : req'[o].new \in {0, req[o].new, Len(tokens) + 1},
           \A o, p \in SThreads : req'[o].new = Len(tokens) + 1 /\ req'[p].new = Len(tokens) + 1 => o = p
    PROVE  Spreads(0, 0)
<1>1. \A x \in Nat : ~ Carries(x, 0)
  BY Carried
<1>2. ~ (0 \in 1 .. Len(tokens))
  BY Carried
<1>3. \A x, k \in Nat : Carries(x, k)' => Carries(x, k) \/ (k = 0 /\ x = 0)
  OBVIOUS
<1>4. \A o \in SThreads : req'[o].new \in {0, req[o].new, Len(tokens) + 1} /\ (0 # 0 => req'[o].new # 0)
  OBVIOUS
<1> QED BY <1>1, <1>2, <1>3, <1>4, Zenon DEF Spreads

\* A request goes to a place without a copy.
LEMMA SpreadOnward ==
    ASSUME SessTypes, sessions' = sessions, NEW t \in SThreads, NEW r, Onward(t, r), r.pc # "writeback",
           r.new \in {0, req[t].new, Len(tokens) + 1}
    PROVE  Spreads(0, 0)
<1>1. \A x, k \in Nat : Carries(x, k)' => Carries(x, k)
  BY DEF Onward, Carries
<1>2. \A o \in SThreads : req[o].new \in 0 .. Len(tokens) /\ Len(tokens) \in Nat
  BY Carried
<1>3. \A x \in Nat : ~ Carries(x, 0)
  BY Carried
<1>4. \A o \in SThreads : req'[o].new \in {0, req[o].new, Len(tokens) + 1}
  BY DEF Onward
<1>5. \A o \in SThreads : req'[o].new = Len(tokens) + 1 => o = t
  BY <1>2 DEF Onward
<1> HIDE DEF Carries
<1> QED BY <1>1, <1>4, <1>5, SpreadsNone

\* A request takes a copy, with the token the session has or with a new one.
LEMMA SpreadCopy ==
    ASSUME SessTypes, sessions' = sessions, NEW t \in SThreads, NEW r, Onward(t, r),
           NEW s \in Nat, NEW d, Writes(r, s, d), NEW n \in Nat, d.token = n
    PROVE  /\ Carries(s, n) => Spreads(0, 0)
           /\ n = Len(tokens) + 1 => Spreads(n, s)
<1>1. \A x, k \in Nat : Carries(x, k)' => Carries(x, k) \/ (k = n /\ x = s)
  BY DEF Onward, Writes, Carries
<1>2. \A o \in SThreads : req[o].new \in 0 .. Len(tokens) /\ Len(tokens) \in Nat
  BY Carried
<1>3. \A o \in SThreads : req'[o].new \in {0, req[o].new}
  BY DEF Onward, Writes
<1>4. \A o \in SThreads : req'[o].new # Len(tokens) + 1
  BY <1>2, <1>3
<1>5. \A x \in Nat : ~ Carries(x, 0) /\ ~ Carries(x, Len(tokens) + 1)
  BY Carried
<1> HIDE DEF Carries
<1>6. ASSUME Carries(s, n) PROVE Spreads(0, 0)
  BY <1>1, <1>3, <1>4, <1>6, SpreadsNone
<1>7. ASSUME n = Len(tokens) + 1 PROVE Spreads(n, s)
  BY <1>7, Carried, <1>1, <1>3, <1>4, <1>5 DEF Spreads
<1> QED BY <1>6, <1>7

\* A session document changes, to a token it carries already.
LEMMA SpreadRewritten ==
    ASSUME SessTypes, NEW s \in Nat, NEW d, Rewritten(s, d), Carries(s, d.token),
           \A o \in SThreads : /\ req'[o].new \in {0, req[o].new}
                               /\ req'[o].pc = "writeback" => req'[o] = req[o]
    PROVE  Spreads(0, 0)
<1>1. \A x, k \in Nat : Carries(x, k)' => Carries(x, k)
  <2> SUFFICES ASSUME NEW x \in Nat, NEW k \in Nat, Carries(x, k)' PROVE Carries(x, k)
    OBVIOUS
  <2>1. CASE x \in 1 .. Len(sessions') /\ sessions'[x].token = k
    BY <2>1 DEF Rewritten, Carries
  <2>2. CASE \E o \in SThreads : req'[o].pc = "writeback" /\ req'[o].doc[1] = x /\ req'[o].doc[2].token = k
    BY <2>2 DEF Carries
  <2> QED BY <2>1, <2>2 DEF Carries
<1>2. \A o \in SThreads : req[o].new \in 0 .. Len(tokens) /\ Len(tokens) \in Nat
  BY Carried
<1>4. \A o \in SThreads : req'[o].new # Len(tokens) + 1
  BY <1>2
<1>5. \A x \in Nat : ~ Carries(x, 0)
  BY Carried
<1> HIDE DEF Carries
<1> QED BY <1>1, <1>4, SpreadsNone

\* The steps of a thread, by what they do to the documents.
Reads(t) ==
    \/ \E k \in DOMAIN tokens : authenticate(t, k) \/ logout(t, k) \/ change_password(t, k) \/ token_refresh(t, k)
    \/ \E u \in SUsers, pw \in Nat : login(t, u, pw)
    \/ lookup(t) \/ login_others(t) \/ refresh_old(t) \/ put(t) \/ uncache_token(t) \/ uncache_user(t)
    \/ rbac_db_invalidate_sessions_by_token(t) \/ change_password_write(t)
Alters(t) ==
    \/ extend_read(t) \/ write_back(t) \/ kill(t)
    \/ \E k \in DOMAIN tokens, s \in DOMAIN sessions :
          terminate_session(t, k, s) \/ session_terminate(t, k, s) \/ delete_session(t, k, s)
Renews(t) ==
    \/ kill_end(t)
    \/ \E k \in DOMAIN tokens, l \in {"default", "system"} : switch_library(t, k, l)

\* The steps of a request that take and write no copy.
LEMMA ReadsMove ==
    ASSUME SessTypes, SessPlaces, NEW t \in SThreads, Reads(t)
    PROVE  /\ sessions' = sessions /\ Unkilled /\ switched' = switched
           /\ \E r : Onward(t, r) /\ r.pc # "writeback" /\ r.new \in {0, req[t].new, Len(tokens) + 1}
<1> DEFINE q == req[t]
           Moved == /\ sessions' = sessions /\ Unkilled /\ switched' = switched
                    /\ \E r : Onward(t, r) /\ r.pc # "writeback" /\ r.new \in {0, q.new, Len(tokens) + 1}
<1>1. ASSUME NEW r, Onward(t, r), sessions' = sessions, Unkilled, switched' = switched, r.pc # "writeback",
             r.new \in {0, q.new, Len(tokens) + 1}
      PROVE  Moved
  BY <1>1
<1>2. Idle.pc # "writeback" /\ Idle.new = 0
  BY IdleIs
<1>3. ASSUME NEW k \in DOMAIN tokens, authenticate(t, k) PROVE Moved
  <2>1. PICK r : /\ Onward(t, r) /\ r.tok = k /\ r.new = 0 /\ r.ids = <<>> /\ r.out = FALSE
                 /\ \/ r.pc = "extend" /\ jwt_cache_get(k) /\ accepted' = [token |-> k, time |-> clock]
                    \/ r.pc = "lookup" /\ accepted' = accepted
    BY <1>3, Asks, ZenonT(40)
  <2>2. sessions' = sessions /\ Unkilled /\ switched' = switched
    BY <1>3, Asks DEF Unwritten, Unkilled
  <2> QED BY <1>1, <2>1, <2>2
<1>4. ASSUME NEW k \in DOMAIN tokens, logout(t, k) PROVE Moved
  <2>1. PICK r : /\ Onward(t, r) /\ r.tok = k /\ r.new = 0 /\ r.ids = <<>> /\ r.out = TRUE
                 /\ r.pc = "uncache" /\ ActiveWith(k) # {}
    BY <1>4, Asks, ZenonT(40)
  <2>2. sessions' = sessions /\ Unkilled /\ switched' = switched
    BY <1>4, Asks DEF Unwritten, Unkilled
  <2> QED BY <1>1, <2>1, <2>2
<1>5. ASSUME NEW k \in DOMAIN tokens, change_password(t, k) PROVE Moved
  <2>1. PICK r : /\ Onward(t, r) /\ r.tok = k /\ r.new = 0 /\ r.ids = <<>> /\ r.out = FALSE /\ r.pc = "passwd"
    BY <1>5, Asks, ZenonT(40)
  <2>2. sessions' = sessions /\ Unkilled /\ switched' = switched
    BY <1>5, Asks DEF Unwritten, Unkilled
  <2> QED BY <1>1, <2>1, <2>2
<1>6. ASSUME NEW k \in DOMAIN tokens, token_refresh(t, k) PROVE Moved
  <2>1. PICK r : /\ Onward(t, r) /\ r.pc = "old" /\ r.tok = k /\ r.new = Len(tokens) + 1
                 /\ r.ids = <<>> /\ r.out = FALSE
    BY <1>6, Opens
  <2>2. sessions' = sessions /\ Unkilled /\ switched' = switched
    BY <1>6, Opens
  <2> QED BY <1>1, <2>1, <2>2
<1>7. ASSUME NEW u \in SUsers, NEW pw \in Nat, login(t, u, pw) PROVE Moved
  <2>1. PICK r : /\ Onward(t, r) /\ r.pc = "others" /\ r.tok = 0 /\ r.new = Len(tokens) + 1
                 /\ r.ids = <<>> /\ r.out = FALSE
    BY <1>7, Opens
  <2>2. sessions' = sessions /\ Unkilled /\ switched' = switched
    BY <1>7, Opens
  <2> QED BY <1>1, <2>1, <2>2
<1>8. CASE lookup(t)
  <2>1. PICK r : /\ Onward(t, r)
                 /\ \/ r = Idle /\ accepted' = accepted
                    \/ /\ r.pc = "put" /\ r.ids = q.ids /\ Keeps(r, q)
                       /\ ActiveWith(q.tok) # {} /\ jwt_verify(q.tok)
                       /\ accepted' = [token |-> q.tok, time |-> clock]
    BY <1>8, Looks
  <2>2. sessions' = sessions /\ Unkilled /\ switched' = switched
    BY <1>8, Looks DEF Unwritten, Unkilled
  <2>3. r.pc # "writeback" /\ r.new \in {0, q.new}
    BY <1>2, <2>1 DEF Keeps
  <2> QED BY <1>1, <2>1, <2>2, <2>3
<1>9. CASE login_others(t) \/ refresh_old(t)
  <2>1. PICK r : /\ Onward(t, r) /\ r.pc = "kill" /\ Keeps(r, q)
                 /\ (r.ids = <<>> \/ \E s \in 1 .. Len(sessions) : r.ids = <<s>>)
    BY <1>9, Looks
  <2>2. sessions' = sessions /\ Unkilled /\ switched' = switched
    BY <1>9, Looks DEF Unwritten, Unkilled
  <2>3. r.pc # "writeback" /\ r.new \in {0, q.new}
    BY <1>2, <2>1 DEF Keeps
  <2> QED BY <1>1, <2>1, <2>2, <2>3
<1>10. CASE put(t) \/ uncache_token(t) \/ uncache_user(t)
  <2>1. PICK r : /\ Onward(t, r) /\ r.ids = q.ids /\ Keeps(r, q)
                 /\ \/ r.pc = "extend" /\ q.pc = "put"
                    \/ r.pc = (IF q.out THEN "uncacheUser" ELSE "kill") /\ q.pc = "uncache"
                    \/ r.pc = "byToken" /\ q.pc = "uncacheUser"
    BY <1>10, Uncaches
  <2>2. sessions' = sessions /\ Unkilled /\ switched' = switched
    BY <1>10, Uncaches DEF Unwritten, Unkilled
  <2>3. r.pc # "writeback" /\ r.new \in {0, q.new}
    BY <1>2, <2>1 DEF Keeps
  <2> QED BY <1>1, <2>1, <2>2, <2>3
<1>11. CASE rbac_db_invalidate_sessions_by_token(t)
  <2>1. PICK r : /\ Onward(t, r)
                 /\ \/ r = Idle /\ ActiveWith(q.tok) = {}
                    \/ \E s \in ActiveWith(q.tok) : r.pc = "kill" /\ Keeps(r, q) /\ r.ids = <<s>>
    BY <1>11, Uncaches
  <2>2. sessions' = sessions /\ Unkilled /\ switched' = switched
    BY <1>11, Uncaches DEF Unwritten, Unkilled
  <2>3. r.pc # "writeback" /\ r.new \in {0, q.new}
    BY <1>2, <2>1 DEF Keeps
  <2> QED BY <1>1, <2>1, <2>2, <2>3
<1>12. CASE change_password_write(t)
  BY <1>1, <1>2, <1>12, Uncaches DEF Unkilled
<1> QED BY <1>3, <1>4, <1>5, <1>6, <1>7, <1>8, <1>9, <1>10, <1>11, <1>12 DEF Reads

\* The steps that take a copy, or write a session document.
LEMMA SpreadsOfWrites ==
    ASSUME SessTypes, SessPlaces, NEW t \in SThreads,
           \/ extend_read(t) \/ write_back(t) \/ kill(t)
           \/ \E k \in DOMAIN tokens, s \in DOMAIN sessions :
                 terminate_session(t, k, s) \/ session_terminate(t, k, s) \/ delete_session(t, k, s)
    PROVE  Spreads(0, 0)
<1> DEFINE q == req[t]
<1>1. \A x \in 1 .. Len(sessions) : x \in Nat /\ sessions[x].token \in Nat /\ Carries(x, sessions[x].token)
  BY DEF Carries, SessTypes, DocSound
<1>2. Idle.pc # "writeback" /\ Idle.new = 0
  BY IdleIs
<1>3. ASSUME NEW s \in 1 .. Len(sessions), NEW d, Rewritten(s, d), Carries(s, d.token),
             NEW r, Onward(t, r), r.pc # "writeback", r.new \in {0, q.new}
      PROVE  Spreads(0, 0)
  BY <1>3, <1>1, SpreadRewritten DEF Onward
<1>4. CASE extend_read(t)
  <2>1. PICK r : /\ Onward(t, r)
                 /\ \/ r = Idle
                    \/ \E s \in ActiveWith(q.tok), d \in SessDocs :
                          Writes(r, s, d) /\ CopyOf(d, s, q.tok, "system")
    BY <1>4, Copies
  <2>2. sessions' = sessions
    BY <1>4, Copies DEF Unwritten
  <2>3. CASE r = Idle
    BY <1>2, <2>1, <2>2, <2>3, SpreadOnward
  <2>4. ASSUME NEW s \in ActiveWith(q.tok), NEW d \in SessDocs, Writes(r, s, d), CopyOf(d, s, q.tok, "system")
        PROVE  Spreads(0, 0)
    <3>1. s \in 1 .. Len(sessions) /\ sessions[s].token = q.tok
      BY ActiveIs
    <3>2. d.token = q.tok /\ q.tok \in Nat /\ s \in Nat /\ Carries(s, q.tok)
      BY <1>1, <2>4, <3>1 DEF CopyOf
    <3> HIDE DEF q
    <3> QED BY <2>1, <2>2, <2>4, <3>2, SpreadCopy
  <2> QED BY <2>1, <2>3, <2>4
<1>5. CASE write_back(t)
  <2>1. PICK s \in 1 .. Len(sessions), d \in SessDocs :
                 /\ t \in Holders(s) /\ req[t].doc[1] = s /\ Rewritten(s, d)
                 /\ d.user = sessions[s].user /\ d.copy = sessions[s].copy /\ d.live = sessions[s].live
                 /\ \/ d.token = req[t].doc[2].token /\ d.library = req[t].doc[2].library
                    \/ d.token = sessions[s].token /\ d.library = sessions[s].library
    BY <1>5, WritesBack
  <2>2. Onward(t, Idle) /\ q.pc = "writeback"
    BY <1>5, WritesBack
  <2>3. Carries(s, d.token)
    BY <2>1, <2>2, <1>1 DEF Carries
  <2> QED BY <1>2, <1>3, <2>1, <2>2, <2>3
<1>6. CASE kill(t)
  <2>1. PICK r : Onward(t, r) /\ r.pc = "kill" /\ r.ids = <<>> /\ Keeps(r, q)
    BY <1>6, Kills
  <2>2. PICK s \in 1 .. Len(sessions), d \in SessDocs :
                 /\ q.ids = <<s>> /\ NoteKilled({s}) /\ Rewritten(s, d)
                 /\ SameSession(d, s) /\ d.copy = sessions[s].copy /\ ~ (d.live /\ d.active)
    BY <1>6, Kills
  <2>3. r.new = q.new /\ r.pc # "writeback" /\ Carries(s, d.token)
    BY <1>1, <2>1, <2>2 DEF Keeps, SameSession
  <2> QED BY <1>3, <2>1, <2>2, <2>3
<1>7. ASSUME NEW k \in DOMAIN tokens, NEW s \in DOMAIN sessions, terminate_session(t, k, s) PROVE Spreads(0, 0)
  <2>1. PICK d \in SessDocs :
                     /\ Rewritten(s, d) /\ SameSession(d, s) /\ d.active = sessions[s].active
                     /\ d.copy \in 1 .. Len(tokens)
                     /\ \E r : /\ Onward(t, r) /\ r.pc = "uncache" /\ r.tok = d.copy /\ r.new = 0
                               /\ r.ids = <<s>> /\ r.out = FALSE
    BY <1>7, Terminates
  <2>2. s \in 1 .. Len(sessions) /\ Carries(s, d.token)
    BY <1>1, <2>1 DEF SameSession, Rewritten
  <2> QED BY <1>3, <2>1, <2>2
<1>8. ASSUME NEW k \in DOMAIN tokens, NEW s \in DOMAIN sessions, session_terminate(t, k, s) PROVE Spreads(0, 0)
  <2>1. PICK x \in ActiveWith(k), d \in SessDocs :
                     /\ Rewritten(x, d) /\ SameSession(d, x) /\ d.active = sessions[x].active
                     /\ d.copy = sessions[x].copy
    BY <1>8, AdminTerminates
  <2>2. PICK r : /\ Onward(t, r) /\ r.pc = "kill" /\ r.tok = 0 /\ r.new = 0
                 /\ r.ids = <<s>> /\ r.out = FALSE
    BY <1>8, AdminTerminates
  <2>3. x \in 1 .. Len(sessions) /\ Carries(x, d.token)
    BY <1>1, <2>1 DEF SameSession, Rewritten
  <2> QED BY <1>3, <2>1, <2>2, <2>3
<1>9. ASSUME NEW k \in DOMAIN tokens, NEW s \in DOMAIN sessions, delete_session(t, k, s) PROVE Spreads(0, 0)
  <2>1. PICK d \in SessDocs :
                     /\ Rewritten(s, d) /\ d.user = sessions[s].user /\ d.token = sessions[s].token
                     /\ d.library = sessions[s].library /\ d.live = FALSE /\ d.copy \in 0 .. Len(tokens)
    BY <1>9, Deletes
  <2>2. s \in 1 .. Len(sessions) /\ s \in Nat /\ Carries(s, d.token) /\ req' = req
    BY <1>1, <1>9, <2>1, Deletes DEF Rewritten
  <2> QED BY <2>1, <2>2, SpreadRewritten
<1> QED BY <1>4, <1>5, <1>6, <1>7, <1>8, <1>9

\* The steps that give a new token to a session.
LEMMA SpreadsOfNew ==
    ASSUME SessTypes, SessPlaces, NEW t \in SThreads,
           \/ kill_end(t)
           \/ \E k \in DOMAIN tokens, l \in {"default", "system"} : switch_library(t, k, l)
    PROVE  \E n, y \in Nat : Spreads(n, y)
<1> DEFINE q == req[t]
<1>1. Idle.pc # "writeback" /\ Idle.new = 0 /\ Len(tokens) \in Nat /\ Len(sessions) \in Nat
  BY IdleIs, Carried
<1>2. ASSUME sessions' = sessions, Onward(t, Idle) PROVE Spreads(0, 0)
  BY <1>1, <1>2, SpreadOnward
<1>3. ASSUME NEW k \in DOMAIN tokens, NEW l \in {"default", "system"}, switch_library(t, k, l)
      PROVE  \E n, y \in Nat : Spreads(n, y)
  <2>1. PICK r : /\ Onward(t, r)
                 /\ \/ r = Idle
                    \/ \E s \in ActiveWith(k), d \in SessDocs :
                          Writes(r, s, d) /\ CopyOf(d, s, Len(tokens) + 1, l)
    BY <1>3, Copies
  <2>2. sessions' = sessions
    BY <1>3, Copies
  <2>3. CASE r = Idle
    BY <1>2, <2>1, <2>2, <2>3
  <2>4. ASSUME NEW s \in ActiveWith(k), NEW d \in SessDocs, Writes(r, s, d), CopyOf(d, s, Len(tokens) + 1, l)
        PROVE  \E n, y \in Nat : Spreads(n, y)
    <3> DEFINE m == Len(tokens) + 1
    <3>1. s \in Nat /\ m \in Nat /\ d.token = m
      BY <1>1, <2>4, ActiveIs DEF CopyOf
    <3> HIDE DEF m
    <3>2. m = Len(tokens) + 1 => Spreads(m, s)
      BY <2>1, <2>2, <2>4, <3>1, SpreadCopy
    <3> QED BY <3>1, <3>2 DEF m
  <2> QED BY <2>1, <2>3, <2>4
<1>4. CASE kill_end(t)
  <2>1. Onward(t, Idle) /\ q.pc = "kill"
    BY <1>4, KillEnds
  <2>2. CASE sessions' = sessions
    BY <1>2, <2>1, <2>2
  <2>3. ASSUME NEW d \in SessDocs, q.new \in 1 .. Len(tokens), sessions' = Append(sessions, d), d.token = q.new
        PROVE  \E n, y \in Nat : Spreads(n, y)
    <3> DEFINE n == q.new
               y == Len(sessions) + 1
    <3>1. /\ Len(sessions') = y /\ \A s \in 1 .. Len(sessions) : sessions'[s] = sessions[s]
          /\ sessions'[y] = d /\ n \in Nat /\ y \in Nat /\ n # 0
      BY <1>1, <2>3, AppendProperties DEF SessTypes
    <3>2. \A x, k \in Nat : Carries(x, k)' => Carries(x, k) \/ (k = n /\ x = y)
      <4> SUFFICES ASSUME NEW x \in Nat, NEW k \in Nat, Carries(x, k)' PROVE Carries(x, k) \/ (k = n /\ x = y)
        OBVIOUS
      <4>1. CASE \E o \in SThreads : req'[o].pc = "writeback" /\ req'[o].doc[1] = x /\ req'[o].doc[2].token = k
        BY <1>1, <2>1, <4>1 DEF Carries, Onward
      <4>2. CASE x \in 1 .. Len(sessions') /\ sessions'[x].token = k
        BY <1>1, <2>3, <3>1, <4>2 DEF Carries
      <4> QED BY <4>1, <4>2 DEF Carries
    <3>3. \A x \in Nat : ~ Carries(x, n)
      BY <3>1 DEF SessPlaces
    <3>4. \A o \in SThreads : req'[o].new \in {0, req[o].new} /\ req'[o].new # n
      <4> SUFFICES ASSUME NEW o \in SThreads PROVE req'[o].new \in {0, req[o].new} /\ req'[o].new # n
        OBVIOUS
      <4>1. CASE o = t
        BY <1>1, <2>1, <3>1, <4>1 DEF Onward
      <4>2. CASE o # t
        BY <2>1, <3>1, <4>2 DEF Onward, SessPlaces
      <4> QED BY <4>1, <4>2
    <3>5. \A o \in SThreads : req'[o].new # Len(tokens) + 1
      BY <1>1, <3>4, Carried
    <3>6. \E o \in SThreads : req[o].new = n
      OBVIOUS
    <3> HIDE DEF n, y, Carries
    <3>7. Spreads(n, y)
      BY <3>2, <3>3, <3>4, <3>5, <3>6 DEF Spreads
    <3> QED BY <3>1, <3>7
  <2> QED BY <1>4, <2>2, <2>3, KillEnds
<1> QED BY <1>3, <1>4

\* What the whole proof needs of a step: types, growth, and where the tokens go.
LEMMA GrownBy ==
    ASSUME SessTypes,
           tokens' = tokens \/ \E n \in SessTokens : tokens' = Append(tokens, n),
           \/ sessions' = sessions
           \/ \E d \in SessDocs : sessions' = Append(sessions, d)
           \/ \E s \in 1 .. Len(sessions), d \in SessDocs : Rewritten(s, d) /\ d.user = sessions[s].user
    PROVE  SessGrown(tokens, sessions, tokens', sessions')
<1>1. tokens \in Seq(SessTokens) /\ sessions \in Seq(SessDocs) /\ Len(tokens) \in Nat /\ Len(sessions) \in Nat
  BY DEF SessTypes
<1>2. Len(tokens) <= Len(tokens') /\ \A k \in 1 .. Len(tokens) : tokens'[k] = tokens[k]
  BY <1>1, AppendProperties
<1>3. Len(sessions) <= Len(sessions') /\ \A s \in 1 .. Len(sessions) : sessions'[s].user = sessions[s].user
  <2>1. CASE sessions' = sessions
    BY <1>1, <2>1
  <2>2. ASSUME NEW d \in SessDocs, sessions' = Append(sessions, d) PROVE <1>3
    BY <1>1, <2>2, AppendProperties
  <2>3. ASSUME NEW s \in 1 .. Len(sessions), NEW d \in SessDocs, Rewritten(s, d), d.user = sessions[s].user
        PROVE  <1>3
    BY <1>1, <2>3 DEF Rewritten
  <2> QED BY <2>1, <2>2, <2>3
<1> QED BY <1>2, <1>3 DEF SessGrown

LEMMA SessCases ==
    ASSUME SessNext
    PROVE  Tick \/ \E t \in SThreads : Reads(t) \/ Alters(t) \/ Renews(t)
<1>1. \A pw \in 0 .. MaxPassword : pw \in Nat
  BY SessionsAssumption
<1> SUFFICES ASSUME NEW t \in SThreads,
                    \/ SessStep(t)
                    \/ \E u \in SUsers, pw \in 0 .. MaxPassword : login(t, u, pw)
                    \/ \E k \in DOMAIN tokens :
                          \/ authenticate(t, k) \/ token_refresh(t, k) \/ logout(t, k)
                          \/ change_password(t, k)
                          \/ \E l \in {"default", "system"} : switch_library(t, k, l)
                          \/ \E s \in DOMAIN sessions :
                                terminate_session(t, k, s) \/ session_terminate(t, k, s) \/ delete_session(t, k, s)
             PROVE  Reads(t) \/ Alters(t) \/ Renews(t)
  BY DEF SessNext
<1>2. CASE SessStep(t)
  BY <1>2 DEF SessStep, Reads, Alters, Renews
<1>3. ASSUME NEW u \in SUsers, NEW pw \in 0 .. MaxPassword, login(t, u, pw) PROVE Reads(t)
  BY <1>1, <1>3 DEF Reads
<1>4. ASSUME NEW k \in DOMAIN tokens,
             \/ authenticate(t, k) \/ token_refresh(t, k) \/ logout(t, k)
             \/ change_password(t, k)
             \/ \E l \in {"default", "system"} : switch_library(t, k, l)
             \/ \E s \in DOMAIN sessions :
                   terminate_session(t, k, s) \/ session_terminate(t, k, s) \/ delete_session(t, k, s)
      PROVE  Reads(t) \/ Alters(t) \/ Renews(t)
  BY <1>4 DEF Reads, Alters, Renews
<1> QED BY <1>2, <1>3, <1>4

LEMMA ReadsGrow ==
    ASSUME SessTypes, SessPlaces, NEW t \in SThreads, Reads(t)
    PROVE  sessions' = sessions /\ (tokens' = tokens \/ \E n \in SessTokens : tokens' = Append(tokens, n))
  BY Asks, Opens, Looks, Uncaches DEF Unwritten, Reads

LEMMA AltersGrow ==
    ASSUME SessTypes, NEW t \in SThreads, Alters(t)
    PROVE  /\ tokens' = tokens
           /\ \/ sessions' = sessions
              \/ \E s \in 1 .. Len(sessions), d \in SessDocs : Rewritten(s, d) /\ d.user = sessions[s].user
<1>1. CASE extend_read(t)
  BY <1>1, Copies DEF Unwritten
<1>2. CASE write_back(t)
  BY <1>2, WritesBack DEF Elsewhere
<1>3. CASE kill(t)
  BY <1>3, Kills DEF Elsewhere, SameSession
<1>4. ASSUME NEW k \in DOMAIN tokens, NEW s \in DOMAIN sessions, terminate_session(t, k, s)
      PROVE  tokens' = tokens /\ \E x \in 1 .. Len(sessions), d \in SessDocs : Rewritten(x, d) /\ d.user = sessions[x].user
  <2>1. PICK d \in SessDocs :
                     /\ Rewritten(s, d) /\ SameSession(d, s) /\ d.active = sessions[s].active
                     /\ d.copy \in 1 .. Len(tokens)
                     /\ \E r : /\ Onward(t, r) /\ r.pc = "uncache" /\ r.tok = d.copy /\ r.new = 0
                               /\ r.ids = <<s>> /\ r.out = FALSE
    BY <1>4, Terminates
  <2>2. tokens' = tokens /\ s \in 1 .. Len(sessions) /\ d.user = sessions[s].user
    BY <1>4, <2>1, Terminates DEF Elsewhere, Rewritten, SameSession
  <2> QED BY <2>1, <2>2
<1>5. ASSUME NEW k \in DOMAIN tokens, NEW s \in DOMAIN sessions, session_terminate(t, k, s)
      PROVE  tokens' = tokens /\ \E x \in 1 .. Len(sessions), d \in SessDocs : Rewritten(x, d) /\ d.user = sessions[x].user
  <2>1. PICK x \in ActiveWith(k), d \in SessDocs :
                     /\ Rewritten(x, d) /\ SameSession(d, x) /\ d.active = sessions[x].active
                     /\ d.copy = sessions[x].copy
    BY <1>5, AdminTerminates
  <2>2. tokens' = tokens /\ x \in 1 .. Len(sessions) /\ d.user = sessions[x].user
    BY <1>5, <2>1, AdminTerminates DEF Elsewhere, Rewritten, SameSession
  <2> QED BY <2>1, <2>2
<1>6. ASSUME NEW k \in DOMAIN tokens, NEW s \in DOMAIN sessions, delete_session(t, k, s)
      PROVE  tokens' = tokens /\ \E x \in 1 .. Len(sessions), d \in SessDocs : Rewritten(x, d) /\ d.user = sessions[x].user
  <2>1. PICK d \in SessDocs :
                     /\ Rewritten(s, d) /\ d.user = sessions[s].user /\ d.token = sessions[s].token
                     /\ d.library = sessions[s].library /\ d.live = FALSE /\ d.copy \in 0 .. Len(tokens)
    BY <1>6, Deletes
  <2>2. tokens' = tokens /\ s \in 1 .. Len(sessions)
    BY <1>6, <2>1, Deletes DEF Elsewhere, Rewritten
  <2> QED BY <2>1, <2>2
<1> QED BY <1>1, <1>2, <1>3, <1>4, <1>5, <1>6 DEF Alters

LEMMA RenewsGrow ==
    ASSUME SessTypes, NEW t \in SThreads, Renews(t)
    PROVE  /\ tokens' = tokens \/ \E n \in SessTokens : tokens' = Append(tokens, n)
           /\ sessions' = sessions \/ \E d \in SessDocs : sessions' = Append(sessions, d)
  BY KillEnds, Copies DEF Renews

LEMMA SessMoves ==
    ASSUME SessTypes, SessPlaces, [SessNext]_sessVars
    PROVE  /\ SessTypes' /\ SessPlaces' /\ SessGrown(tokens, sessions, tokens', sessions')
           /\ \E n, y \in Nat : Spreads(n, y)
<1>1. SessTypes' /\ SessGrown(tokens, sessions, tokens', sessions') /\ \E n, y \in Nat : Spreads(n, y)
  <2>1. ASSUME NEW t \in SThreads, Reads(t) PROVE <1>1
    BY <2>1, TypesOfQueries, TypesOfTokens, ReadsMove, SpreadOnward, ReadsGrow, GrownBy DEF Reads
  <2>2. ASSUME NEW t \in SThreads, Alters(t) PROVE <1>1
    BY <2>2, TypesOfWrites, TypesOfTokens, SpreadsOfWrites, AltersGrow, GrownBy DEF Alters
  <2>3. ASSUME NEW t \in SThreads, Renews(t) PROVE <1>1
    BY <2>3, TypesOfEnd, TypesOfTokens, SpreadsOfNew, RenewsGrow, GrownBy DEF Renews
  <2>4. CASE Tick \/ UNCHANGED sessVars
    <3>1. /\ tokens' = tokens /\ sessions' = sessions /\ req' = req /\ password' = password
          /\ accepted' = accepted /\ killed' = killed /\ stale' = stale
      BY <2>4 DEF Tick, sessVars, history
    <3>2. clock' \in 1 .. MaxClock
      BY <2>4, SessionsAssumption DEF Tick, sessVars, SessTypes
    <3>3. SessGrown(tokens, sessions, tokens', sessions')
      BY <3>1, GrownBy
    <3>4. SessTypes'
      BY <3>1, <3>2, <3>3, TypesKept DEF SessTypes
    <3>5. \A x, k \in Nat : Carries(x, k)' => Carries(x, k)
      BY <3>1 DEF Carries
    <3>6. \A o \in SThreads : req'[o].new \in {0, req[o].new} /\ req'[o].new # Len(tokens) + 1
      BY <3>1, Carried
    <3>7. Spreads(0, 0)
      BY <3>5, <3>6, SpreadsNone
    <3> QED BY <3>3, <3>4, <3>7
  <2> QED BY <2>1, <2>2, <2>3, <2>4, SessCases
<1> QED BY <1>1, PlacesKept

\* Session s has the token k for good: nobody else has it or will have it.
Settled(k, s) ==
    /\ s \in 1 .. Len(sessions) /\ k \in 1 .. Len(tokens) /\ tokens[k].user = sessions[s].user
    /\ \A x \in Nat : Carries(x, k) => x = s
    /\ \A o \in SThreads : req[o].new # k

LEMMA SettledKept ==
    ASSUME SessTypes, SessPlaces, [SessNext]_sessVars, NEW k \in Nat, NEW s \in Nat, Settled(k, s)
    PROVE  Settled(k, s)'
<1>1. PICK n \in Nat, y \in Nat : Spreads(n, y)
  BY SessMoves
<1>2. SessGrown(tokens, sessions, tokens', sessions') /\ SessTypes'
  BY SessMoves
<1>3. Len(tokens) \in Nat /\ Len(sessions) \in Nat /\ Len(tokens') \in Nat /\ Len(sessions') \in Nat
  BY <1>2 DEF SessTypes
<1>4. k # n
  BY <1>1 DEF Spreads, Settled
<1>5. \A x \in Nat : Carries(x, k)' => x = s
  BY <1>1, <1>4 DEF Spreads, Settled
<1>6. \A o \in SThreads : req'[o].new # k
  BY <1>1, <1>3 DEF Spreads, Settled
<1>7. s \in 1 .. Len(sessions') /\ k \in 1 .. Len(tokens') /\ tokens'[k].user = sessions'[s].user
  BY <1>2, <1>3 DEF SessGrown, Settled
<1> HIDE DEF Carries
<1> QED BY <1>5, <1>6, <1>7 DEF Settled

\* A session that was invalidated while nobody held a copy of it stays that way.
SessKilled ==
    \A s \in Nat : s \in killed /\ s \notin stale =>
        ~ InUse(s) /\ \A o \in SThreads : ~ (req[o].pc = "writeback" /\ req[o].doc[1] = s)

LEMMA KilledOfReads ==
    ASSUME SessTypes, SessPlaces, SessKilled, NEW t \in SThreads, Reads(t)
    PROVE  SessKilled'
<1>1. sessions' = sessions /\ killed' = killed /\ stale' = stale
  BY ReadsMove DEF Unkilled
<1>2. PICK r : Onward(t, r) /\ r.pc # "writeback"
  BY ReadsMove
<1>3. \A o \in SThreads : req'[o].pc = "writeback" => req'[o] = req[o]
  BY <1>2 DEF Onward
<1> QED BY <1>1, <1>3 DEF SessKilled, InUse

LEMMA KilledOfAlters ==
    ASSUME SessTypes, SessKilled, NEW t \in SThreads, Alters(t)
    PROVE  SessKilled'
<1> DEFINE q == req[t]
<1>1. Idle.pc # "writeback"
  BY IdleIs
<1>2. ASSUME NEW r, Onward(t, r), r.pc # "writeback"
      PROVE  \A o \in SThreads : req'[o].pc = "writeback" => req'[o] = req[o]
  BY <1>2 DEF Onward
<1>3. killed \subseteq 1 .. Len(sessions) /\ stale \subseteq killed
  BY DEF SessTypes
<1>4. CASE extend_read(t)
  <2>1. sessions' = sessions /\ killed' = killed /\ stale' = stale
    BY <1>4, Copies DEF Unwritten
  <2>2. PICK r : /\ Onward(t, r)
                 /\ \/ r = Idle
                    \/ \E s \in ActiveWith(q.tok), d \in SessDocs :
                          Writes(r, s, d) /\ CopyOf(d, s, q.tok, "system")
    BY <1>4, Copies
  <2>3. CASE r = Idle
    BY <1>1, <1>2, <2>1, <2>2, <2>3 DEF SessKilled, InUse
  <2>4. ASSUME NEW s \in ActiveWith(q.tok), NEW d \in SessDocs, Writes(r, s, d) PROVE SessKilled'
    BY ActiveIs, <2>2, <2>4, <2>1 DEF InUse, Onward, Writes, SessKilled
  <2> QED BY <2>2, <2>3, <2>4
<1>5. CASE write_back(t)
  <2>1. PICK s \in 1 .. Len(sessions), d \in SessDocs :
                 /\ t \in Holders(s) /\ req[t].doc[1] = s /\ Rewritten(s, d)
                 /\ d.user = sessions[s].user /\ d.copy = sessions[s].copy /\ d.live = sessions[s].live
                 /\ \/ d.token = req[t].doc[2].token /\ d.library = req[t].doc[2].library
                    \/ d.token = sessions[s].token /\ d.library = sessions[s].library
    BY <1>5, WritesBack
  <2>2. Onward(t, Idle) /\ q.pc = "writeback" /\ killed' = killed /\ stale' = stale
    BY <1>5, WritesBack DEF Unmarked, Unkilled
  <2>3. \A x \in 1 .. Len(sessions) : x # s => sessions'[x] = sessions[x]
    BY <2>1 DEF Rewritten
  <2>4. \A x \in Nat : x \in killed /\ x \notin stale => x # s /\ x \in 1 .. Len(sessions)
    BY <1>3, <2>1, <2>2 DEF SessKilled
  <2> QED BY <1>1, <1>2, <2>2, <2>3, <2>4 DEF SessKilled, InUse
<1>6. CASE kill(t)
  <2>1. PICK r : Onward(t, r) /\ r.pc = "kill" /\ r.ids = <<>> /\ Keeps(r, q)
    BY <1>6, Kills
  <2>2. PICK s \in 1 .. Len(sessions), d \in SessDocs :
                 /\ q.ids = <<s>> /\ NoteKilled({s}) /\ Rewritten(s, d)
                 /\ SameSession(d, s) /\ d.copy = sessions[s].copy /\ ~ (d.live /\ d.active)
    BY <1>6, Kills
  <2>3. \A o \in SThreads : req'[o].pc = "writeback" => req'[o] = req[o]
    BY <1>2, <2>1
  <2>4. /\ killed' = killed \cup {s} /\ stale \subseteq stale'
        /\ (s \in stale' \/ Holders(s) = {})
    BY <1>3, <2>2, NotesIn
  <2>5. sessions'[s] = d /\ \A x \in 1 .. Len(sessions) : x # s => sessions'[x] = sessions[x]
    BY <2>2 DEF Rewritten
  <2> SUFFICES ASSUME NEW x \in Nat, x \in killed', x \notin stale'
               PROVE  ~ (sessions'[x].live /\ sessions'[x].active)
                      /\ \A o \in SThreads : ~ (req'[o].pc = "writeback" /\ req'[o].doc[1] = x)
    BY DEF SessKilled, InUse
  <2>6. CASE x = s
    BY <2>2, <2>3, <2>4, <2>5, <2>6 DEF Holders
  <2>7. CASE x # s
    BY <1>3, <2>3, <2>4, <2>5, <2>7 DEF SessKilled, InUse
  <2> QED BY <2>6, <2>7
<1>7. ASSUME Unmarked, NEW r, Onward(t, r), r.pc # "writeback", NEW s \in 1 .. Len(sessions), NEW d, Rewritten(s, d),
             d.live = sessions[s].live, d.active = sessions[s].active
      PROVE  SessKilled'
  BY <1>7, <1>2, <1>3 DEF Rewritten, Unmarked, Unkilled, SessKilled, InUse
<1>8. ASSUME NEW k \in DOMAIN tokens, NEW s \in DOMAIN sessions, terminate_session(t, k, s) PROVE SessKilled'
  <2>1. PICK d \in SessDocs :
                     /\ Rewritten(s, d) /\ SameSession(d, s) /\ d.active = sessions[s].active
                     /\ d.copy \in 1 .. Len(tokens)
                     /\ \E r : /\ Onward(t, r) /\ r.pc = "uncache" /\ r.tok = d.copy /\ r.new = 0
                               /\ r.ids = <<s>> /\ r.out = FALSE
    BY <1>8, Terminates
  <2>2. s \in 1 .. Len(sessions) /\ Unmarked /\ d.live = sessions[s].live
    BY <1>8, <2>1, Terminates DEF Rewritten, SameSession
  <2> QED BY <1>7, <2>1, <2>2
<1>9. ASSUME NEW k \in DOMAIN tokens, NEW s \in DOMAIN sessions, session_terminate(t, k, s) PROVE SessKilled'
  <2>1. PICK x \in ActiveWith(k), d \in SessDocs :
                     /\ Rewritten(x, d) /\ SameSession(d, x) /\ d.active = sessions[x].active
                     /\ d.copy = sessions[x].copy
    BY <1>9, AdminTerminates
  <2>2. PICK r : /\ Onward(t, r) /\ r.pc = "kill" /\ r.tok = 0 /\ r.new = 0
                 /\ r.ids = <<s>> /\ r.out = FALSE
    BY <1>9, AdminTerminates
  <2>3. x \in 1 .. Len(sessions) /\ Unmarked /\ d.live = sessions[x].live
    BY <1>9, <2>1, AdminTerminates DEF Rewritten, SameSession
  <2> QED BY <1>7, <2>1, <2>2, <2>3
<1>10. ASSUME NEW k \in DOMAIN tokens, NEW s \in DOMAIN sessions, delete_session(t, k, s) PROVE SessKilled'
  <2>1. PICK d \in SessDocs :
                     /\ Rewritten(s, d) /\ d.user = sessions[s].user /\ d.token = sessions[s].token
                     /\ d.library = sessions[s].library /\ d.live = FALSE /\ d.copy \in 0 .. Len(tokens)
    BY <1>10, Deletes
  <2>2. s \in 1 .. Len(sessions) /\ req' = req /\ NoteKilled({s})
    BY <1>10, <2>1, Deletes DEF Rewritten
  <2>3. /\ killed' = killed \cup {s} /\ stale \subseteq stale'
        /\ (s \in stale' \/ Holders(s) = {})
    BY <1>3, <2>2, NotesIn
  <2>4. sessions'[s] = d /\ \A x \in 1 .. Len(sessions) : x # s => sessions'[x] = sessions[x]
    BY <2>1 DEF Rewritten
  <2> SUFFICES ASSUME NEW x \in Nat, x \in killed', x \notin stale'
               PROVE  ~ (sessions'[x].live /\ sessions'[x].active)
                      /\ \A o \in SThreads : ~ (req'[o].pc = "writeback" /\ req'[o].doc[1] = x)
    BY DEF SessKilled, InUse
  <2>6. CASE x = s
    BY <2>1, <2>2, <2>3, <2>4, <2>6 DEF Holders
  <2>7. CASE x # s
    BY <1>3, <2>2, <2>3, <2>4, <2>7 DEF SessKilled, InUse
  <2> QED BY <2>6, <2>7
<1> QED BY <1>4, <1>5, <1>6, <1>8, <1>9, <1>10 DEF Alters

LEMMA KilledOfRenews ==
    ASSUME SessTypes, SessKilled, NEW t \in SThreads, Renews(t)
    PROVE  SessKilled'
<1>1. Idle.pc # "writeback" /\ killed \subseteq 1 .. Len(sessions) /\ Len(sessions) \in Nat
  BY IdleIs DEF SessTypes
<1>2. CASE kill_end(t)
  <2>1. Onward(t, Idle) /\ killed' = killed /\ stale' = stale
    BY <1>2, KillEnds DEF Unkilled
  <2>2. \A x \in 1 .. Len(sessions) : sessions'[x] = sessions[x]
    <3>1. ASSUME NEW d \in SessDocs, sessions' = Append(sessions, d) PROVE <2>2
      BY <3>1, AppendProperties DEF SessTypes
    <3> QED BY <1>2, <3>1, KillEnds
  <2>3. \A o \in SThreads : req'[o].pc = "writeback" => req'[o] = req[o]
    BY <1>1, <2>1 DEF Onward
  <2> QED BY <1>1, <2>1, <2>2, <2>3 DEF SessKilled, InUse
<1>3. ASSUME NEW k \in DOMAIN tokens, NEW l \in {"default", "system"}, switch_library(t, k, l) PROVE SessKilled'
  <2>1. sessions' = sessions /\ killed' = killed /\ stale' = stale
    BY <1>3, Copies DEF Unkilled
  <2>2. PICK r : /\ Onward(t, r)
                 /\ \/ r = Idle
                    \/ \E s \in ActiveWith(k), d \in SessDocs :
                          Writes(r, s, d) /\ CopyOf(d, s, Len(tokens) + 1, l)
    BY <1>3, Copies
  <2>3. CASE r = Idle
    BY <1>1, <2>2, <2>3, <2>1 DEF Onward, SessKilled, InUse
  <2>4. ASSUME NEW s \in ActiveWith(k), NEW d \in SessDocs, Writes(r, s, d) PROVE SessKilled'
    BY ActiveIs, <2>2, <2>4, <2>1 DEF InUse, Onward, Writes, SessKilled
  <2> QED BY <2>2, <2>3, <2>4
<1> QED BY <1>2, <1>3 DEF Renews

\* Removing one entry of a sequence keeps the others, in their order.
LEMMA RemoveAtKeeps ==
    ASSUME NEW S, NEW s \in Seq(S), NEW i \in DOMAIN s
    PROVE  /\ RemoveAt(s, i) \in Seq(S)
           /\ Len(RemoveAt(s, i)) = Len(s) - 1
           /\ \A j \in 1 .. Len(s) - 1 : RemoveAt(s, i)[j] = IF j < i THEN s[j] ELSE s[j + 1]
<1>1. i \in 1 .. Len(s) /\ DOMAIN s = 1 .. Len(s) /\ Len(s) \in Nat
  BY LenProperties
<1>2. \A j \in 1 .. Len(s) : s[j] \in S
  BY ElementOfSeq
<1>3. /\ SubSeq(s, 1, i - 1) \in Seq(S)
      /\ Len(SubSeq(s, 1, i - 1)) = i - 1
      /\ \A j \in 1 .. i - 1 : SubSeq(s, 1, i - 1)[j] = s[j]
  BY <1>1, <1>2, SubSeqProperties
<1>4. /\ SubSeq(s, i + 1, Len(s)) \in Seq(S)
      /\ Len(SubSeq(s, i + 1, Len(s))) = Len(s) - i
      /\ \A j \in 1 .. Len(s) - i : SubSeq(s, i + 1, Len(s))[j] = s[i + j]
  BY <1>1, <1>2, SubSeqProperties
<1>5. /\ RemoveAt(s, i) \in Seq(S)
      /\ Len(RemoveAt(s, i)) = (i - 1) + (Len(s) - i)
      /\ \A j \in 1 .. (i - 1) + (Len(s) - i) :
             RemoveAt(s, i)[j] = IF j <= i - 1 THEN SubSeq(s, 1, i - 1)[j]
                                 ELSE SubSeq(s, i + 1, Len(s))[j - (i - 1)]
  <2> DEFINE a == SubSeq(s, 1, i - 1)
             b == SubSeq(s, i + 1, Len(s))
  <2>1. a \in Seq(S) /\ Len(a) = i - 1 /\ b \in Seq(S) /\ Len(b) = Len(s) - i
    BY <1>3, <1>4
  <2>2. RemoveAt(s, i) = a \o b
    BY DEF RemoveAt
  <2> HIDE DEF a, b
  <2>3. /\ a \o b \in Seq(S)
        /\ Len(a \o b) = Len(a) + Len(b)
        /\ \A j \in 1 .. Len(a) + Len(b) : (a \o b)[j] = IF j <= Len(a) THEN a[j] ELSE b[j - Len(a)]
    BY <2>1, ConcatProperties
  <2>4. /\ RemoveAt(s, i) \in Seq(S)
        /\ Len(RemoveAt(s, i)) = (i - 1) + (Len(s) - i)
        /\ \A j \in 1 .. (i - 1) + (Len(s) - i) :
               RemoveAt(s, i)[j] = IF j <= i - 1 THEN a[j] ELSE b[j - (i - 1)]
    BY <2>1, <2>2, <2>3
  <2> QED BY <2>4 DEF a, b
<1>6. ASSUME NEW j \in 1 .. Len(s) - 1
      PROVE  RemoveAt(s, i)[j] = IF j < i THEN s[j] ELSE s[j + 1]
  <2>1. CASE j < i
    BY <1>1, <1>3, <1>5, <2>1
  <2>2. CASE ~ (j < i)
    <3>1. j - (i - 1) \in 1 .. Len(s) - i /\ i + (j - (i - 1)) = j + 1
      BY <1>1, <2>2
    <3>2. RemoveAt(s, i)[j] = SubSeq(s, i + 1, Len(s))[j - (i - 1)]
      BY <1>1, <1>5, <2>2
    <3> QED BY <1>4, <2>2, <3>1, <3>2
  <2> QED BY <2>1, <2>2
<1>7. Len(RemoveAt(s, i)) = Len(s) - 1
  BY <1>1, <1>5
<1> QED BY <1>5, <1>6, <1>7


\* A set of positions can be listed in increasing order.
Increasing(f) == \A i, j \in DOMAIN f : i < j => f[i] < f[j]

LEMMA Listed ==
    ASSUME NEW n \in Nat, NEW P \in SUBSET (1 .. n)
    PROVE  \E f \in [1 .. Cardinality(P) -> P] : Increasing(f)
<1> DEFINE Lists(m) == \A Q \in SUBSET (1 .. m) : \E f \in [1 .. Cardinality(Q) -> Q] : Increasing(f)
           Below == {p \in Nat \X Nat : p[1] < p[2]}
           Bad == {m \in Nat : ~ Lists(m)}
<1>1. IsWellFoundedOn(Below, Nat)
  BY NatLessThanWellFounded DEF OpToRel
<1>2. Lists(0)
  <2> SUFFICES ASSUME NEW Q \in SUBSET (1 .. 0) PROVE \E f \in [1 .. Cardinality(Q) -> Q] : Increasing(f)
    OBVIOUS
  <2>1. Q = {} /\ Cardinality({}) = 0 /\ 1 .. 0 = {}
    BY FS_EmptySet
  <2>2. <<>> \in [1 .. Cardinality(Q) -> Q]
    BY <2>1
  <2>3. DOMAIN <<>> = {}
    OBVIOUS
  <2>4. Increasing(<<>>)
    BY <2>3 DEF Increasing
  <2> QED BY <2>2, <2>4
<1>3. ASSUME NEW m \in Nat, m # 0, Lists(m - 1) PROVE Lists(m)
  <2> SUFFICES ASSUME NEW Q \in SUBSET (1 .. m) PROVE \E f \in [1 .. Cardinality(Q) -> Q] : Increasing(f)
    OBVIOUS
  <2>1. CASE m \notin Q
    BY <2>1, <1>3
  <2>2. CASE m \in Q
    <3> DEFINE R == Q \ {m}
    <3>1. R \in SUBSET (1 .. m - 1)
      OBVIOUS
    <3>3. Cardinality(R) \in Nat /\ Cardinality(Q) = Cardinality(R) + 1
      <4>1. IsFiniteSet(1 .. m)
        BY FS_Interval
      <4>2. IsFiniteSet(Q)
        BY <4>1, FS_Subset
      <4>3. IsFiniteSet(R) /\ Cardinality(R) = Cardinality(Q) - 1
        BY <2>2, <4>2, FS_RemoveElement
      <4>4. Cardinality(R) \in Nat /\ Cardinality(Q) \in Nat
        BY <4>2, <4>3, FS_CardinalityType
      <4> QED BY <4>3, <4>4
    <3> DEFINE c == Cardinality(Q)
               r == Cardinality(R)
    <3>4. c \in Nat /\ r \in Nat /\ c = r + 1 /\ m \in Q
      BY <2>2, <3>3
    <3>2. \E f \in [1 .. r -> R] : Increasing(f)
      <4> HIDE DEF R
      <4> QED BY <1>3, <3>1
    <3>f. PICK f \in [1 .. r -> R] : Increasing(f)
      BY <3>2
    <3> DEFINE g == [i \in 1 .. c |-> IF i = c THEN m ELSE f[i]]
    <3>5. R \subseteq Q /\ \A x \in R : x \in Nat /\ x < m
      BY <3>1
    <3> HIDE DEF c, r, R
    <3>6. \A i \in 1 .. c : i # c => i \in 1 .. r
      BY <3>4
    <3>7. g \in [1 .. c -> Q]
      BY <3>4, <3>5, <3>6
    <3>8. DOMAIN g = 1 .. c /\ DOMAIN f = 1 .. r
      BY <3>4
    <3>9. \A i, j \in 1 .. c : i < j => g[i] < g[j]
      <4> SUFFICES ASSUME NEW i \in 1 .. c, NEW j \in 1 .. c, i < j PROVE g[i] < g[j]
        OBVIOUS
      <4>1. i # c /\ i \in 1 .. r /\ g[i] = f[i] /\ f[i] \in R
        BY <3>4, <3>6
      <4>2. CASE j = c
        BY <3>5, <4>1, <4>2
      <4>3. CASE j # c
        BY <3>6, <4>3, <3>f, <3>8, <4>1 DEF Increasing
      <4> QED BY <4>2, <4>3
    <3> HIDE DEF g
    <3>10. Increasing(g)
      BY <3>8, <3>9 DEF Increasing
    <3> QED BY <3>7, <3>10 DEF c
  <2> QED BY <2>1, <2>2
<1>4. Bad = {}
  <2> SUFFICES ASSUME Bad # {} PROVE FALSE
    OBVIOUS
  <2> HIDE DEF Below, Lists
  <2>1. PICK m \in Bad : \A k \in Bad : ~ (<<k, m>> \in Below)
    BY <1>1, WFMin
  <2>2. m \in Nat /\ m # 0 /\ ~ Lists(m)
    BY <1>2
  <2>3. m - 1 \in Nat /\ <<m - 1, m>> \in Below
    BY <2>2 DEF Below
  <2>4. Lists(m - 1)
    BY <2>1, <2>3
  <2> QED BY <1>3, <2>2, <2>4
<1> QED BY <1>4

\* A cache c is well formed when the tokens tk are issued.
CacheSound(c, tk) ==
    /\ c \in Seq(CacheEntries) /\ Len(c) <= CacheMax
    /\ \A i \in 1 .. Len(c) : c[i].token \in 1 .. Len(tk) /\ c[i].exp = tk[c[i].token].exp
    /\ \A i, j \in 1 .. Len(c) : i # j => c[i].token # c[j].token
TokensOf(c) == {c[i].token : i \in 1 .. Len(c)}

\* Some of the entries of a sound cache, each at most once, are a sound cache.
LEMMA Thinned ==
    ASSUME NEW tk, NEW c, CacheSound(c, tk), NEW d \in Seq(CacheEntries), Len(d) <= Len(c),
           NEW f \in [1 .. Len(d) -> 1 .. Len(c)],
           \A i, j \in 1 .. Len(d) : i # j => f[i] # f[j],
           \A i \in 1 .. Len(d) : d[i] = c[f[i]]
    PROVE  CacheSound(d, tk) /\ TokensOf(d) \subseteq TokensOf(c)
<1>0. c \in Seq(CacheEntries) /\ Len(c) \in Nat /\ Len(d) \in Nat /\ CacheMax \in Nat /\ Len(c) <= CacheMax
  BY SessionsAssumption DEF CacheSound
<1>1. Len(d) <= CacheMax
  BY <1>0
<1>2. \A i \in 1 .. Len(d) : d[i].token \in 1 .. Len(tk) /\ d[i].exp = tk[d[i].token].exp
  BY DEF CacheSound
<1>3. ASSUME NEW i \in 1 .. Len(d), NEW j \in 1 .. Len(d), i # j PROVE d[i].token # d[j].token
  <2>1. f[i] \in 1 .. Len(c) /\ f[j] \in 1 .. Len(c) /\ f[i] # f[j] /\ d[i] = c[f[i]] /\ d[j] = c[f[j]]
    BY <1>3
  <2>2. \A x, y \in 1 .. Len(c) : x # y => c[x].token # c[y].token
    BY DEF CacheSound
  <2> QED BY <2>1, <2>2
<1>4. TokensOf(d) \subseteq TokensOf(c)
  BY DEF TokensOf
<1> QED BY <1>1, <1>2, <1>3, <1>4 DEF CacheSound

LEMMA CachedAt ==
    ASSUME CacheSound(jwtCache, tokens)
    PROVE /\ CachedTokens = TokensOf(jwtCache)
          /\ \A k \in CachedTokens : /\ EntryOf(k) \in 1 .. Len(jwtCache)
                                     /\ jwtCache[EntryOf(k)].token = k /\ jwtCache[EntryOf(k)] \in CacheEntries
  BY ElementOfSeq DEF CacheSound, CachedTokens, TokensOf, EntryOf

\* Without the entry of k, the cache is sound and k is not in it.
LEMMA WithoutEntry ==
    ASSUME NEW tk, CacheSound(jwtCache, tokens), CacheSound(jwtCache, tk), NEW k \in CachedTokens
    PROVE  LET c == RemoveAt(jwtCache, EntryOf(k)) IN
           /\ CacheSound(c, tk) /\ Len(c) = Len(jwtCache) - 1
           /\ TokensOf(c) \subseteq CachedTokens /\ k \notin TokensOf(c)
<1> DEFINE e == EntryOf(k)
           n == Len(jwtCache)
           d == RemoveAt(jwtCache, e)
           f == [j \in 1 .. n - 1 |-> IF j < e THEN j ELSE j + 1]
<1>1. /\ jwtCache \in Seq(CacheEntries) /\ n \in Nat /\ e \in 1 .. n /\ DOMAIN jwtCache = 1 .. n
      /\ jwtCache[e].token = k /\ CachedTokens = TokensOf(jwtCache)
      /\ \A i, j \in 1 .. n : i # j => jwtCache[i].token # jwtCache[j].token
  BY CachedAt DEF CacheSound
<1> HIDE DEF e
<1>2. /\ d \in Seq(CacheEntries) /\ Len(d) = n - 1
      /\ \A j \in 1 .. n - 1 : d[j] = IF j < e THEN jwtCache[j] ELSE jwtCache[j + 1]
  BY <1>1, RemoveAtKeeps, ZenonT(40)
<1> HIDE DEF d, n
<1>3. /\ f \in [1 .. n - 1 -> 1 .. n] /\ \A i, j \in 1 .. n - 1 : i # j => f[i] # f[j]
      /\ \A j \in 1 .. n - 1 : f[j] # e
  BY <1>1
<1>4. \A j \in 1 .. n - 1 : d[j] = jwtCache[f[j]]
  BY <1>1, <1>2
<1> HIDE DEF f
<1>5. CacheSound(d, tk) /\ TokensOf(d) \subseteq TokensOf(jwtCache)
  <2>1. Len(d) <= Len(jwtCache)
    BY <1>1, <1>2 DEF n
  <2>2. f \in [1 .. Len(d) -> 1 .. Len(jwtCache)] /\ \A i, j \in 1 .. Len(d) : i # j => f[i] # f[j]
    BY <1>2, <1>3 DEF n
  <2>3. \A j \in 1 .. Len(d) : d[j] = jwtCache[f[j]]
    BY <1>2, <1>4
  <2> QED BY <1>2, <2>1, <2>2, <2>3, Thinned
<1>6. k \notin TokensOf(d)
  <2> SUFFICES ASSUME NEW j \in 1 .. Len(d), d[j].token = k PROVE FALSE
    BY DEF TokensOf
  <2>1. j \in 1 .. n - 1 /\ f[j] \in 1 .. n /\ f[j] # e /\ d[j] = jwtCache[f[j]]
    BY <1>2, <1>3, <1>4
  <2> QED BY <1>1, <2>1
<1> QED BY <1>1, <1>2, <1>5, <1>6 DEF d, e, n

\* Some entries in their order: those of the positions in P.
LEMMA EntriesIn ==
    ASSUME NEW tk, CacheSound(jwtCache, tokens), CacheSound(jwtCache, tk), NEW P \in SUBSET (1 .. Len(jwtCache))
    PROVE  CacheSound(EntriesAt(P), tk) /\ TokensOf(EntriesAt(P)) \subseteq CachedTokens
<1> DEFINE n == Len(jwtCache)
           c == Cardinality(P)
           f == CHOOSE f \in [1 .. c -> P] : \A i, j \in DOMAIN f : i < j => f[i] < f[j]
<1>1. jwtCache \in Seq(CacheEntries) /\ n \in Nat /\ CachedTokens = TokensOf(jwtCache)
  BY CachedAt DEF CacheSound
<1>2. c \in Nat /\ c <= n
  <2>1. IsFiniteSet(1 .. n) /\ Cardinality(1 .. n) = n
    <3> HIDE DEF n
    <3>1. IsFiniteSet(1 .. n) /\ Cardinality(1 .. n) = IF 1 > n THEN 0 ELSE n - 1 + 1
      BY <1>1, FS_Interval
    <3> QED BY <1>1, <3>1
  <2>2. IsFiniteSet(P) /\ Cardinality(P) <= n
    BY <2>1, FS_Subset
  <2> QED BY <2>2, FS_CardinalityType
<1>3. f \in [1 .. c -> P] /\ \A i, j \in DOMAIN f : i < j => f[i] < f[j]
  <2>1. \E g \in [1 .. c -> P] : Increasing(g)
    BY <1>1, Listed
  <2>2. \E g \in [1 .. c -> P] : \A i, j \in DOMAIN g : i < j => g[i] < g[j]
    BY <2>1 DEF Increasing
  <2> HIDE DEF c
  <2> QED BY <2>2
<1>4. EntriesAt(P) = [i \in 1 .. c |-> jwtCache[f[i]]]
  BY DEF EntriesAt
<1> HIDE DEF f, c, n
<1> DEFINE d == [i \in 1 .. c |-> jwtCache[f[i]]]
<1>5. f \in [1 .. c -> 1 .. n] /\ DOMAIN f = 1 .. c
  BY <1>3 DEF n
<1>6. \A i \in 1 .. c : jwtCache[f[i]] \in CacheEntries
  BY <1>1, <1>5, ElementOfSeq DEF n
<1>7. d \in Seq(CacheEntries) /\ Len(d) = c
  BY <1>2, <1>6
<1>8. \A i \in 1 .. c : d[i] = jwtCache[f[i]]
  OBVIOUS
<1>9. \A i, j \in 1 .. c : i # j => f[i] # f[j]
  BY <1>2, <1>3, <1>5
<1> HIDE DEF d
<1>10. CacheSound(d, tk) /\ TokensOf(d) \subseteq TokensOf(jwtCache)
  BY <1>1, <1>2, <1>5, <1>7, <1>8, <1>9, Thinned, SMTT(30) DEF n
<1> QED BY <1>1, <1>4, <1>10 DEF d

\* A token put in front of a sound cache.
LEMMA PutIn ==
    ASSUME CacheSound(jwtCache, tokens), clock \in Nat, tokens \in Seq(SessTokens),
           NEW k \in 1 .. Len(tokens), jwt_cache_put(k)
    PROVE  CacheSound(jwtCache', tokens) /\ TokensOf(jwtCache') \subseteq CachedTokens \cup {k}
<1> DEFINE n == Len(jwtCache)
           rest == IF k \in CachedTokens THEN RemoveAt(jwtCache, EntryOf(k))
                   ELSE IF n >= CacheMax THEN SubSeq(jwtCache, 1, n - 1)
                   ELSE jwtCache
           entry == IF k \in CachedTokens THEN [jwtCache[EntryOf(k)] EXCEPT !.at = clock]
                    ELSE [token |-> k, exp |-> tokens[k].exp, at |-> clock]
           d == <<entry>> \o rest
<1>1. jwtCache' = d
  BY DEF jwt_cache_put
<1>2. /\ jwtCache \in Seq(CacheEntries) /\ n \in Nat /\ n <= CacheMax /\ CacheMax \in Nat /\ CacheMax > 0
      /\ CachedTokens = TokensOf(jwtCache) /\ k \in Nat /\ tokens[k].exp \in Nat
  <2>1. tokens[k] \in SessTokens
    BY ElementOfSeq
  <2>2. k \in Nat /\ tokens[k].exp \in Nat
    BY <2>1 DEF SessTokens
  <2> QED BY <2>2, CachedAt, SessionsAssumption DEF CacheSound
<1>3. entry \in CacheEntries /\ entry.token = k /\ entry.exp = tokens[k].exp
  BY CachedAt, <1>2 DEF CacheSound, CacheEntries
<1>4. /\ CacheSound(rest, tokens) /\ Len(rest) < CacheMax /\ TokensOf(rest) \subseteq CachedTokens
      /\ k \notin TokensOf(rest)
  <2>1. CASE k \in CachedTokens
    <3>1. rest = RemoveAt(jwtCache, EntryOf(k))
      BY <2>1
    <3>2. CacheSound(rest, tokens) /\ Len(rest) = n - 1 /\ TokensOf(rest) \subseteq CachedTokens /\ k \notin TokensOf(rest)
      BY <2>1, <3>1, WithoutEntry
    <3> HIDE DEF rest, n
    <3> QED BY <1>2, <3>2
  <2>2. CASE k \notin CachedTokens /\ n >= CacheMax
    <3> DEFINE c == SubSeq(jwtCache, 1, n - 1)
               f == [i \in 1 .. n - 1 |-> i]
    <3>1. rest = c
      BY <2>2
    <3>2. n >= 1 /\ \A i \in 1 .. n - 1 : jwtCache[i] \in CacheEntries /\ i \in 1 .. n
      BY <1>2, <2>2, ElementOfSeq
    <3>3. c \in Seq(CacheEntries) /\ Len(c) = n - 1 /\ \A i \in 1 .. n - 1 : c[i] = jwtCache[i]
      <4>1. /\ c \in Seq(CacheEntries) /\ Len(c) = (IF 1 <= n - 1 THEN (n - 1) - 1 + 1 ELSE 0)
            /\ \A i \in 1 .. (n - 1) - 1 + 1 : c[i] = jwtCache[1 + i - 1]
        <5> HIDE DEF n
        <5> QED BY <1>2, <3>2, SubSeqProperties
      <4> HIDE DEF c, n
      <4> QED BY <1>2, <3>2, <4>1
    <3> HIDE DEF c, rest
    <3>4. /\ f \in [1 .. Len(c) -> 1 .. Len(jwtCache)] /\ \A i, j \in 1 .. Len(c) : i # j => f[i] # f[j]
          /\ \A i \in 1 .. Len(c) : c[i] = jwtCache[f[i]]
      BY <1>2, <3>2, <3>3
    <3>5. Len(c) <= Len(jwtCache)
      BY <1>2, <3>3
    <3> HIDE DEF f
    <3>6. CacheSound(c, tokens) /\ TokensOf(c) \subseteq TokensOf(jwtCache)
      BY <3>3, <3>4, <3>5, Thinned
    <3> HIDE DEF n
    <3> QED BY <1>2, <2>2, <3>1, <3>3, <3>6
  <2>3. CASE k \notin CachedTokens /\ ~ (n >= CacheMax)
    BY <1>2, <2>3
  <2> QED BY <2>1, <2>2, <2>3
<1> HIDE DEF entry, rest
<1> DEFINE m == Len(rest)
<1>5. rest \in Seq(CacheEntries) /\ m \in Nat /\ <<entry>> \in Seq(CacheEntries) /\ Len(<<entry>>) = 1
  BY <1>3, <1>4 DEF CacheSound
<1>6. /\ d \in Seq(CacheEntries) /\ Len(d) = 1 + m /\ d[1] = entry
      /\ \A i \in 2 .. 1 + m : d[i] = rest[i - 1] /\ i - 1 \in 1 .. m
  <2>1. /\ d \in Seq(CacheEntries) /\ Len(d) = 1 + m
        /\ \A i \in 1 .. 1 + m : d[i] = IF i <= 1 THEN <<entry>>[i] ELSE rest[i - 1]
    BY <1>5, ConcatProperties
  <2> HIDE DEF d, m
  <2>2. m \in Nat /\ <<entry>>[1] = entry
    BY <1>5
  <2>3. 1 \in 1 .. 1 + m /\ \A i \in 2 .. 1 + m : i \in 1 .. 1 + m /\ ~ (i <= 1) /\ i - 1 \in 1 .. m
    BY <2>2
  <2> QED BY <2>1, <2>2, <2>3
<1>7. /\ \A i \in 1 .. m : rest[i].token \in 1 .. Len(tokens) /\ rest[i].exp = tokens[rest[i].token].exp
      /\ \A i, j \in 1 .. m : i # j => rest[i].token # rest[j].token
      /\ \A i \in 1 .. m : rest[i].token # k
  BY <1>4 DEF CacheSound, TokensOf
<1> HIDE DEF d
<1>8. \A i \in 1 .. 1 + m : i = 1 \/ i \in 2 .. 1 + m
  BY <1>5
<1> HIDE DEF m
<1>9. ASSUME NEW i \in 1 .. 1 + m PROVE d[i].token \in 1 .. Len(tokens) /\ d[i].exp = tokens[d[i].token].exp
  BY <1>3, <1>6, <1>7, <1>8
<1>10. ASSUME NEW i \in 1 .. 1 + m, NEW j \in 1 .. 1 + m, i # j PROVE d[i].token # d[j].token
  <2>1. CASE i = 1
    BY <1>3, <1>6, <1>7, <1>8, <1>10, <2>1
  <2>2. CASE j = 1
    BY <1>3, <1>6, <1>7, <1>8, <1>10, <2>2
  <2>3. CASE i \in 2 .. 1 + m /\ j \in 2 .. 1 + m
    <3>1. i - 1 # j - 1
      BY <1>5, <1>10, <2>3
    <3> QED BY <1>6, <1>7, <2>3, <3>1
  <2> QED BY <1>8, <2>1, <2>2, <2>3
<1>11. CacheSound(d, tokens)
  BY <1>2, <1>4, <1>5, <1>6, <1>9, <1>10 DEF m, CacheSound
<1>12. TokensOf(d) \subseteq CachedTokens \cup {k}
  <2> SUFFICES ASSUME NEW i \in 1 .. 1 + m PROVE d[i].token \in CachedTokens \cup {k}
    BY <1>6 DEF TokensOf
  <2>1. CASE i = 1
    BY <1>3, <1>6, <2>1
  <2>2. CASE i \in 2 .. 1 + m
    BY <1>6, <2>2, <1>4 DEF m, TokensOf
  <2> QED BY <1>8, <2>1, <2>2
<1> QED BY <1>1, <1>11, <1>12

\* Some request has the token k verified, and not yet put in the cache.
Putting(k)    == \E o \in SThreads : req[o].pc = "put" /\ req[o].tok = k
LoggingOut(k) == \E o \in SThreads : req[o].out /\ req[o].tok = k

\* What a step does to the cache and to the answers: a token gets into the cache only
\* after its session was found active, and is noted when its logout runs meanwhile.
CacheStep ==
    /\ CacheSound(jwtCache', tokens) /\ raced \subseteq raced'
    /\ \A k \in Nat : k \in TokensOf(jwtCache') =>
          k \in CachedTokens \/ (Putting(k) /\ (LoggingOut(k) => k \in raced'))
    /\ \A o \in SThreads, k \in Nat : req'[o].pc = "put" /\ req'[o].tok = k => Putting(k) \/ ActiveWith(k) # {}
    /\ \/ accepted' = accepted
       \/ /\ accepted'.token \in 1 .. Len(tokens) /\ accepted'.time <= tokens[accepted'.token].exp
          /\ accepted'.token \in CachedTokens \/ ActiveWith(accepted'.token) # {}

\* A step that leaves the cache and the answers alone.
LEMMA CacheStill ==
    ASSUME CacheSound(jwtCache, tokens), jwtCache' = jwtCache, raced \subseteq raced', accepted' = accepted,
           \A o \in SThreads : req'[o].pc = "put" => req'[o] = req[o]
    PROVE  CacheStep
<1>1. TokensOf(jwtCache') = CachedTokens
  BY CachedAt
<1>2. \A o \in SThreads, k \in Nat : req'[o].pc = "put" /\ req'[o].tok = k => Putting(k)
  BY DEF Putting
<1> HIDE DEF Putting, LoggingOut
<1> QED BY <1>1, <1>2 DEF CacheStep

LEMMA NoPut ==
    ASSUME NEW t \in SThreads, NEW r, Onward(t, r), r.pc # "put"
    PROVE  \A o \in SThreads : req'[o].pc = "put" => req'[o] = req[o]
BY DEF Onward

LEMMA CacheOfReads ==
    ASSUME SessTypes, SessPlaces, CacheSound(jwtCache, tokens), NEW t \in SThreads, Reads(t)
    PROVE  CacheStep
<1> DEFINE q == req[t]
<1>0. Idle.pc # "put" /\ clock \in Nat
  BY IdleIs DEF SessTypes
<1>1. ASSUME CacheAlone, accepted' = accepted, NEW r, Onward(t, r), r.pc # "put" PROVE CacheStep
  BY <1>1, CacheStill, NoPut DEF CacheAlone
<1>2. ASSUME NEW k \in DOMAIN tokens, authenticate(t, k) PROVE CacheStep
  <2>1. PICK r : /\ Onward(t, r) /\ r.tok = k /\ r.new = 0 /\ r.ids = <<>> /\ r.out = FALSE
                 /\ \/ r.pc = "extend" /\ jwt_cache_get(k) /\ accepted' = [token |-> k, time |-> clock]
                    \/ r.pc = "lookup" /\ accepted' = accepted
    BY <1>2, Asks, ZenonT(40)
  <2>2. jwtCache' = jwtCache /\ raced' = raced /\ loggedOut' = loggedOut
    BY <1>2, Asks
  <2>3. CASE accepted' = accepted
    BY <1>1, <2>1, <2>2, <2>3 DEF CacheAlone
  <2>4. CASE jwt_cache_get(k) /\ accepted' = [token |-> k, time |-> clock]
    <3>1. k \in CachedTokens /\ clock < jwtCache[EntryOf(k)].exp
      BY <2>4 DEF jwt_cache_get
    <3>2. EntryOf(k) \in 1 .. Len(jwtCache) /\ jwtCache[EntryOf(k)].token = k
      BY <3>1, CachedAt
    <3>3. k \in 1 .. Len(tokens) /\ clock < tokens[k].exp
      BY <3>1, <3>2 DEF CacheSound
    <3>4. tokens[k].exp \in Nat
      <4>1. tokens[k] \in SessTokens
        BY <3>3, ElementOfSeq DEF SessTypes
      <4> QED BY <4>1 DEF SessTokens
    <3>5. clock <= tokens[k].exp
      BY <1>0, <3>3, <3>4
    <3>6. TokensOf(jwtCache') = CachedTokens
      BY <2>2, CachedAt
    <3>7. \A o \in SThreads, x \in Nat : req'[o].pc = "put" /\ req'[o].tok = x => Putting(x)
      BY <2>1, NoPut DEF Putting
    <3> HIDE DEF Putting, LoggingOut, ActiveWith, CachedTokens
    <3> QED BY <2>2, <2>4, <3>1, <3>3, <3>5, <3>6, <3>7 DEF CacheStep
  <2> QED BY <2>1, <2>3, <2>4
<1>3. ASSUME NEW k \in DOMAIN tokens, logout(t, k) PROVE CacheStep
  <2>1. PICK r : /\ Onward(t, r) /\ r.tok = k /\ r.new = 0 /\ r.ids = <<>> /\ r.out = TRUE
                 /\ r.pc = "uncache" /\ ActiveWith(k) # {}
    BY <1>3, Asks, ZenonT(40)
  <2>2. CacheAlone /\ accepted' = accepted
    BY <1>3, Asks DEF CacheAlone
  <2> QED BY <1>1, <2>1, <2>2
<1>4. ASSUME NEW k \in DOMAIN tokens, change_password(t, k) PROVE CacheStep
  <2>1. PICK r : /\ Onward(t, r) /\ r.tok = k /\ r.new = 0 /\ r.ids = <<>> /\ r.out = FALSE /\ r.pc = "passwd"
    BY <1>4, Asks, ZenonT(40)
  <2>2. CacheAlone /\ accepted' = accepted
    BY <1>4, Asks DEF CacheAlone
  <2> QED BY <1>1, <2>1, <2>2
<1>5. ASSUME NEW k \in DOMAIN tokens, token_refresh(t, k) PROVE CacheStep
  <2>1. PICK r : /\ Onward(t, r) /\ r.pc = "old" /\ r.tok = k /\ r.new = Len(tokens) + 1
                 /\ r.ids = <<>> /\ r.out = FALSE
    BY <1>5, Opens
  <2>2. CacheAlone /\ accepted' = accepted
    BY <1>5, Opens
  <2> QED BY <1>1, <2>1, <2>2
<1>6. ASSUME NEW u \in SUsers, NEW pw \in Nat, login(t, u, pw) PROVE CacheStep
  <2>1. PICK r : /\ Onward(t, r) /\ r.pc = "others" /\ r.tok = 0 /\ r.new = Len(tokens) + 1
                 /\ r.ids = <<>> /\ r.out = FALSE
    BY <1>6, Opens
  <2>2. CacheAlone /\ accepted' = accepted
    BY <1>6, Opens
  <2> QED BY <1>1, <2>1, <2>2
<1>7. CASE lookup(t)
  <2>1. PICK r : /\ Onward(t, r)
                 /\ \/ r = Idle /\ accepted' = accepted
                    \/ /\ r.pc = "put" /\ r.ids = q.ids /\ Keeps(r, q)
                       /\ ActiveWith(q.tok) # {} /\ jwt_verify(q.tok)
                       /\ accepted' = [token |-> q.tok, time |-> clock]
    BY <1>7, Looks
  <2>2. jwtCache' = jwtCache /\ raced' = raced /\ loggedOut' = loggedOut /\ q.pc = "lookup"
    BY <1>7, Looks
  <2>3. CASE r = Idle /\ accepted' = accepted
    BY <1>0, <1>1, <2>1, <2>2, <2>3 DEF CacheAlone
  <2>4. CASE /\ Keeps(r, q) /\ ActiveWith(q.tok) # {} /\ jwt_verify(q.tok)
             /\ accepted' = [token |-> q.tok, time |-> clock]
    <3>1. q.tok \in 1 .. Len(tokens)
      BY Carried, ReqIs, <2>2 DEF ReqSound
    <3>2. tokens[q.tok].exp \in Nat
      <4>1. tokens[q.tok] \in SessTokens
        BY <3>1, ElementOfSeq DEF SessTypes
      <4> QED BY <4>1 DEF SessTokens
    <3>3. clock <= tokens[q.tok].exp
      BY <1>0, <2>4, <3>2 DEF jwt_verify
    <3>4. TokensOf(jwtCache') = CachedTokens
      BY <2>2, CachedAt
    <3>5. ASSUME NEW o \in SThreads, NEW x \in Nat, req'[o].pc = "put", req'[o].tok = x
          PROVE  Putting(x) \/ ActiveWith(x) # {}
      BY <2>1, <2>4, <3>5 DEF Onward, Keeps, Putting
    <3> HIDE DEF Putting, LoggingOut, ActiveWith, CachedTokens, q
    <3> QED BY <2>2, <2>4, <3>1, <3>3, <3>4, <3>5 DEF CacheStep
  <2> QED BY <2>1, <2>3, <2>4
<1>8. CASE login_others(t) \/ refresh_old(t)
  <2>1. PICK r : /\ Onward(t, r) /\ r.pc = "kill" /\ Keeps(r, q)
                 /\ (r.ids = <<>> \/ \E s \in 1 .. Len(sessions) : r.ids = <<s>>)
    BY <1>8, Looks
  <2>2. CacheAlone /\ accepted' = accepted
    BY <1>8, Looks DEF CacheAlone
  <2> QED BY <1>1, <2>1, <2>2
<1>9. CASE put(t)
  <2>1. PICK r : Onward(t, r) /\ r.pc = "extend" /\ r.ids = q.ids /\ Keeps(r, q)
    BY <1>9, Uncaches
  <2>2. /\ accepted' = accepted /\ q.pc = "put" /\ jwt_cache_put(q.tok)
        /\ raced' = IF \E o \in SThreads : req[o].out /\ req[o].tok = q.tok
                    THEN raced \cup {q.tok} ELSE raced
    BY <1>9, Uncaches
  <2>3. q.tok \in 1 .. Len(tokens)
    BY Carried, ReqIs, <2>2 DEF ReqSound
  <2>4. CacheSound(jwtCache', tokens) /\ TokensOf(jwtCache') \subseteq CachedTokens \cup {q.tok}
    BY <1>0, <2>2, <2>3, PutIn DEF SessTypes
  <2>5. Putting(q.tok) /\ (LoggingOut(q.tok) => q.tok \in raced') /\ raced \subseteq raced'
    BY <2>2 DEF Putting, LoggingOut
  <2>6. \A o \in SThreads, x \in Nat : req'[o].pc = "put" /\ req'[o].tok = x => Putting(x)
    BY <2>1, NoPut DEF Putting
  <2> HIDE DEF Putting, LoggingOut, ActiveWith, CachedTokens, q
  <2> QED BY <2>2, <2>4, <2>5, <2>6 DEF CacheStep
<1>10. CASE uncache_token(t) \/ uncache_user(t)
  <2>1. PICK r : /\ Onward(t, r) /\ r.ids = q.ids /\ Keeps(r, q)
                 /\ (r.pc = (IF q.out THEN "uncacheUser" ELSE "kill") \/ r.pc = "byToken")
    BY <1>10, Uncaches
  <2>2. accepted' = accepted /\ raced' = raced
    BY <1>10, Uncaches
  <2>3. CacheSound(jwtCache', tokens) /\ TokensOf(jwtCache') \subseteq CachedTokens
    <3>1. CASE uncache_token(t)
      BY <3>1, Uncaches, WithoutEntry, CachedAt DEF jwt_cache_invalidate_token
    <3>2. CASE uncache_user(t)
      <4> DEFINE P == {i \in DOMAIN jwtCache : tokens[jwtCache[i].token].user # tokens[q.tok].user}
      <4>1. jwtCache' = EntriesAt(P)
        BY <3>2, Uncaches DEF jwt_cache_invalidate_user
      <4>2. P \in SUBSET (1 .. Len(jwtCache))
        BY DEF CacheSound
      <4> HIDE DEF P
      <4> QED BY <4>1, <4>2, EntriesIn
    <3> QED BY <1>10, <3>1, <3>2
  <2>4. r.pc # "put"
    BY <2>1
  <2>5. \A o \in SThreads, x \in Nat : req'[o].pc = "put" /\ req'[o].tok = x => Putting(x)
    BY <2>1, <2>4, NoPut DEF Putting
  <2> HIDE DEF Putting, LoggingOut, ActiveWith, CachedTokens, q
  <2> QED BY <2>2, <2>3, <2>5 DEF CacheStep
<1>11. CASE rbac_db_invalidate_sessions_by_token(t)
  <2>1. PICK r : /\ Onward(t, r)
                 /\ \/ r = Idle /\ ActiveWith(q.tok) = {}
                    \/ \E s \in ActiveWith(q.tok) : r.pc = "kill" /\ Keeps(r, q) /\ r.ids = <<s>>
    BY <1>11, Uncaches
  <2>2. CacheAlone /\ accepted' = accepted
    BY <1>11, Uncaches DEF CacheAlone
  <2> QED BY <1>0, <1>1, <2>1, <2>2
<1>12. CASE change_password_write(t)
  BY <1>0, <1>1, <1>12, Uncaches DEF CacheAlone
<1> QED BY <1>2, <1>3, <1>4, <1>5, <1>6, <1>7, <1>8, <1>9, <1>10, <1>11, <1>12 DEF Reads

LEMMA CacheOfWrites ==
    ASSUME SessTypes, CacheSound(jwtCache, tokens), NEW t \in SThreads, Alters(t) \/ Renews(t)
    PROVE  CacheStep
<1> DEFINE q == req[t]
<1>0. Idle.pc # "put"
  BY IdleIs
<1>1. ASSUME jwtCache' = jwtCache, raced \subseteq raced', accepted' = accepted, NEW r, Onward(t, r), r.pc # "put"
      PROVE  CacheStep
  BY <1>1, CacheStill, NoPut
<1>2. CASE extend_read(t)
  <2>1. jwtCache' = jwtCache /\ raced' = raced /\ accepted' = accepted
    BY <1>2, Copies DEF CacheAlone
  <2>2. PICK r : /\ Onward(t, r)
                 /\ \/ r = Idle
                    \/ \E s \in ActiveWith(q.tok), d \in SessDocs :
                          Writes(r, s, d) /\ CopyOf(d, s, q.tok, "system")
    BY <1>2, Copies
  <2>3. r.pc # "put"
    BY <1>0, <2>2 DEF Writes
  <2> QED BY <1>1, <2>1, <2>2, <2>3
<1>3. CASE write_back(t)
  BY <1>0, <1>1, <1>3, WritesBack DEF Elsewhere
<1>4. CASE kill(t)
  <2>1. PICK r : Onward(t, r) /\ r.pc = "kill" /\ r.ids = <<>> /\ Keeps(r, q)
    BY <1>4, Kills
  <2> QED BY <1>1, <1>4, <2>1, Kills DEF Elsewhere
<1>5. ASSUME NEW k \in DOMAIN tokens, NEW s \in DOMAIN sessions, terminate_session(t, k, s) PROVE CacheStep
  <2>1. PICK d \in SessDocs :
                     /\ Rewritten(s, d) /\ SameSession(d, s) /\ d.active = sessions[s].active
                     /\ d.copy \in 1 .. Len(tokens)
                     /\ \E r : /\ Onward(t, r) /\ r.pc = "uncache" /\ r.tok = d.copy /\ r.new = 0
                               /\ r.ids = <<s>> /\ r.out = FALSE
    BY <1>5, Terminates
  <2>2. PICK r : /\ Onward(t, r) /\ r.pc = "uncache" /\ r.tok = d.copy /\ r.new = 0
                 /\ r.ids = <<s>> /\ r.out = FALSE
    BY <2>1
  <2> QED BY <1>1, <1>5, <2>2, Terminates DEF Elsewhere
<1>6. ASSUME NEW k \in DOMAIN tokens, NEW s \in DOMAIN sessions, session_terminate(t, k, s) PROVE CacheStep
  <2>1. PICK r : /\ Onward(t, r) /\ r.pc = "kill" /\ r.tok = 0 /\ r.new = 0
                 /\ r.ids = <<s>> /\ r.out = FALSE
    BY <1>6, AdminTerminates
  <2> QED BY <1>1, <1>6, <2>1, AdminTerminates DEF Elsewhere
<1>7. ASSUME NEW k \in DOMAIN tokens, NEW s \in DOMAIN sessions, delete_session(t, k, s) PROVE CacheStep
  BY <1>7, Deletes, CacheStill DEF Elsewhere
<1>8. CASE kill_end(t)
  BY <1>8, KillEnds, <1>0, <1>1
<1>9. ASSUME NEW k \in DOMAIN tokens, NEW l \in {"default", "system"}, switch_library(t, k, l) PROVE CacheStep
  <2>1. jwtCache' = jwtCache /\ raced' = raced /\ accepted' = accepted
    BY <1>9, Copies DEF CacheAlone
  <2>2. PICK r : /\ Onward(t, r)
                 /\ \/ r = Idle
                    \/ \E s \in ActiveWith(k), d \in SessDocs :
                          Writes(r, s, d) /\ CopyOf(d, s, Len(tokens) + 1, l)
    BY <1>9, Copies
  <2>3. r.pc # "put"
    BY <1>0, <2>2 DEF Writes
  <2> QED BY <1>1, <2>1, <2>2, <2>3
<1> QED BY <1>2, <1>3, <1>4, <1>5, <1>6, <1>7, <1>8, <1>9 DEF Alters, Renews

LEMMA CacheMoves ==
    ASSUME SessTypes, SessPlaces, CacheSound(jwtCache, tokens), [SessNext]_sessVars
    PROVE  CacheStep
  BY CacheStill, CacheOfReads, CacheOfWrites, SessCases DEF Tick, sessVars, history

\* The cache is well formed, and no answer was given for an expired token.
SessCache ==
    /\ CacheSound(jwtCache, tokens)
    /\ accepted.token # 0 =>
          accepted.token \in 1 .. Len(tokens) /\ accepted.time <= tokens[accepted.token].exp

LEMMA CacheKept ==
    ASSUME SessTypes, SessPlaces, SessCache, [SessNext]_sessVars
    PROVE  SessCache' /\ CachedTokens' = TokensOf(jwtCache')
<1>1. SessGrown(tokens, sessions, tokens', sessions') /\ SessTypes' /\ CacheStep
  BY SessMoves, CacheMoves DEF SessCache
<1>2. Len(tokens) \in Nat /\ Len(tokens') \in Nat /\ \A k \in 1 .. Len(tokens) : k \in 1 .. Len(tokens') /\ tokens'[k] = tokens[k]
  BY <1>1 DEF SessTypes, SessGrown
<1>3. CacheSound(jwtCache', tokens)
  BY <1>1 DEF CacheStep
<1>4. CacheSound(jwtCache', tokens')
  BY <1>2, <1>3 DEF CacheSound
<1>5. accepted'.token # 0 =>
          accepted'.token \in 1 .. Len(tokens') /\ accepted'.time <= tokens'[accepted'.token].exp
  BY <1>2, <1>1 DEF SessCache, CacheStep
<1>6. DOMAIN jwtCache' = 1 .. Len(jwtCache')
  BY <1>3 DEF CacheSound
<1>7. CachedTokens' = TokensOf(jwtCache')
  BY <1>6 DEF CachedTokens, TokensOf
<1>8. SessCache'
  BY <1>4, <1>5 DEF SessCache, CacheSound
<1> QED BY <1>7, <1>8

\* Where a logout of token k goes: out of the cache, to the session it found, to the end.
LogoutMoves(q, r, k) ==
    /\ q.out /\ q.tok = k
    /\ \/ r.pc = "uncacheUser" /\ k \notin TokensOf(jwtCache')
       \/ q.pc = "uncacheUser" /\ r.pc = "byToken"
       \/ q.pc = "byToken" /\ r.pc = "kill" /\ \E s \in ActiveWith(k) : r.ids = <<s>>
       \/ q.pc = "kill" /\ r.pc = "kill" /\ r.ids = <<>> /\ \E s \in killed' : q.ids = <<s>>

\* A logout whose list is done is answered.
Answered(k) ==
    \E o \in SThreads : /\ req[o].out /\ req[o].tok = k /\ req[o].pc = "kill" /\ req[o].ids = <<>>
                        /\ jwtCache' = jwtCache /\ (Putting(k) => k \in raced')
                        /\ \A p \in SThreads : req'[p].pc = "put" => req'[p] = req[p]

LogStep ==
    /\ killed \subseteq killed' /\ stale \subseteq stale'
    /\ \A o \in SThreads, k \in Nat : req'[o].out /\ req'[o].tok = k =>
          req'[o] = req[o] \/ req'[o].pc = "uncache" \/ LogoutMoves(req[o], req'[o], k)
    /\ \A k \in Nat : k \in loggedOut' => k \in loggedOut \/ Answered(k)

\* A step that no logout takes, or its first.
LEMMA LogStill ==
    ASSUME killed \subseteq killed', stale \subseteq stale', loggedOut' = loggedOut,
           NEW t \in SThreads, NEW r, Onward(t, r), r.out = FALSE \/ r.pc = "uncache"
    PROVE  LogStep
<1>1. \A o \in SThreads : req'[o].out => req'[o] = req[o] \/ req'[o].pc = "uncache"
  BY DEF Onward
<1> HIDE DEF LogoutMoves, Answered
<1> QED BY <1>1 DEF LogStep

\* A step of a logout.
LEMMA LogMoved ==
    ASSUME killed \subseteq killed', stale \subseteq stale', loggedOut' = loggedOut,
           NEW t \in SThreads, NEW r, Onward(t, r), r.out => LogoutMoves(req[t], r, r.tok)
    PROVE  LogStep
<1>1. \A o \in SThreads : req'[o].out => req'[o] = req[o] \/ LogoutMoves(req[o], req'[o], req'[o].tok)
  <2> HIDE DEF LogoutMoves
  <2> QED BY DEF Onward
<1> HIDE DEF LogoutMoves, Answered
<1> QED BY <1>1 DEF LogStep

LEMMA LogOfReads ==
    ASSUME SessTypes, SessPlaces, CacheSound(jwtCache, tokens), NEW t \in SThreads, Reads(t)
    PROVE  LogStep
<1> DEFINE q == req[t]
<1>0. Idle.out = FALSE /\ q.out \in BOOLEAN /\ ReqSound(q, tokens, sessions)
  BY IdleIs, ReqIs DEF SessReqs
<1>k. killed \subseteq killed' /\ stale \subseteq stale'
  BY ReadsMove DEF Unkilled
<1>1. ASSUME NEW k \in DOMAIN tokens, authenticate(t, k) PROVE LogStep
  <2>1. PICK r : /\ Onward(t, r) /\ r.tok = k /\ r.new = 0 /\ r.ids = <<>> /\ r.out = FALSE
                 /\ \/ r.pc = "extend" /\ jwt_cache_get(k) /\ accepted' = [token |-> k, time |-> clock]
                    \/ r.pc = "lookup" /\ accepted' = accepted
    BY <1>1, Asks, ZenonT(40)
  <2>2. loggedOut' = loggedOut
    BY <1>1, Asks
  <2> QED BY <1>k, <2>1, <2>2, LogStill
<1>2. ASSUME NEW k \in DOMAIN tokens, logout(t, k) PROVE LogStep
  <2>1. PICK r : /\ Onward(t, r) /\ r.tok = k /\ r.new = 0 /\ r.ids = <<>> /\ r.out = TRUE
                 /\ r.pc = "uncache" /\ ActiveWith(k) # {}
    BY <1>2, Asks, ZenonT(40)
  <2>2. loggedOut' = loggedOut
    BY <1>2, Asks
  <2> QED BY <1>k, <2>1, <2>2, LogStill
<1>3. ASSUME NEW k \in DOMAIN tokens, change_password(t, k) PROVE LogStep
  <2>1. PICK r : /\ Onward(t, r) /\ r.tok = k /\ r.new = 0 /\ r.ids = <<>> /\ r.out = FALSE /\ r.pc = "passwd"
    BY <1>3, Asks, ZenonT(40)
  <2>2. loggedOut' = loggedOut
    BY <1>3, Asks
  <2> QED BY <1>k, <2>1, <2>2, LogStill
<1>4. ASSUME NEW k \in DOMAIN tokens, token_refresh(t, k) PROVE LogStep
  <2>1. PICK r : /\ Onward(t, r) /\ r.pc = "old" /\ r.tok = k /\ r.new = Len(tokens) + 1
                 /\ r.ids = <<>> /\ r.out = FALSE
    BY <1>4, Opens
  <2>2. loggedOut' = loggedOut
    BY <1>4, Opens DEF CacheAlone
  <2> QED BY <1>k, <2>1, <2>2, LogStill
<1>5. ASSUME NEW u \in SUsers, NEW pw \in Nat, login(t, u, pw) PROVE LogStep
  <2>1. PICK r : /\ Onward(t, r) /\ r.pc = "others" /\ r.tok = 0 /\ r.new = Len(tokens) + 1
                 /\ r.ids = <<>> /\ r.out = FALSE
    BY <1>5, Opens
  <2>2. loggedOut' = loggedOut
    BY <1>5, Opens DEF CacheAlone
  <2> QED BY <1>k, <2>1, <2>2, LogStill
<1>6. CASE lookup(t)
  <2>1. PICK r : /\ Onward(t, r)
                 /\ \/ r = Idle /\ accepted' = accepted
                    \/ /\ r.pc = "put" /\ r.ids = q.ids /\ Keeps(r, q)
                       /\ ActiveWith(q.tok) # {} /\ jwt_verify(q.tok)
                       /\ accepted' = [token |-> q.tok, time |-> clock]
    BY <1>6, Looks
  <2>2. loggedOut' = loggedOut /\ q.pc = "lookup"
    BY <1>6, Looks
  <2>3. r.out = FALSE
    BY <1>0, <2>1, <2>2 DEF Keeps, ReqSound
  <2> QED BY <1>k, <2>1, <2>2, <2>3, LogStill
<1>7. CASE login_others(t) \/ refresh_old(t)
  <2>1. PICK r : /\ Onward(t, r) /\ r.pc = "kill" /\ Keeps(r, q)
                 /\ (r.ids = <<>> \/ \E s \in 1 .. Len(sessions) : r.ids = <<s>>)
    BY <1>7, Looks
  <2>2. loggedOut' = loggedOut /\ q.pc \in {"others", "old"}
    BY <1>7, Looks
  <2>3. r.out = FALSE
    BY <1>0, <2>1, <2>2 DEF Keeps, ReqSound
  <2> QED BY <1>k, <2>1, <2>2, <2>3, LogStill
<1>8. CASE put(t)
  <2>1. PICK r : Onward(t, r) /\ r.pc = "extend" /\ r.ids = q.ids /\ Keeps(r, q)
    BY <1>8, Uncaches
  <2>2. loggedOut' = loggedOut /\ q.pc = "put"
    BY <1>8, Uncaches
  <2>3. r.out = FALSE
    BY <1>0, <2>1, <2>2 DEF Keeps, ReqSound
  <2> QED BY <1>k, <2>1, <2>2, <2>3, LogStill
<1>9. CASE uncache_token(t)
  <2>1. PICK r : /\ Onward(t, r) /\ r.ids = q.ids /\ Keeps(r, q)
                 /\ r.pc = IF q.out THEN "uncacheUser" ELSE "kill"
    BY <1>9, Uncaches
  <2>2. /\ loggedOut' = loggedOut /\ q.pc = "uncache"
        /\ jwtCache' = IF q.tok \in CachedTokens THEN RemoveAt(jwtCache, EntryOf(q.tok)) ELSE jwtCache
    BY <1>9, Uncaches DEF jwt_cache_invalidate_token
  <2>3. q.tok \notin TokensOf(jwtCache')
    BY <2>2, WithoutEntry, CachedAt
  <2>4. r.out => LogoutMoves(q, r, r.tok)
    BY <2>1, <2>3 DEF Keeps, LogoutMoves
  <2> QED BY <1>k, <2>1, <2>2, <2>4, LogMoved
<1>10. CASE uncache_user(t)
  <2>1. PICK r : Onward(t, r) /\ r.pc = "byToken" /\ r.ids = q.ids /\ Keeps(r, q)
    BY <1>10, Uncaches
  <2>2. loggedOut' = loggedOut /\ q.pc = "uncacheUser"
    BY <1>10, Uncaches
  <2>3. r.out => LogoutMoves(q, r, r.tok)
    BY <2>1, <2>2 DEF Keeps, LogoutMoves
  <2> QED BY <1>k, <2>1, <2>2, <2>3, LogMoved
<1>11. CASE rbac_db_invalidate_sessions_by_token(t)
  <2>1. PICK r : /\ Onward(t, r)
                 /\ \/ r = Idle /\ ActiveWith(q.tok) = {}
                    \/ \E s \in ActiveWith(q.tok) : r.pc = "kill" /\ Keeps(r, q) /\ r.ids = <<s>>
    BY <1>11, Uncaches
  <2>2. loggedOut' = loggedOut /\ q.pc = "byToken"
    BY <1>11, Uncaches
  <2>3. CASE r = Idle
    BY <1>0, <1>k, <2>1, <2>2, <2>3, LogStill
  <2>4. CASE \E s \in ActiveWith(q.tok) : r.pc = "kill" /\ Keeps(r, q) /\ r.ids = <<s>>
    BY <2>2, <2>4, <1>k, <2>1, LogMoved DEF Keeps, LogoutMoves
  <2> QED BY <2>1, <2>3, <2>4
<1>12. CASE change_password_write(t)
  BY <1>0, <1>k, <1>12, Uncaches, LogStill
<1> QED BY <1>1, <1>2, <1>3, <1>4, <1>5, <1>6, <1>7, <1>8, <1>9, <1>10, <1>11, <1>12 DEF Reads

LEMMA LogOfWrites ==
    ASSUME SessTypes, CacheSound(jwtCache, tokens), NEW t \in SThreads, Alters(t) \/ Renews(t)
    PROVE  LogStep
<1> DEFINE q == req[t]
<1>0. Idle.out = FALSE /\ killed \subseteq 1 .. Len(sessions) /\ stale \subseteq killed
  BY IdleIs DEF SessTypes
<1>2. CASE extend_read(t)
  <2>1. killed' = killed /\ stale' = stale /\ loggedOut' = loggedOut
    BY <1>2, Copies DEF CacheAlone, Unwritten
  <2>2. PICK r : /\ Onward(t, r)
                 /\ \/ r = Idle
                    \/ \E s \in ActiveWith(q.tok), d \in SessDocs :
                          Writes(r, s, d) /\ CopyOf(d, s, q.tok, "system")
    BY <1>2, Copies
  <2>3. r.out = FALSE
    BY <1>0, <2>2 DEF Writes
  <2> QED BY <2>1, <2>2, <2>3, LogStill
<1>3. CASE write_back(t)
  BY <1>3, WritesBack, <1>0, LogStill DEF Unmarked, Unkilled
<1>4. CASE kill(t)
  <2>1. PICK r : Onward(t, r) /\ r.pc = "kill" /\ r.ids = <<>> /\ Keeps(r, q)
    BY <1>4, Kills
  <2>2. PICK s \in 1 .. Len(sessions), d \in SessDocs :
                 /\ q.ids = <<s>> /\ NoteKilled({s}) /\ Rewritten(s, d)
                 /\ SameSession(d, s) /\ d.copy = sessions[s].copy /\ ~ (d.live /\ d.active)
    BY <1>4, Kills
  <2>3. killed \subseteq killed' /\ s \in killed' /\ stale \subseteq stale'
    BY <1>0, <2>2, NotesIn, SMTT(30)
  <2>4. loggedOut' = loggedOut /\ q.pc = "kill"
    BY <1>4, Kills
  <2>5. r.out => LogoutMoves(q, r, r.tok)
    BY <2>1, <2>2, <2>3, <2>4 DEF Keeps, LogoutMoves
  <2> QED BY <2>1, <2>3, <2>4, <2>5, LogMoved
<1>5. ASSUME NEW k \in DOMAIN tokens, NEW s \in DOMAIN sessions, terminate_session(t, k, s) PROVE LogStep
  <2>1. PICK d \in SessDocs :
                     /\ Rewritten(s, d) /\ SameSession(d, s) /\ d.active = sessions[s].active
                     /\ d.copy \in 1 .. Len(tokens)
                     /\ \E r : /\ Onward(t, r) /\ r.pc = "uncache" /\ r.tok = d.copy /\ r.new = 0
                               /\ r.ids = <<s>> /\ r.out = FALSE
    BY <1>5, Terminates
  <2>2. PICK r : /\ Onward(t, r) /\ r.pc = "uncache" /\ r.tok = d.copy /\ r.new = 0
                 /\ r.ids = <<s>> /\ r.out = FALSE
    BY <2>1
  <2>3. killed' = killed /\ stale' = stale /\ loggedOut' = loggedOut
    BY <1>5, Terminates DEF Unmarked, Unkilled
  <2> QED BY <2>2, <2>3, LogStill
<1>6. ASSUME NEW k \in DOMAIN tokens, NEW s \in DOMAIN sessions, session_terminate(t, k, s) PROVE LogStep
  <2>1. PICK r : /\ Onward(t, r) /\ r.pc = "kill" /\ r.tok = 0 /\ r.new = 0
                 /\ r.ids = <<s>> /\ r.out = FALSE
    BY <1>6, AdminTerminates
  <2>3. killed' = killed /\ stale' = stale /\ loggedOut' = loggedOut
    BY <1>6, AdminTerminates DEF Unmarked, Unkilled
  <2> QED BY <2>1, <2>3, LogStill
<1>7. ASSUME NEW k \in DOMAIN tokens, NEW s \in DOMAIN sessions, delete_session(t, k, s) PROVE LogStep
  <2>1. loggedOut' = loggedOut /\ req' = req /\ NoteKilled({s})
    BY <1>7, Deletes
  <2>2. s \in 1 .. Len(sessions)
    BY <1>7 DEF SessTypes
  <2>3. killed \subseteq killed' /\ stale \subseteq stale'
    BY <1>0, <2>1, <2>2, NotesIn
  <2> HIDE DEF LogoutMoves, Answered
  <2> QED BY <2>1, <2>3 DEF LogStep
<1>8. CASE kill_end(t)
  <2>1. /\ killed' = killed /\ stale' = stale /\ Onward(t, Idle) /\ jwtCache' = jwtCache
        /\ q.pc = "kill" /\ q.ids = <<>>
        /\ loggedOut' = IF q.out THEN loggedOut \cup {q.tok} ELSE loggedOut
        /\ raced' = IF q.out /\ \E o \in SThreads : req[o].pc = "put" /\ req[o].tok = q.tok
                    THEN raced \cup {q.tok} ELSE raced
    BY <1>8, KillEnds DEF Unkilled
  <2>2. \A o \in SThreads : req'[o].out => req'[o] = req[o]
    BY <1>0, <2>1 DEF Onward
  <2>3. \A o \in SThreads : req'[o].pc = "put" => req'[o] = req[o]
    BY <2>1, IdleIs, NoPut
  <2>4. ASSUME NEW k \in Nat, k \in loggedOut', k \notin loggedOut PROVE Answered(k)
    <3>1. q.out /\ q.tok = k
      BY <2>1, <2>4
    <3>2. Putting(k) => k \in raced'
      BY <2>1, <3>1 DEF Putting
    <3> HIDE DEF Putting
    <3> QED BY <2>1, <2>3, <3>1, <3>2 DEF Answered
  <2> HIDE DEF LogoutMoves, Answered
  <2> QED BY <2>1, <2>2, <2>4 DEF LogStep
<1>9. ASSUME NEW k \in DOMAIN tokens, NEW l \in {"default", "system"}, switch_library(t, k, l) PROVE LogStep
  <2>1. killed' = killed /\ stale' = stale /\ loggedOut' = loggedOut
    BY <1>9, Copies DEF CacheAlone, Unkilled
  <2>2. PICK r : /\ Onward(t, r)
                 /\ \/ r = Idle
                    \/ \E s \in ActiveWith(k), d \in SessDocs :
                          Writes(r, s, d) /\ CopyOf(d, s, Len(tokens) + 1, l)
    BY <1>9, Copies
  <2>3. r.out = FALSE
    BY <1>0, <2>2 DEF Writes
  <2> QED BY <2>1, <2>2, <2>3, LogStill
<1> QED BY <1>2, <1>3, <1>4, <1>5, <1>6, <1>7, <1>8, <1>9 DEF Alters, Renews

LEMMA LogMoves ==
    ASSUME SessTypes, SessPlaces, CacheSound(jwtCache, tokens), [SessNext]_sessVars
    PROVE  LogStep
<1>1. CASE Tick \/ UNCHANGED sessVars
  <2>1. killed' = killed /\ stale' = stale /\ loggedOut' = loggedOut /\ req' = req
    BY <1>1 DEF Tick, sessVars, history
  <2> HIDE DEF LogoutMoves, Answered
  <2> QED BY <2>1 DEF LogStep
<1> QED BY <1>1, LogOfReads, LogOfWrites, SessCases

\* A logout on its way: past the cache its token is not in it, unless a request put it
\* there meanwhile; past the query it has found the one session of the token.
OutSound(q, k) ==
    /\ q.pc # "uncache" => k \notin CachedTokens \/ k \in raced
    /\ q.pc = "kill" => \E s \in Nat : Settled(k, s) /\ (q.ids = <<s>> \/ (q.ids = <<>> /\ s \in killed))
SessOuts == \A o \in SThreads, k \in Nat : req[o].out /\ req[o].tok = k => OutSound(req[o], k)

LEMMA ActiveSettled ==
    ASSUME SessTypes, SessPlaces, NEW k \in Nat, NEW s \in ActiveWith(k)
    PROVE  Settled(k, s) /\ InUse(s)
<1>1. s \in 1 .. Len(sessions) /\ Carries(s, k) /\ s \in Nat
  BY OneActive
<1>2. sessions[s].token = k /\ InUse(s) /\ DocSound(sessions[s], tokens)
  BY <1>1, ActiveIs DEF SessTypes, ActiveWith
<1>3. k \in 1 .. Len(tokens) /\ tokens[k].user = sessions[s].user
  BY <1>2 DEF DocSound
<1>4. k # 0
  BY <1>3
<1>5. \A x \in Nat : Carries(x, k) => x = s
  BY <1>1 DEF SessPlaces
<1>6. \A o \in SThreads : req[o].new # k
  BY <1>1, <1>4 DEF SessPlaces
<1> HIDE DEF Carries
<1> QED BY <1>1, <1>2, <1>3, <1>5, <1>6 DEF Settled

LEMMA OutsKept ==
    ASSUME SessTypes, SessPlaces, SessCache, SessOuts, [SessNext]_sessVars
    PROVE  SessOuts'
<1>1. CacheStep /\ LogStep /\ CachedTokens' = TokensOf(jwtCache')
  BY CacheMoves, LogMoves, CacheKept DEF SessCache
<1>2. ASSUME NEW k \in Nat, LoggingOut(k), k \notin CachedTokens \/ k \in raced
      PROVE  k \notin TokensOf(jwtCache') \/ k \in raced'
  <2> HIDE DEF LoggingOut, Putting
  <2> QED BY <1>1, <1>2 DEF CacheStep
<1> SUFFICES ASSUME NEW o \in SThreads, NEW k \in Nat, req'[o].out, req'[o].tok = k
             PROVE  /\ req'[o].pc # "uncache" => k \notin TokensOf(jwtCache') \/ k \in raced'
                    /\ req'[o].pc = "kill" => \E s \in Nat : Settled(k, s)' /\ (req'[o].ids = <<s>> \/ (req'[o].ids = <<>> /\ s \in killed'))
  BY <1>1 DEF SessOuts, OutSound
<1> DEFINE q == req[o]
           r == req'[o]
<1>3. killed \subseteq killed' /\ (r = q \/ r.pc = "uncache" \/ LogoutMoves(q, r, k))
  BY <1>1 DEF LogStep
<1>4. \A s \in Nat : Settled(k, s) => Settled(k, s)'
  BY SettledKept
<1>5. CASE r = q
  <2>1. OutSound(q, k) /\ LoggingOut(k)
    BY <1>5 DEF SessOuts, LoggingOut
  <2>2. r.pc # "uncache" => k \notin TokensOf(jwtCache') \/ k \in raced'
    BY <1>2, <1>5, <2>1 DEF OutSound
  <2>3. ASSUME r.pc = "kill"
        PROVE  \E s \in Nat : Settled(k, s)' /\ (r.ids = <<s>> \/ (r.ids = <<>> /\ s \in killed'))
    <3>1. PICK s \in Nat : Settled(k, s) /\ (q.ids = <<s>> \/ (q.ids = <<>> /\ s \in killed))
      BY <1>5, <2>1, <2>3 DEF OutSound
    <3>2. Settled(k, s)'
      BY <1>4, <3>1
    <3> HIDE DEF Settled
    <3> QED BY <1>3, <1>5, <3>1, <3>2
  <2> QED BY <2>2, <2>3
<1>6. CASE r.pc = "uncache"
  BY <1>6
<1>7. CASE LogoutMoves(q, r, k)
  <2>1. q.out /\ q.tok = k /\ OutSound(q, k) /\ LoggingOut(k)
    BY <1>7 DEF SessOuts, LoggingOut, LogoutMoves
  <2>2. CASE r.pc = "uncacheUser" /\ k \notin TokensOf(jwtCache')
    BY <2>2
  <2>3. CASE q.pc = "uncacheUser" /\ r.pc = "byToken"
    BY <1>2, <2>1, <2>3 DEF OutSound
  <2>4. CASE q.pc = "byToken" /\ r.pc = "kill" /\ \E s \in ActiveWith(k) : r.ids = <<s>>
    <3>1. k \notin TokensOf(jwtCache') \/ k \in raced'
      BY <1>2, <2>1, <2>4 DEF OutSound
    <3>2. PICK s \in ActiveWith(k) : r.ids = <<s>>
      BY <2>4
    <3>3. Settled(k, s) /\ s \in Nat
      BY <3>2, ActiveSettled, OneActive
    <3>4. Settled(k, s)'
      BY <1>4, <3>3
    <3> HIDE DEF Settled
    <3> QED BY <3>1, <3>2, <3>3, <3>4
  <2>5. CASE q.pc = "kill" /\ r.pc = "kill" /\ r.ids = <<>> /\ \E s \in killed' : q.ids = <<s>>
    <3>1. k \notin TokensOf(jwtCache') \/ k \in raced'
      BY <1>2, <2>1, <2>5 DEF OutSound
    <3>2. PICK s \in Nat : Settled(k, s) /\ (q.ids = <<s>> \/ (q.ids = <<>> /\ s \in killed))
      BY <2>1, <2>5 DEF OutSound
    <3>3. PICK x \in killed' : q.ids = <<x>>
      BY <2>5
    <3>4. q.ids # <<>> /\ x = s
      BY <3>2, <3>3
    <3>5. Settled(k, s)' /\ s \in killed'
      BY <1>4, <3>2, <3>3, <3>4
    <3> HIDE DEF Settled
    <3> QED BY <2>5, <3>1, <3>5
  <2> QED BY <1>7, <2>2, <2>3, <2>4, <2>5 DEF LogoutMoves
<1> QED BY <1>3, <1>5, <1>6, <1>7

\* A logout that was answered found the session of its token, and invalidated it.
LoggedSound(k) ==
    k \in raced \/ \E s \in Nat : /\ Settled(k, s) /\ s \in killed
                                  /\ s \in stale \/ (k \notin CachedTokens /\ ~ Putting(k))
SessLogged == \A k \in Nat : k \in loggedOut => LoggedSound(k)

LEMMA LoggedKept ==
    ASSUME SessTypes, SessPlaces, SessCache, SessKilled, SessOuts, SessLogged, [SessNext]_sessVars
    PROVE  SessLogged'
<1>1. CacheStep /\ LogStep /\ CachedTokens' = TokensOf(jwtCache')
  BY CacheMoves, LogMoves, CacheKept DEF SessCache
<1>2. raced \subseteq raced' /\ killed \subseteq killed' /\ stale \subseteq stale'
  BY <1>1 DEF CacheStep, LogStep
<1> SUFFICES ASSUME NEW k \in Nat, k \in loggedOut', k \notin raced'
             PROVE  \E s \in Nat : /\ Settled(k, s)' /\ s \in killed'
                                   /\ s \in stale' \/ (k \notin CachedTokens' /\ ~ Putting(k)')
  BY DEF SessLogged, LoggedSound
<1>3. \A s \in Nat : Settled(k, s) => Settled(k, s)'
  BY SettledKept
<1>4. CASE k \in loggedOut
  <2>1. PICK s \in Nat : /\ Settled(k, s) /\ s \in killed
                         /\ s \in stale \/ (k \notin CachedTokens /\ ~ Putting(k))
    BY <1>2, <1>4 DEF SessLogged, LoggedSound
  <2>2. Settled(k, s)' /\ s \in killed'
    BY <1>2, <1>3, <2>1
  <2>3. CASE s \in stale
    <3> HIDE DEF Settled, Putting
    <3> QED BY <1>2, <2>2, <2>3
  <2>4. CASE s \notin stale
    <3>1. ~ InUse(s) /\ k \notin CachedTokens /\ ~ Putting(k)
      BY <2>1, <2>4 DEF SessKilled
    <3>2. ActiveWith(k) = {}
      <4> SUFFICES ASSUME NEW x \in ActiveWith(k) PROVE FALSE
        OBVIOUS
      <4>1. InUse(x) /\ Carries(x, k) /\ x \in Nat
        BY OneActive, ActiveSettled
      <4>2. x = s
        BY <2>1, <4>1 DEF Settled
      <4> QED BY <3>1, <4>1, <4>2
    <3>3. k \notin TokensOf(jwtCache')
      <4> HIDE DEF Putting, LoggingOut
      <4> QED BY <1>1, <3>1 DEF CacheStep
    <3>4. \A o \in SThreads : ~ (req'[o].pc = "put" /\ req'[o].tok = k)
      <4> HIDE DEF Putting, LoggingOut
      <4> QED BY <1>1, <3>1, <3>2 DEF CacheStep
    <3>5. ~ Putting(k)'
      BY <3>4 DEF Putting
    <3> HIDE DEF Settled, Putting
    <3> QED BY <1>1, <2>2, <3>3, <3>5
  <2> QED BY <2>3, <2>4
<1>5. CASE Answered(k)
  <2>1. PICK o \in SThreads :
                 /\ req[o].out /\ req[o].tok = k /\ req[o].pc = "kill" /\ req[o].ids = <<>>
                 /\ jwtCache' = jwtCache /\ (Putting(k) => k \in raced')
                 /\ \A p \in SThreads : req'[p].pc = "put" => req'[p] = req[p]
    BY <1>5 DEF Answered
  <2>2. OutSound(req[o], k)
    BY <2>1 DEF SessOuts
  <2>3. k \notin CachedTokens /\ ~ Putting(k)
    <3> HIDE DEF Putting
    <3> QED BY <1>2, <2>1, <2>2 DEF OutSound
  <2>4. PICK s \in Nat : Settled(k, s) /\ (req[o].ids = <<s>> \/ (req[o].ids = <<>> /\ s \in killed))
    BY <2>1, <2>2 DEF OutSound
  <2>5. <<s>> # <<>>
    OBVIOUS
  <2>6. Settled(k, s)' /\ s \in killed'
    BY <1>2, <1>3, <2>1, <2>4, <2>5
  <2>7. k \notin CachedTokens'
    BY <2>1, <2>3 DEF CachedTokens
  <2>8. ~ Putting(k)'
    BY <2>1, <2>3 DEF Putting
  <2> HIDE DEF Settled, Putting, CachedTokens
  <2> QED BY <2>6, <2>7, <2>8
<1> QED BY <1>1, <1>4, <1>5 DEF LogStep

\* A session of library "system" has token k, will have it when a pending copy is written
\* back, or will be made with it.
Offered(k) ==
    \/ \E x \in 1 .. Len(sessions) : sessions[x].token = k /\ sessions[x].library = "system"
    \/ \E o \in SThreads : req[o].pc = "writeback" /\ req[o].doc[2].token = k /\ req[o].doc[2].library = "system"
    \/ \E o \in SThreads : req[o].new = k

LEMMA OfferedOnward ==
    ASSUME sessions' = sessions, NEW t \in SThreads, NEW r, Onward(t, r), r.pc # "writeback", NEW k,
           r.new = k => req[t].new = k
    PROVE  Offered(k)' => Offered(k)
BY DEF Onward, Offered

LEMMA OfferedRewritten ==
    ASSUME NEW s, NEW d, Rewritten(s, d), NEW k, d.token = k /\ d.library = "system" => Offered(k),
           \A o \in SThreads : /\ req'[o].new = k => req[o].new = k
                               /\ req'[o].pc = "writeback" => req'[o] = req[o]
    PROVE  Offered(k)' => Offered(k)
<1> SUFFICES ASSUME Offered(k)' PROVE Offered(k)
  OBVIOUS
<1>1. CASE \E o \in SThreads : req'[o].pc = "writeback" /\ req'[o].doc[2].token = k /\ req'[o].doc[2].library = "system"
  BY <1>1 DEF Offered
<1>2. CASE \E o \in SThreads : req'[o].new = k
  BY <1>2 DEF Offered
<1>3. ASSUME NEW x \in 1 .. Len(sessions'), sessions'[x].token = k, sessions'[x].library = "system" PROVE Offered(k)
  BY <1>3 DEF Rewritten, Offered
<1> QED BY <1>1, <1>2, <1>3 DEF Offered

\* Two facts of a step: no issued token comes to be offered, no deleted session to live.
Dead == \A s \in 1 .. Len(sessions) : ~ sessions[s].live => ~ sessions'[s].live

LEMMA OfferedOfReads ==
    ASSUME SessTypes, SessPlaces, NEW t \in SThreads, Reads(t), NEW k \in 1 .. Len(tokens)
    PROVE  (Offered(k)' => Offered(k)) /\ Dead
<1>1. PICK r : Onward(t, r) /\ r.pc # "writeback" /\ r.new \in {0, req[t].new, Len(tokens) + 1}
  BY ReadsMove
<1>2. r.new = k => req[t].new = k
  BY <1>1, Carried
<1>3. sessions' = sessions
  BY ReadsMove
<1> QED BY <1>1, <1>2, <1>3, OfferedOnward DEF Dead

LEMMA OfferedOfAlters ==
    ASSUME SessTypes, NEW t \in SThreads, Alters(t), NEW k \in 1 .. Len(tokens)
    PROVE  (Offered(k)' => Offered(k)) /\ Dead
<1> DEFINE q == req[t]
<1>1. Idle.pc # "writeback" /\ Idle.new = 0 /\ k # 0
  BY IdleIs
<1>2. ASSUME NEW s \in 1 .. Len(sessions), NEW d, Rewritten(s, d), d.token = k /\ d.library = "system" => Offered(k),
             NEW r, Onward(t, r), r.pc # "writeback", r.new \in {0, q.new}, d.live => sessions[s].live
      PROVE  (Offered(k)' => Offered(k)) /\ Dead
  BY <1>1, <1>2, OfferedRewritten DEF Onward, Dead, Rewritten
<1>3. ASSUME NEW s \in 1 .. Len(sessions), NEW d, d.token = sessions[s].token, d.library = sessions[s].library
      PROVE  d.token = k /\ d.library = "system" => Offered(k)
  BY <1>3 DEF Offered
<1>4. CASE extend_read(t)
  <2>1. PICK r : /\ Onward(t, r)
                 /\ \/ r = Idle
                    \/ \E s \in ActiveWith(q.tok), d \in SessDocs :
                          Writes(r, s, d) /\ CopyOf(d, s, q.tok, "system")
    BY <1>4, Copies
  <2>2. sessions' = sessions
    BY <1>4, Copies DEF Unwritten
  <2>3. CASE r = Idle
    BY <1>1, <2>1, <2>2, <2>3, OfferedOnward DEF Dead
  <2>4. ASSUME NEW s \in ActiveWith(q.tok), NEW d \in SessDocs, Writes(r, s, d), CopyOf(d, s, q.tok, "system")
        PROVE  Offered(k)' => Offered(k)
    BY ActiveIs, <2>4, <1>1, <2>1, <2>2 DEF ActiveWith, FiledIn, CopyOf, Writes, Onward, Offered
  <2> QED BY <2>1, <2>2, <2>3, <2>4 DEF Dead
<1>5. CASE write_back(t)
  <2>1. PICK s \in 1 .. Len(sessions), d \in SessDocs :
                 /\ t \in Holders(s) /\ req[t].doc[1] = s /\ Rewritten(s, d)
                 /\ d.user = sessions[s].user /\ d.copy = sessions[s].copy /\ d.live = sessions[s].live
                 /\ \/ d.token = req[t].doc[2].token /\ d.library = req[t].doc[2].library
                    \/ d.token = sessions[s].token /\ d.library = sessions[s].library
    BY <1>5, WritesBack
  <2>2. Onward(t, Idle) /\ q.pc = "writeback"
    BY <1>5, WritesBack
  <2>3. d.token = k /\ d.library = "system" => Offered(k)
    BY <2>2, <1>3, <2>1 DEF Offered
  <2> QED BY <1>1, <1>2, <2>1, <2>2, <2>3
<1>6. CASE kill(t)
  <2>1. PICK r : Onward(t, r) /\ r.pc = "kill" /\ r.ids = <<>> /\ Keeps(r, q)
    BY <1>6, Kills
  <2>2. PICK s \in 1 .. Len(sessions), d \in SessDocs :
                 /\ q.ids = <<s>> /\ NoteKilled({s}) /\ Rewritten(s, d)
                 /\ SameSession(d, s) /\ d.copy = sessions[s].copy /\ ~ (d.live /\ d.active)
    BY <1>6, Kills
  <2>3. r.new = q.new /\ r.pc # "writeback" /\ d.live = sessions[s].live
    BY <2>1, <2>2 DEF Keeps, SameSession
  <2>4. d.token = k /\ d.library = "system" => Offered(k)
    BY <1>3, <2>2 DEF SameSession
  <2> QED BY <1>2, <2>1, <2>2, <2>3, <2>4
<1>7. ASSUME NEW x \in DOMAIN tokens, NEW s \in DOMAIN sessions, terminate_session(t, x, s)
      PROVE  (Offered(k)' => Offered(k)) /\ Dead
  <2>1. PICK d \in SessDocs :
                     /\ Rewritten(s, d) /\ SameSession(d, s) /\ d.active = sessions[s].active
                     /\ d.copy \in 1 .. Len(tokens)
                     /\ \E r : /\ Onward(t, r) /\ r.pc = "uncache" /\ r.tok = d.copy /\ r.new = 0
                               /\ r.ids = <<s>> /\ r.out = FALSE
    BY <1>7, Terminates
  <2>2. s \in 1 .. Len(sessions) /\ d.live = sessions[s].live
    BY <2>1 DEF SameSession, Rewritten
  <2>3. d.token = k /\ d.library = "system" => Offered(k)
    BY <1>3, <2>1, <2>2 DEF SameSession
  <2>4. PICK r : /\ Onward(t, r) /\ r.pc = "uncache" /\ r.tok = d.copy /\ r.new = 0
                 /\ r.ids = <<s>> /\ r.out = FALSE
    BY <2>1
  <2>5. r.pc # "writeback" /\ r.new \in {0, q.new}
    BY <2>4
  <2> QED BY <1>2, <2>1, <2>2, <2>3, <2>4, <2>5
<1>8. ASSUME NEW x \in DOMAIN tokens, NEW s \in DOMAIN sessions, session_terminate(t, x, s)
      PROVE  (Offered(k)' => Offered(k)) /\ Dead
  <2>1. PICK y \in ActiveWith(x), d \in SessDocs :
                     /\ Rewritten(y, d) /\ SameSession(d, y) /\ d.active = sessions[y].active
                     /\ d.copy = sessions[y].copy
    BY <1>8, AdminTerminates
  <2>2. PICK r : /\ Onward(t, r) /\ r.pc = "kill" /\ r.tok = 0 /\ r.new = 0
                 /\ r.ids = <<s>> /\ r.out = FALSE
    BY <1>8, AdminTerminates
  <2>3. y \in 1 .. Len(sessions) /\ d.live = sessions[y].live
    BY <2>1 DEF SameSession, Rewritten
  <2>4. d.token = k /\ d.library = "system" => Offered(k)
    BY <1>3, <2>1, <2>3 DEF SameSession
  <2>5. r.pc # "writeback" /\ r.new \in {0, q.new}
    BY <2>2
  <2> QED BY <1>2, <2>1, <2>2, <2>3, <2>4, <2>5
<1>9. ASSUME NEW x \in DOMAIN tokens, NEW s \in DOMAIN sessions, delete_session(t, x, s)
      PROVE  (Offered(k)' => Offered(k)) /\ Dead
  <2>1. PICK d \in SessDocs :
                     /\ Rewritten(s, d) /\ d.user = sessions[s].user /\ d.token = sessions[s].token
                     /\ d.library = sessions[s].library /\ d.live = FALSE /\ d.copy \in 0 .. Len(tokens)
    BY <1>9, Deletes
  <2>2. s \in 1 .. Len(sessions) /\ req' = req
    BY <1>9, <2>1, Deletes DEF Rewritten
  <2>3. d.token = k /\ d.library = "system" => Offered(k)
    BY <1>3, <2>1, <2>2
  <2>4. Offered(k)' => Offered(k)
    BY <2>1, <2>2, <2>3, OfferedRewritten
  <2>5. Dead
    BY <2>1 DEF Dead, Rewritten
  <2> QED BY <2>4, <2>5
<1> QED BY <1>4, <1>5, <1>6, <1>7, <1>8, <1>9 DEF Alters

LEMMA OfferedOfEnd ==
    ASSUME SessTypes, NEW t \in SThreads, kill_end(t), NEW k \in 1 .. Len(tokens)
    PROVE  (Offered(k)' => Offered(k)) /\ Dead
<1> DEFINE q == req[t]
<1>1. Idle.pc # "writeback" /\ Idle.new = 0 /\ k # 0 /\ sessions \in Seq(SessDocs) /\ Len(sessions) \in Nat
  BY IdleIs DEF SessTypes
<1>2. Onward(t, Idle)
  BY KillEnds
<1>3. CASE sessions' = sessions
  BY <1>1, <1>2, <1>3, OfferedOnward DEF Dead
<1>4. ASSUME NEW d \in SessDocs, sessions' = Append(sessions, d), d.token = q.new
      PROVE  (Offered(k)' => Offered(k)) /\ Dead
  BY <1>1, <1>4, AppendProperties, <1>2 DEF Onward, Offered, Dead
<1> QED BY <1>3, <1>4, KillEnds

\* The token of a switch to another library is not issued yet, and is offered to nobody
\* in "system".
LEMMA OfferedOfSwitch ==
    ASSUME SessTypes, NEW t \in SThreads, NEW x \in DOMAIN tokens, NEW l \in {"default", "system"},
           switch_library(t, x, l)
    PROVE  /\ \A k \in 1 .. Len(tokens) : Offered(k)' => Offered(k)
           /\ Dead
           /\ \A k \in Nat : k = Len(tokens) + 1 /\ l = "default" => ~ Offered(k)'
<1>1. Idle.pc # "writeback" /\ Idle.new = 0 /\ Len(tokens) \in Nat
  BY IdleIs, Carried
<1>2. PICK r : /\ Onward(t, r)
               /\ \/ r = Idle
                  \/ \E s \in ActiveWith(x), d \in SessDocs :
                        Writes(r, s, d) /\ CopyOf(d, s, Len(tokens) + 1, l)
  BY Copies
<1>3. sessions' = sessions
  BY Copies
<1>4. r.new = 0 /\ (r.pc = "writeback" => r.doc[2].token = Len(tokens) + 1 /\ r.doc[2].library = l)
  BY <1>1, <1>2 DEF Writes, CopyOf
<1>5. \A o \in SThreads : /\ req'[o].new \in {0, req[o].new}
                          /\ req'[o].pc = "writeback" => req'[o] = req[o] \/ (req'[o].doc[2].token = Len(tokens) + 1 /\ req'[o].doc[2].library = l)
  BY <1>2, <1>4 DEF Onward
<1>6. ASSUME NEW k \in 1 .. Len(tokens), Offered(k)' PROVE Offered(k)
  BY <1>1, <1>3, <1>5, <1>6 DEF Offered
<1>7. ASSUME NEW k \in Nat, k = Len(tokens) + 1, l = "default", Offered(k)' PROVE FALSE
  <2>1. ~ (k \in 1 .. Len(tokens)) /\ k # 0
    BY <1>1, <1>7
  <2>2. \A s \in 1 .. Len(sessions) : sessions[s].token # k
    BY <2>1 DEF SessTypes, DocSound
  <2>3. \A o \in SThreads : req[o].new # k /\ (req[o].pc = "writeback" => req[o].doc[2].token # k)
    BY ReqIs, <1>1, <1>7, Carried, <2>1 DEF ReqSound, DocSound
  <2> QED BY <1>3, <1>5, <1>7, <2>1, <2>2, <2>3 DEF Offered
<1>8. Dead
  BY <1>3 DEF Dead
<1> QED BY <1>6, <1>7, <1>8

SwitchStep ==
    /\ \A k \in 1 .. Len(tokens) : Offered(k)' => Offered(k)
    /\ Dead
    /\ \A k \in Nat : k \in switched' => k \in switched \/ (k = Len(tokens) + 1 /\ k \in 1 .. Len(tokens') /\ ~ Offered(k)')

LEMMA SwitchMoves ==
    ASSUME SessTypes, SessPlaces, [SessNext]_sessVars
    PROVE  SwitchStep
<1>1. CASE Tick \/ UNCHANGED sessVars
  <2>1. sessions' = sessions /\ req' = req /\ switched' = switched
    BY <1>1 DEF Tick, sessVars, history
  <2>2. \A k \in 1 .. Len(tokens) : Offered(k)' => Offered(k)
    BY <2>1 DEF Offered
  <2> HIDE DEF Offered
  <2> QED BY <2>1, <2>2 DEF SwitchStep, Dead
<1>2. ASSUME switched' = switched, Dead, \A k \in 1 .. Len(tokens) : Offered(k)' => Offered(k) PROVE SwitchStep
  <2> HIDE DEF Offered, Dead
  <2> QED BY <1>2 DEF SwitchStep
<1>3. ASSUME NEW t \in SThreads, Reads(t) PROVE SwitchStep
  BY <1>3, ReadsMove, OfferedOfReads, <1>2 DEF Dead
<1>4. ASSUME NEW t \in SThreads, Alters(t) PROVE SwitchStep
  <2>1. switched' = switched
    BY Copies, WritesBack, Kills, Terminates, AdminTerminates, Deletes, <1>4 DEF Unwritten, Elsewhere, Alters
  <2>2. \A k \in 1 .. Len(tokens) : Offered(k)' => Offered(k)
    BY <1>4, OfferedOfAlters
  <2>3. Dead
    BY <1>4, OfferedOfAlters DEF SessTypes, DocSound, Dead
  <2> QED BY <1>2, <2>1, <2>2, <2>3
<1>5. ASSUME NEW t \in SThreads, kill_end(t) PROVE SwitchStep
  <2>1. switched' = switched
    BY <1>5, KillEnds
  <2>2. \A k \in 1 .. Len(tokens) : Offered(k)' => Offered(k)
    BY <1>5, OfferedOfEnd
  <2>3. Dead
    <3>1. sessions' = sessions \/ \E d \in SessDocs : sessions' = Append(sessions, d)
      BY <1>5, KillEnds
    <3>2. sessions \in Seq(SessDocs)
      BY DEF SessTypes
    <3>3. ASSUME NEW d \in SessDocs, sessions' = Append(sessions, d)
          PROVE  \A s \in 1 .. Len(sessions) : sessions'[s] = sessions[s]
      BY <3>2, <3>3, AppendProperties
    <3> QED BY <3>1, <3>3 DEF Dead
  <2> QED BY <1>2, <2>1, <2>2, <2>3
<1>6. ASSUME NEW t \in SThreads, NEW x \in DOMAIN tokens, NEW l \in {"default", "system"}, switch_library(t, x, l)
      PROVE  SwitchStep
  <2>1. /\ \A k \in 1 .. Len(tokens) : Offered(k)' => Offered(k)
        /\ Dead
        /\ \A k \in Nat : k = Len(tokens) + 1 /\ l = "default" => ~ Offered(k)'
    BY <1>6, OfferedOfSwitch
  <2>2. switched' = (IF l = "system" THEN switched ELSE switched \cup {Len(tokens) + 1})
    BY <1>6, Copies
  <2>3. Len(tokens) + 1 \in 1 .. Len(tokens')
    BY <1>6, Copies, AppendProperties DEF SessTypes
  <2> HIDE DEF Offered, Dead
  <2> QED BY <2>1, <2>2, <2>3 DEF SwitchStep
<1> QED BY <1>1, <1>3, <1>4, <1>5, <1>6, SessCases DEF Renews

\* The token of a switch to another library: no session of "system" has it or will have
\* it, the cache does not, nobody was let through with it.
OutOfReach(k) ==
    /\ k \in 1 .. Len(tokens) /\ ~ Offered(k)
    /\ k \notin CachedTokens /\ ~ Putting(k) /\ accepted.token # k
SessSwitched == \A k \in Nat : k \in switched => OutOfReach(k)

LEMMA SwitchedKept ==
    ASSUME SessTypes, SessPlaces, SessCache, SessSwitched, [SessNext]_sessVars
    PROVE  SessSwitched'
<1>1. CacheStep /\ SwitchStep /\ CachedTokens' = TokensOf(jwtCache')
  BY CacheMoves, SwitchMoves, CacheKept DEF SessCache
<1>2. Len(tokens) \in Nat /\ Len(tokens') \in Nat /\ Len(tokens) <= Len(tokens')
  BY SessMoves DEF SessGrown, SessTypes
<1>3. ASSUME NEW k \in Nat, ~ Offered(k) PROVE ActiveWith(k) = {}
  BY <1>3, ActiveIs DEF Offered, ActiveWith, FiledIn
<1>4. ASSUME NEW k \in Nat, k \notin CachedTokens, ~ Putting(k), ActiveWith(k) = {}, accepted.token # k
      PROVE  k \notin TokensOf(jwtCache') /\ ~ Putting(k)' /\ accepted'.token # k
  <2> HIDE DEF LoggingOut, CachedTokens, ActiveWith
  <2>1. k \notin TokensOf(jwtCache') /\ accepted'.token # k
    <3> HIDE DEF Putting
    <3> QED BY <1>1, <1>4 DEF CacheStep
  <2>2. \A o \in SThreads : ~ (req'[o].pc = "put" /\ req'[o].tok = k)
    <3> HIDE DEF Putting
    <3> QED BY <1>1, <1>4 DEF CacheStep
  <2> QED BY <2>1, <2>2 DEF Putting
<1> SUFFICES ASSUME NEW k \in Nat, k \in switched' PROVE OutOfReach(k)'
  BY DEF SessSwitched
<1>5. CASE k \in switched
  <2>1. OutOfReach(k)
    BY <1>5 DEF SessSwitched
  <2>2. k \in 1 .. Len(tokens') /\ ~ Offered(k)'
    <3>1. k \in 1 .. Len(tokens) /\ ~ Offered(k)
      BY <2>1 DEF OutOfReach
    <3> HIDE DEF Offered, Dead
    <3> QED BY <1>1, <1>2, <3>1 DEF SwitchStep
  <2>3. k \notin TokensOf(jwtCache') /\ ~ Putting(k)' /\ accepted'.token # k
    BY <1>3, <1>4, <2>1 DEF OutOfReach
  <2> HIDE DEF Offered, Putting, CachedTokens
  <2> QED BY <1>1, <2>2, <2>3 DEF OutOfReach
<1>6. CASE k = Len(tokens) + 1 /\ k \in 1 .. Len(tokens') /\ ~ Offered(k)'
  <2>1. ~ (k \in 1 .. Len(tokens))
    BY <1>2, <1>6
  <2>2. k \notin CachedTokens
    BY <2>1, CachedAt DEF SessCache, CacheSound, TokensOf
  <2>3. ~ Putting(k)
    BY <1>2, <1>6, Carried DEF Putting
  <2>4. ActiveWith(k) = {}
    <3> SUFFICES ASSUME NEW s \in ActiveWith(k) PROVE FALSE
      OBVIOUS
    <3>1. s \in 1 .. Len(sessions) /\ sessions[s].token = k
      BY ActiveIs
    <3>2. DocSound(sessions[s], tokens)
      BY <3>1 DEF SessTypes
    <3> QED BY <2>1, <3>1, <3>2 DEF DocSound
  <2>5. accepted.token # k
    BY <1>6, <2>1 DEF SessCache
  <2>6. k \notin TokensOf(jwtCache') /\ ~ Putting(k)' /\ accepted'.token # k
    BY <1>4, <2>2, <2>3, <2>4, <2>5
  <2> HIDE DEF Offered, Putting, CachedTokens
  <2> QED BY <1>1, <1>6, <2>6 DEF OutOfReach
<1> QED
  <2> HIDE DEF Offered, Dead, OutOfReach
  <2> QED BY <1>1, <1>5, <1>6 DEF SwitchStep

\* The invariant of the proof, and its first state.
SessInv == /\ SessTypes /\ SessPlaces /\ SessKilled /\ SessCache
           /\ SessOuts /\ SessLogged /\ SessSwitched

LEMMA SessStart == SessInit => SessInv
<1> SUFFICES ASSUME SessInit PROVE SessInv
  OBVIOUS
<1>1. /\ tokens = <<>> /\ sessions = <<>> /\ jwtCache = <<>> /\ clock = 1
      /\ Len(tokens) = 0 /\ Len(sessions) = 0 /\ Len(jwtCache) = 0
      /\ \A t \in SThreads : req[t] = Idle
      /\ killed = {} /\ stale = {} /\ loggedOut = {} /\ raced = {} /\ switched = {}
  BY DEF SessInit
<1>2. accepted.token = 0 /\ accepted \in [token : Nat, time : Nat]
  BY DEF SessInit
<1>3. \A t \in SThreads : /\ req[t] \in SessReqs /\ req[t].pc = "idle" /\ req[t].tok = 0 /\ req[t].new = 0
                          /\ req[t].ids = <<>> /\ req[t].out = FALSE
  BY <1>1, IdleIs
<1>4. SessTypes
  BY IdleIs, <1>1, <1>3, SessionsAssumption, <1>2 DEF SessInit, ReqSound, SessTypes
<1>5. \A x, k \in Nat : ~ Carries(x, k)
  BY <1>1, <1>3 DEF Carries
<1>6. SessPlaces
  <2> HIDE DEF Carries
  <2> QED BY <1>3, <1>5 DEF SessPlaces
<1>7. SessKilled /\ SessLogged /\ SessSwitched
  BY <1>1 DEF SessKilled, SessLogged, SessSwitched
<1>8. SessOuts
  BY <1>3 DEF SessOuts
<1>9. SessCache
  BY <1>1, SessionsAssumption, <1>2 DEF SessCache, CacheSound
<1> QED BY <1>4, <1>6, <1>7, <1>8, <1>9 DEF SessInv

LEMMA SessSteps == SessInv /\ [SessNext]_sessVars => SessInv'
<1> SUFFICES ASSUME SessInv, [SessNext]_sessVars PROVE SessInv'
  OBVIOUS
<1>1. /\ SessTypes /\ SessPlaces /\ SessKilled /\ SessCache
      /\ SessOuts /\ SessLogged /\ SessSwitched
  BY DEF SessInv
<1>2. SessTypes' /\ SessPlaces'
  BY <1>1, SessMoves
<1>3. SessKilled'
  BY <1>1, SessCases, KilledOfReads, KilledOfAlters, KilledOfRenews DEF Tick, sessVars, history, SessKilled, InUse
<1>4. SessCache' /\ SessOuts' /\ SessLogged' /\ SessSwitched'
  BY <1>1, CacheKept, OutsKept, LoggedKept, SwitchedKept
<1> QED BY <1>2, <1>3, <1>4 DEF SessInv

\* The state properties of the sessions, as one.
SessSafe == /\ SessTypeOK /\ RevocationFinal /\ NoExpiredAccess
            /\ LogoutUncaches /\ CacheWellFormed /\ SwitchedLocksOut

LEMMA SessHolds == SessInv => SessSafe
<1> SUFFICES ASSUME SessInv PROVE SessSafe
  OBVIOUS
<1>1. /\ SessTypes /\ SessKilled /\ SessCache /\ SessLogged /\ SessSwitched /\ CacheSound(jwtCache, tokens)
  BY DEF SessInv, SessCache
<1>2. /\ tokens \in Seq(SessTokens) /\ DOMAIN tokens = 1 .. Len(tokens) /\ Len(tokens) \in Nat
      /\ DOMAIN sessions = 1 .. Len(sessions) /\ DOMAIN jwtCache = 1 .. Len(jwtCache)
      /\ \A s \in 1 .. Len(sessions) : DocSound(sessions[s], tokens)
  BY <1>1 DEF SessTypes, CacheSound
<1>3. SessTypeOK
  <2>1. clock \in 1 .. MaxClock
    BY <1>1 DEF SessTypes
  <2>2. \A k \in DOMAIN tokens : tokens[k].user \in SUsers /\ tokens[k].exp \in Nat
    <3>1. \A k \in DOMAIN tokens : tokens[k] \in SessTokens
      BY <1>2, ElementOfSeq
    <3> QED BY <3>1 DEF SessTokens
  <2>3. \A s \in DOMAIN sessions : sessions[s].user \in SUsers /\ sessions[s].token \in DOMAIN tokens
    BY <1>2, <2>2 DEF DocSound
  <2>4. CachedTokens \subseteq DOMAIN tokens
    BY <1>1, <1>2, CachedAt DEF CacheSound, TokensOf
  <2>5. \A t \in SThreads : req[t].tok \in 0 .. Len(tokens) /\ ToSet(req[t].ids) \subseteq DOMAIN sessions
    <3> SUFFICES ASSUME NEW t \in SThreads
                 PROVE  req[t].tok \in 0 .. Len(tokens) /\ ToSet(req[t].ids) \subseteq 1 .. Len(sessions)
      BY <1>2
    <3>1. ReqSound(req[t], tokens, sessions) /\ req[t].ids \in Seq(Nat)
      BY <1>1, ReqIs DEF SessReqs
    <3>2. DOMAIN req[t].ids = 1 .. Len(req[t].ids)
      BY <3>1
    <3> QED BY <3>1, <3>2 DEF ReqSound, ToSet
  <2> QED BY <2>1, <2>2, <2>3, <2>4, <2>5 DEF SessTypeOK
<1>4. RevocationFinal
  BY <1>1 DEF RevocationFinal, SessKilled, SessTypes, InUse
<1>5. NoExpiredAccess
  BY <1>1 DEF NoExpiredAccess, SessCache
<1>6. LogoutUncaches
  <2> SUFFICES ASSUME NEW k \in loggedOut, k \in CachedTokens, k \notin raced
               PROVE  \E s \in stale : sessions[s].user = tokens[k].user
    BY DEF LogoutUncaches
  <2>1. k \in Nat
    BY <1>1, CachedAt DEF CacheSound, TokensOf
  <2>2. PICK s \in Nat : /\ Settled(k, s) /\ s \in killed
                         /\ s \in stale \/ (k \notin CachedTokens /\ ~ Putting(k))
    BY <1>1, <2>1 DEF SessLogged, LoggedSound
  <2> QED BY <2>2 DEF Settled
<1>7. CacheWellFormed
  BY <1>1, <1>2 DEF CacheWellFormed, CacheSound
<1>8. SwitchedLocksOut
  BY <1>1 DEF SessTypes, SwitchedLocksOut, SessSwitched, OutOfReach
<1> QED BY <1>3, <1>4, <1>5, <1>6, <1>7, <1>8 DEF SessSafe

LEMMA DeletedDead ==
    SessInv /\ [SessNext]_sessVars =>
        [\A s \in DOMAIN sessions : ~ sessions[s].live => ~ sessions'[s].live]_sessVars
<1> SUFFICES ASSUME SessInv, [SessNext]_sessVars
             PROVE  \A s \in DOMAIN sessions : ~ sessions[s].live => ~ sessions'[s].live
  OBVIOUS
<1>1. SwitchStep /\ DOMAIN sessions = 1 .. Len(sessions)
  BY SwitchMoves DEF SessInv, SessTypes
<1> QED BY <1>1 DEF SwitchStep, Dead

\* Sessions and tokens: a revoked session stays revoked unless a request held a copy of it
\* then, a deleted one is gone, no expired token is let through, a logout leaves the cache,
\* the cache is well formed, and the token of a switch to another library lets nobody in.
THEOREM SessionsAreSound == SessSpec => SessionsSound
<1>1. SessSpec => []SessInv
  BY SessStart, SessSteps, PTL DEF SessSpec
<1>2. SessSpec => []SessSafe
  BY <1>1, SessHolds, PTL
<1>3. SessSpec => DeletedStaysDeleted
  BY <1>1, DeletedDead, PTL DEF SessSpec, DeletedStaysDeleted
<1> QED BY <1>2, <1>3, PTL DEF SessionsSound, SessSafe

-----------------------------------------------------------------------------
(* Types.                                                                  *)

Addr     == QNodes \cup {Nil}
Items    == 0 .. MaxQueueOps
Pointers == {PHead, PTail, PFree} \cup {PNext(n) : n \in QNodes}

HasNode == {"alloc_next", "alloc_take", "fill", "enq", "enq_next", "enq_check", "enq_link", "enq_help", "enq_swing"}
HasTail == {"enq_next", "enq_check", "enq_link", "enq_help", "enq_swing", "deq_next", "deq_check", "deq_help"}
HasHead == {"deq_tail", "deq_next", "deq_check", "deq_help", "deq_item", "deq_take", "free", "free_next", "free_put"}
HasNext == {"enq_help", "deq_help", "deq_item", "deq_take"}
QPcs    == HasNode \cup HasTail \cup HasHead \cup {"idle", "alloc", "deq", "enq_count", "deq_count"}

Regs    == [node : Addr, item : Items, head : Addr, tail : Addr, next : Addr]

\* The pointers a thread will follow from where it is are nodes.
Follows(t) ==
    /\ qpc[t] \in HasNode => reg[t].node \in QNodes
    /\ qpc[t] \in HasTail => reg[t].tail \in QNodes
    /\ qpc[t] \in HasHead => reg[t].head \in QNodes
    /\ qpc[t] \in HasNext => reg[t].next \in QNodes

QueueTypes ==
    /\ qhead \in QNodes /\ qtail \in QNodes /\ qfree \in Addr
    /\ qnext \in [QNodes -> Addr] /\ qwork \in [QNodes -> Items] /\ fresh \subseteq QNodes
    /\ qpc \in [QThreads -> QPcs] /\ reg \in [QThreads -> Regs] /\ changed \in [QThreads -> SUBSET Pointers]
    /\ qops \in Items /\ qsize \in Int /\ joined \in Seq(Items) /\ taken \in Seq(Items) /\ reused \in BOOLEAN
    /\ \A t \in QThreads : Follows(t)

LEMMA NodeFacts == 1 \in QNodes /\ Nil \notin QNodes /\ QNodes \subseteq Nat /\ 0 \in Items /\ MaxQueueOps \in Nat
BY QueueAssumption DEF QNodes, Nil, Items

LEMMA PointerFacts ==
    /\ PHead \in Pointers /\ PTail \in Pointers /\ PFree \in Pointers
    /\ \A n \in QNodes : PNext(n) \in Pointers
    /\ PHead # PTail /\ PHead # PFree /\ PTail # PFree
    /\ \A n : PNext(n) # PHead /\ PNext(n) # PTail /\ PNext(n) # PFree
    /\ \A m, n : PNext(m) = PNext(n) => m = n
BY DEF Pointers, PHead, PTail, PFree, PNext

\* A thread's local variable is set.
LEMMA RegNode ==
    ASSUME QueueTypes, NEW t \in QThreads, NEW v \in Addr, reg' = [reg EXCEPT ![t].node = v]
    PROVE  /\ reg' \in [QThreads -> Regs] /\ \A u \in QThreads \ {t} : reg'[u] = reg[u]
           /\ reg'[t].node = v /\ reg'[t].item = reg[t].item /\ reg'[t].head = reg[t].head
           /\ reg'[t].tail = reg[t].tail /\ reg'[t].next = reg[t].next
BY DEF QueueTypes, Regs

LEMMA RegItem ==
    ASSUME QueueTypes, NEW t \in QThreads, NEW v \in Items, reg' = [reg EXCEPT ![t].item = v]
    PROVE  /\ reg' \in [QThreads -> Regs] /\ \A u \in QThreads \ {t} : reg'[u] = reg[u]
           /\ reg'[t].item = v /\ reg'[t].node = reg[t].node /\ reg'[t].head = reg[t].head
           /\ reg'[t].tail = reg[t].tail /\ reg'[t].next = reg[t].next
BY DEF QueueTypes, Regs

LEMMA RegHead ==
    ASSUME QueueTypes, NEW t \in QThreads, NEW v \in Addr, reg' = [reg EXCEPT ![t].head = v]
    PROVE  /\ reg' \in [QThreads -> Regs] /\ \A u \in QThreads \ {t} : reg'[u] = reg[u]
           /\ reg'[t].head = v /\ reg'[t].node = reg[t].node /\ reg'[t].item = reg[t].item
           /\ reg'[t].tail = reg[t].tail /\ reg'[t].next = reg[t].next
BY DEF QueueTypes, Regs

LEMMA RegTail ==
    ASSUME QueueTypes, NEW t \in QThreads, NEW v \in Addr, reg' = [reg EXCEPT ![t].tail = v]
    PROVE  /\ reg' \in [QThreads -> Regs] /\ \A u \in QThreads \ {t} : reg'[u] = reg[u]
           /\ reg'[t].tail = v /\ reg'[t].node = reg[t].node /\ reg'[t].item = reg[t].item
           /\ reg'[t].head = reg[t].head /\ reg'[t].next = reg[t].next
BY DEF QueueTypes, Regs

LEMMA RegNext ==
    ASSUME QueueTypes, NEW t \in QThreads, NEW v \in Addr, reg' = [reg EXCEPT ![t].next = v]
    PROVE  /\ reg' \in [QThreads -> Regs] /\ \A u \in QThreads \ {t} : reg'[u] = reg[u]
           /\ reg'[t].next = v /\ reg'[t].node = reg[t].node /\ reg'[t].item = reg[t].item
           /\ reg'[t].head = reg[t].head /\ reg'[t].tail = reg[t].tail
BY DEF QueueTypes, Regs

LEMMA GotoFacts ==
    ASSUME QueueTypes, NEW t \in QThreads, NEW l \in QPcs, Goto(t, l)
    PROVE  qpc' \in [QThreads -> QPcs] /\ qpc'[t] = l /\ \A u \in QThreads \ {t} : qpc'[u] = qpc[u]
BY DEF QueueTypes, Goto

\* What a load, a write and an exchange do to the history of the pointers.
LEMMA HistoryFacts ==
    ASSUME QueueTypes, NEW t \in QThreads, NEW p \in Pointers
    PROVE  /\ Loads(t, p) =>
                /\ changed' \in [QThreads -> SUBSET Pointers] /\ changed'[t] = changed[t] \ {p}
                /\ \A u \in QThreads \ {t} : changed'[u] = changed[u]
           /\ Changes(t, {p}) =>
                /\ changed' \in [QThreads -> SUBSET Pointers] /\ changed'[t] = changed[t]
                /\ \A u \in QThreads \ {t} : changed[u] \subseteq changed'[u] /\ p \in changed'[u]
           /\ Exchanges(t, p) =>
                /\ changed' \in [QThreads -> SUBSET Pointers] /\ reused' \in BOOLEAN /\ changed'[t] = changed[t]
                /\ \A u \in QThreads \ {t} : changed[u] \subseteq changed'[u] /\ p \in changed'[u]
                /\ ~ reused' => p \notin changed[t]
BY DEF QueueTypes, Changes, Loads, Exchanges

\* Where a thread goes without looking at the memory.
LEMMA FollowersKeep ==
    ASSUME QueueTypes, NEW t \in QThreads, Follows(t)',
           \A u \in QThreads \ {t} : qpc'[u] = qpc[u] /\ reg'[u] = reg[u]
    PROVE  \A u \in QThreads : Follows(u)'
BY DEF QueueTypes, Follows
-----------------------------------------------------------------------------
(* The invariant.                                                          *)

\* A thread that has a node of its own: one it will join, or the old head it gives back.
OwnsNode == {"fill", "enq", "enq_next", "enq_check", "enq_link", "enq_help"}
OwnsHead == {"free", "free_next", "free_put"}

\* The list from the head: nothing is lost, and the tail is on it.
ListShape(at, kind) ==
    /\ Len(taken) <= Len(joined) /\ \A i \in 1 .. Len(taken) : taken[i] = joined[i]
    /\ \A i, j \in Len(taken) .. Len(joined) : at[i] = at[j] => i = j
    /\ \A i \in Len(taken) .. Len(joined) : kind[at[i]] = "queue"
    /\ qhead = at[Len(taken)] /\ \E i \in Len(taken) .. Len(joined) : qtail = at[i]
    /\ \A i \in Len(taken) .. Len(joined) - 1 : qnext[at[i]] = at[i + 1]
    /\ qnext[at[Len(joined)]] = Nil
    /\ \A i \in Len(taken) + 1 .. Len(joined) : qwork[at[i]] = joined[i]

\* The free list is a stack.
StackShape(fs, k, kind) ==
    /\ \A i, j \in 1 .. k : fs[i] = fs[j] => i = j
    /\ \A i \in 1 .. k : kind[fs[i]] = "free"
    /\ k = 0 => qfree = Nil
    /\ k # 0 => qfree = fs[k] /\ qnext[fs[1]] = Nil
    /\ \A i \in 2 .. k : qnext[fs[i]] = fs[i - 1]

Shape(at, fs, k, kind, own) ==
    /\ at \in [Nat -> QNodes] /\ fs \in [Nat -> QNodes] /\ k \in Nat
    /\ kind \in [QNodes -> {"queue", "free", "fresh", "thread"}] /\ own \in [QNodes -> QThreads \cup {Nil}]
    /\ ListShape(at, kind) /\ StackShape(fs, k, kind) /\ \A n \in fresh : kind[n] = "fresh"

\* What a thread knows, as long as the pointers it loaded have not changed.
Local(t, at, kind, own) ==
    /\ qpc[t] \in OwnsNode => kind[reg[t].node] = "thread" /\ own[reg[t].node] = t
    /\ qpc[t] \in OwnsHead => kind[reg[t].head] = "thread" /\ own[reg[t].head] = t
    /\ qpc[t] \in {"alloc_next", "alloc_take"} /\ PFree \notin changed[t] => qfree = reg[t].node
    /\ qpc[t] = "alloc_take" /\ PFree \notin changed[t] => qnext[reg[t].node] = reg[t].next
    /\ qpc[t] \in OwnsNode \ {"fill"} => qnext[reg[t].node] = Nil /\ qwork[reg[t].node] = reg[t].item
    /\ qpc[t] \in HasTail /\ PTail \notin changed[t] => qtail = reg[t].tail
    /\ qpc[t] \in {"enq_check", "enq_help", "deq_help"} /\ PTail \notin changed[t] /\ reg[t].next # Nil =>
          qnext[reg[t].tail] = reg[t].next
    /\ qpc[t] = "deq_check" /\ PTail \notin changed[t] /\ reg[t].head = reg[t].tail /\ reg[t].next # Nil =>
          qnext[reg[t].tail] = reg[t].next
    /\ qpc[t] = "enq_check" /\ PNext(reg[t].tail) \notin changed[t] => qnext[reg[t].tail] = reg[t].next
    /\ qpc[t] = "enq_link" =>
          reg[t].next = Nil /\ (PNext(reg[t].tail) \notin changed[t] => reg[t].tail = at[Len(joined)])
    /\ qpc[t] = "enq_swing" /\ PTail \notin changed[t] => qnext[reg[t].tail] = reg[t].node
    /\ qpc[t] \in {"deq_tail", "deq_next", "deq_check", "deq_item", "deq_take"} /\ PHead \notin changed[t] =>
          qhead = reg[t].head
    /\ qpc[t] \in {"deq_next", "deq_check", "deq_item", "deq_take"} /\ PHead \notin changed[t] =>
          reg[t].tail = reg[t].head \/ qtail # reg[t].head
    /\ qpc[t] \in {"deq_item", "deq_take"} => reg[t].tail # reg[t].head
    /\ qpc[t] \in {"deq_check", "deq_item", "deq_take"} /\ PHead \notin changed[t] /\ reg[t].next # Nil =>
          qnext[reg[t].head] = reg[t].next
    /\ qpc[t] = "deq_take" /\ PHead \notin changed[t] => reg[t].item = qwork[reg[t].next]
    /\ qpc[t] = "free_put" => qnext[reg[t].head] = reg[t].next

\* The size lacks what has not got to the counter.
Joining == AtOneOf({"enq_swing", "enq_count"})
Leaving == AtOneOf({"free", "free_next", "free_put", "deq_count"})
Sized   == qsize = Len(joined) - Len(taken) - Cardinality(Joining) + Cardinality(Leaving)

QueueInv ==
    /\ QueueTypes
    /\ \/ reused
       \/ /\ Sized
          /\ \E at, fs, k, kind, own :
                Shape(at, fs, k, kind, own) /\ \A t \in QThreads : Local(t, at, kind, own)

\* What follows for the nodes of the list.
LEMMA ShapeFacts ==
    ASSUME QueueTypes, NEW at, NEW fs, NEW k, NEW kind, NEW own, Shape(at, fs, k, kind, own)
    PROVE  /\ Len(taken) \in Nat /\ Len(joined) \in Nat /\ k \in Nat
           /\ kind[qhead] = "queue" /\ kind[qtail] = "queue"
           /\ \A i \in Len(taken) .. Len(joined) : at[i] \in QNodes /\ kind[at[i]] = "queue" /\ at[i] # Nil
           /\ kind[at[Len(joined)]] = "queue" /\ qnext[at[Len(joined)]] = Nil
           /\ qtail \in QNodes /\ qnext[qtail] = Nil => qtail = at[Len(joined)]
           /\ qtail # at[Len(joined)] => qnext[qtail] # Nil
           /\ qnext[qhead] # Nil => kind[qnext[qhead]] = "queue"
           /\ qnext[qtail] # Nil => kind[qnext[qtail]] = "queue" /\ qnext[qtail] # qhead
           /\ qfree # Nil => kind[qfree] = "free"
<1>1. Len(taken) \in Nat /\ Len(joined) \in Nat /\ k \in Nat /\ Len(taken) <= Len(joined)
  BY LenProperties DEF QueueTypes, Shape, ListShape, StackShape
<1> DEFINE a == Len(taken)
           b == Len(joined)
<1>2. a \in Nat /\ b \in Nat /\ a <= b /\ a \in a .. b /\ b \in a .. b
  BY <1>1
<1>3. \A i \in a .. b : i \in Nat /\ at[i] \in QNodes /\ kind[at[i]] = "queue" /\ at[i] # Nil
  <2>1. \A i \in a .. b : i \in Nat
    BY <1>2
  <2>2. \A i \in a .. b : kind[at[i]] = "queue"
    BY DEF Shape, ListShape, StackShape
  <2>3. at \in [Nat -> QNodes]
    BY DEF Shape
  <2> QED BY <2>1, <2>2, <2>3, NodeFacts
<1>4. \A i \in a .. b - 1 : i \in a .. b /\ i + 1 \in a .. b /\ i + 1 # a /\ qnext[at[i]] = at[i + 1]
  BY <1>2 DEF Shape, ListShape, StackShape
<1>5. qnext[at[b]] = Nil /\ qhead = at[a]
  BY DEF Shape, ListShape, StackShape
<1>6. PICK j \in a .. b : qtail = at[j]
  BY DEF Shape, ListShape, StackShape
<1> HIDE DEF a, b
<1>7. kind[qhead] = "queue" /\ kind[qtail] = "queue" /\ kind[at[b]] = "queue"
  BY <1>2, <1>3, <1>5, <1>6
<1>8. ASSUME NEW i \in a .. b PROVE i = b \/ i \in a .. b - 1
  BY <1>2
<1>9. ASSUME NEW i \in a .. b, qnext[at[i]] # Nil
      PROVE  kind[qnext[at[i]]] = "queue" /\ qnext[at[i]] # at[a]
  BY <1>5, <1>8, <1>9, <1>4, <1>2, <1>3 DEF Shape, ListShape, StackShape, a, b
<1>10. qnext[qtail] = Nil => qtail = at[b]
  <2> SUFFICES ASSUME j \in a .. b - 1 PROVE qnext[at[j]] # Nil
    BY <1>6, <1>8
  <2> QED BY <1>3, <1>4
<1>11. qtail # at[b] => qnext[qtail] # Nil
  BY <1>10
<1>12. qfree # Nil => kind[qfree] = "free"
  BY <1>1 DEF Shape, ListShape, StackShape
<1>13. qtail \in QNodes
  BY DEF QueueTypes
<1> QED BY <1>1, <1>2, <1>3, <1>5, <1>6, <1>7, <1>9, <1>10, <1>11, <1>12, <1>13 DEF a, b

\* What a step of one thread leaves of what another one knows.
LEMMA OthersKeep ==
    ASSUME QueueTypes, NEW at, NEW fs, NEW k, NEW kind, NEW own, Shape(at, fs, k, kind, own),
           NEW at2, NEW kind2, NEW own2,
           NEW u \in QThreads, Local(u, at, kind, own),
           reg'[u] = reg[u], qpc'[u] = qpc[u], changed[u] \subseteq changed'[u],
           PFree \in changed'[u] \/ qfree' = qfree,
           PTail \in changed'[u] \/ qtail' = qtail,
           PHead \in changed'[u] \/ (qhead' = qhead /\ (qtail' = qtail \/ qtail' # qhead)),
           \A n \in QNodes : PNext(n) \in changed'[u] \/ qnext'[n] = qnext[n],
           \A n \in QNodes : kind[n] = "queue" /\ qnext[n] # Nil => qnext'[n] = qnext[n],
           \A n \in QNodes : kind[n] = "queue" => qwork'[n] = qwork[n],
           \A n \in QNodes : kind[n] = "free" => qnext'[n] = qnext[n],
           \A n \in QNodes : kind[n] = "thread" /\ own[n] = u =>
              kind2[n] = "thread" /\ own2[n] = u /\ qnext'[n] = qnext[n] /\ qwork'[n] = qwork[n],
           at2[Len(joined')] = at[Len(joined)] \/ PNext(at[Len(joined)]) \in changed'[u]
    PROVE  Local(u, at2, kind2, own2)'
<1> DEFINE r == reg[u]
<1>1. /\ qpc[u] \in OwnsNode => r.node \in QNodes /\ kind[r.node] = "thread" /\ own[r.node] = u
      /\ qpc[u] \in OwnsHead => r.head \in QNodes /\ kind[r.head] = "thread" /\ own[r.head] = u
  BY DEF Local, OwnsNode, OwnsHead, HasNode, HasHead, QueueTypes, Follows
<1>2. /\ qpc[u] \in HasNode => r.node \in QNodes
      /\ qpc[u] \in HasTail => r.tail \in QNodes
      /\ qpc[u] \in HasHead => r.head \in QNodes
      /\ qpc[u] \in HasNext => r.next \in QNodes
  BY DEF QueueTypes, Follows
<1>3. /\ kind[qhead] = "queue" /\ kind[qtail] = "queue" /\ qhead \in QNodes /\ qtail \in QNodes
      /\ qnext[qhead] # Nil => kind[qnext[qhead]] = "queue" /\ qnext[qhead] \in QNodes
      /\ qfree # Nil => kind[qfree] = "free"
  BY ShapeFacts DEF QueueTypes, Addr
<1>4. /\ qpc[u] \in OwnsNode => kind2[r.node] = "thread" /\ own2[r.node] = u
      /\ qpc[u] \in OwnsHead => kind2[r.head] = "thread" /\ own2[r.head] = u
      /\ qpc[u] \in OwnsNode \ {"fill"} => qnext'[r.node] = Nil /\ qwork'[r.node] = r.item
      /\ qpc[u] = "free_put" => qnext'[r.head] = r.next
  BY <1>1 DEF Local, OwnsHead
<1>5. /\ qpc[u] \in {"alloc_next", "alloc_take"} /\ PFree \notin changed'[u] => qfree' = r.node
      /\ qpc[u] = "alloc_take" /\ PFree \notin changed'[u] => qnext'[r.node] = r.next
  <2> SUFFICES ASSUME PFree \notin changed'[u], qpc[u] \in {"alloc_next", "alloc_take"}
               PROVE  qfree' = r.node /\ (qpc[u] = "alloc_take" => qnext'[r.node] = r.next)
    OBVIOUS
  <2>1. PFree \notin changed[u] /\ qfree' = qfree /\ qfree = r.node /\ r.node \in QNodes
    BY <1>2 DEF Local, HasNode
  <2>2. kind[r.node] = "free"
    BY <1>3, <2>1, NodeFacts
  <2> QED BY <2>1, <2>2 DEF Local
<1>6. qpc[u] \in HasTail /\ PTail \notin changed'[u] => qtail = r.tail /\ qtail' = r.tail /\ PTail \notin changed[u]
  BY DEF Local
<1>7. /\ qpc[u] \in {"enq_check", "enq_help", "deq_help"} /\ PTail \notin changed'[u] /\ r.next # Nil =>
            qnext'[r.tail] = r.next
      /\ qpc[u] = "deq_check" /\ PTail \notin changed'[u] /\ r.head = r.tail /\ r.next # Nil =>
            qnext'[r.tail] = r.next
  BY <1>3, <1>6 DEF Local, HasTail
<1>8. qpc[u] = "enq_swing" /\ PTail \notin changed'[u] => qnext'[r.tail] = r.node
  <2> SUFFICES ASSUME qpc[u] = "enq_swing", PTail \notin changed'[u] PROVE qnext'[r.tail] = r.node
    OBVIOUS
  <2>1. qtail = r.tail /\ qnext[r.tail] = r.node /\ r.node \in QNodes
    BY <1>2, <1>6 DEF Local, HasTail, HasNode
  <2> QED BY <1>3, <2>1, NodeFacts
<1>9. qpc[u] = "enq_check" /\ PNext(r.tail) \notin changed'[u] => qnext'[r.tail] = r.next
  BY <1>2 DEF Local, HasTail
<1>10. qpc[u] = "enq_link" =>
          r.next = Nil /\ (PNext(r.tail) \notin changed'[u] => r.tail = at2[Len(joined')])
  BY DEF Local
<1>11. qpc[u] \in {"deq_tail", "deq_next", "deq_check", "deq_item", "deq_take"} /\ PHead \notin changed'[u] =>
          qhead = r.head /\ qhead' = r.head /\ PHead \notin changed[u] /\ (qtail' = qtail \/ qtail' # r.head)
  BY DEF Local
<1>12. qpc[u] \in {"deq_next", "deq_check", "deq_item", "deq_take"} /\ PHead \notin changed'[u] =>
          r.tail = r.head \/ qtail' # r.head
  BY <1>11 DEF Local
<1>13. qpc[u] \in {"deq_check", "deq_item", "deq_take"} /\ PHead \notin changed'[u] /\ r.next # Nil =>
          qnext[r.head] = r.next /\ qnext'[r.head] = r.next
  BY <1>3, <1>11 DEF Local
<1>14. qpc[u] = "deq_take" /\ PHead \notin changed'[u] => r.item = qwork'[r.next]
  <2> SUFFICES ASSUME qpc[u] = "deq_take", PHead \notin changed'[u] PROVE r.item = qwork'[r.next]
    OBVIOUS
  <2>1. r.next \in QNodes /\ r.next # Nil
    BY <1>2, NodeFacts DEF HasNext
  <2>2. qhead = r.head /\ qnext[r.head] = r.next /\ PHead \notin changed[u]
    BY <1>11, <1>13, <2>1
  <2>3. kind[r.next] = "queue"
    BY <1>3, <2>1, <2>2
  <2> QED BY <2>1, <2>2, <2>3 DEF Local
<1>15. qpc[u] \in {"deq_item", "deq_take"} => r.tail # r.head
  BY DEF Local
<1> QED BY <1>4, <1>5, <1>6, <1>7, <1>8, <1>9, <1>10, <1>11, <1>12, <1>13, <1>14, <1>15 DEF Local

\* A step that reads the memory at most.
QuietStep(t) ==
    /\ UNCHANGED <<qhead, qtail, qfree, qnext, qwork, fresh, qsize, joined, taken, reused>>
    /\ qpc' \in [QThreads -> QPcs] /\ reg' \in [QThreads -> Regs] /\ changed' \in [QThreads -> SUBSET Pointers]
    /\ qops' \in Items
    /\ \A u \in QThreads \ {t} : qpc'[u] = qpc[u] /\ reg'[u] = reg[u] /\ changed'[u] = changed[u]

\* Whether a thread counts as one that is late with the size.
Late(l) == <<l \in {"enq_swing", "enq_count"}, l \in {"free", "free_next", "free_put", "deq_count"}>>

LEMMA SameLate ==
    ASSUME NEW t \in QThreads, Late(qpc'[t]) = Late(qpc[t]), \A u \in QThreads \ {t} : qpc'[u] = qpc[u]
    PROVE  Joining' = Joining /\ Leaving' = Leaving
BY DEF Late, Joining, Leaving, AtOneOf

LEMMA QuietKeeps ==
    ASSUME QueueInv, ~ reused, NEW t \in QThreads, QuietStep(t), Follows(t)', Late(qpc'[t]) = Late(qpc[t]),
           \A at, fs, k, kind, own :
              Shape(at, fs, k, kind, own) /\ Local(t, at, kind, own) => Local(t, at, kind, own)'
    PROVE  QueueInv'
<1>1. QueueTypes'
  BY FollowersKeep DEF QueueInv, QueueTypes, QuietStep
<1>2. PICK at, fs, k, kind, own : Shape(at, fs, k, kind, own) /\ \A u \in QThreads : Local(u, at, kind, own)
  BY DEF QueueInv
<1>3. Shape(at, fs, k, kind, own)'
  BY <1>2 DEF Shape, ListShape, StackShape, QuietStep
<1>4. ASSUME NEW u \in QThreads \ {t} PROVE Local(u, at, kind, own)'
  BY <1>2 DEF Local, QuietStep
<1>5. Sized'
  BY SameLate DEF Sized, QueueInv, QuietStep
<1> QED BY <1>1, <1>2, <1>3, <1>4, <1>5 DEF QueueInv

-----------------------------------------------------------------------------
(* What a write leaves of the two lists.                                   *)

LEMMA ListKeeps ==
    ASSUME QueueTypes, NEW at \in [Nat -> QNodes], NEW kind, NEW kind2, ListShape(at, kind),
           UNCHANGED <<qhead, qtail, joined, taken>>,
           \A n \in QNodes : kind[n] = "queue" => kind2[n] = "queue" /\ qnext'[n] = qnext[n] /\ qwork'[n] = qwork[n]
    PROVE  ListShape(at, kind2)'
<1> DEFINE a == Len(taken)
           b == Len(joined)
<1>1. a \in Nat /\ b \in Nat /\ a <= b
  BY LenProperties DEF QueueTypes, ListShape
<1>2. \A i \in a .. b : at[i] \in QNodes /\ kind[at[i]] = "queue"
  BY <1>1 DEF ListShape
<1>3. \A i \in a .. b : kind2[at[i]] = "queue" /\ qnext'[at[i]] = qnext[at[i]] /\ qwork'[at[i]] = qwork[at[i]]
  BY <1>2
<1>4. b \in a .. b /\ (a .. b - 1) \subseteq a .. b /\ (a + 1 .. b) \subseteq a .. b
  BY <1>1
<1>5. a' = a /\ b' = b
  OBVIOUS
<1> HIDE DEF a, b
<1>6. /\ \A i \in a .. b - 1 : qnext'[at[i]] = qnext[at[i]]
      /\ \A i \in a + 1 .. b : qwork'[at[i]] = qwork[at[i]]
      /\ qnext'[at[b]] = qnext[at[b]]
  BY <1>3, <1>4
<1> QED BY <1>3, <1>5, <1>6, SMTT(30) DEF ListShape, a, b

LEMMA StackKeeps ==
    ASSUME QueueTypes, NEW fs \in [Nat -> QNodes], NEW k \in Nat, NEW kind, NEW kind2, StackShape(fs, k, kind),
           UNCHANGED qfree,
           \A n \in QNodes : kind[n] = "free" => kind2[n] = "free" /\ qnext'[n] = qnext[n]
    PROVE  StackShape(fs, k, kind2)'
  BY DEF StackShape

LEMMA LateSets == IsFiniteSet(Joining) /\ IsFiniteSet(Leaving) /\ Cardinality(Joining) \in Nat /\ Cardinality(Leaving) \in Nat
  BY QueueAssumption, FS_Subset, FS_CardinalityType DEF Joining, Leaving, AtOneOf

-----------------------------------------------------------------------------
(* The steps that read.                                                    *)

LEMMA EnqueueKeeps == ASSUME QueueInv, ~ reused, NEW t \in QThreads, Enqueue(t) PROVE QueueInv'
<1>1. QueueTypes /\ qops + 1 \in Items /\ "alloc" \in QPcs
  BY NodeFacts DEF QueueInv, QueueTypes, Enqueue, Items, QPcs
<1>2. qpc[t] = "idle" /\ qpc'[t] = "alloc" /\ QuietStep(t)
  BY <1>1, RegItem, GotoFacts DEF Enqueue, QuietStep, QueueTypes
<1> QED BY <1>2, QuietKeeps DEF Follows, Late, Local, HasNode, HasTail, HasHead, HasNext, OwnsNode, OwnsHead

LEMMA AllocNextKeeps == ASSUME QueueInv, ~ reused, NEW t \in QThreads, AllocNext(t) PROVE QueueInv'
<1>1. QueueTypes /\ qpc[t] = "alloc_next" /\ reg[t].node \in QNodes /\ qnext[reg[t].node] \in Addr /\ "alloc_take" \in QPcs
  BY DEF QueueInv, QueueTypes, Follows, AllocNext, QPcs, HasNode
<1>2. /\ qpc'[t] = "alloc_take" /\ QuietStep(t) /\ changed' = changed
      /\ reg'[t].node = reg[t].node /\ reg'[t].next = qnext[reg[t].node]
  BY <1>1, RegNext, GotoFacts DEF AllocNext, QuietStep, QueueTypes
<1>3. UNCHANGED <<qfree, qnext>>
  BY DEF AllocNext
<1> QED BY <1>1, <1>2, <1>3, QuietKeeps DEF Follows, Late, Local, HasNode, HasTail, HasHead, HasNext, OwnsNode, OwnsHead

LEMMA EnqLoadTailKeeps == ASSUME QueueInv, ~ reused, NEW t \in QThreads, EnqLoadTail(t) PROVE QueueInv'
<1>1. /\ QueueTypes /\ qpc[t] = "enq" /\ reg[t].node \in QNodes /\ qtail \in QNodes /\ qtail \in Addr
      /\ "enq_next" \in QPcs /\ PTail \in Pointers
  BY PointerFacts DEF QueueInv, QueueTypes, Follows, EnqLoadTail, QPcs, HasNode, Addr
<1>2. /\ qpc'[t] = "enq_next" /\ QuietStep(t) /\ reg'[t].tail = qtail /\ reg'[t].node = reg[t].node /\ reg'[t].item = reg[t].item
  <2>1. reg' = [reg EXCEPT ![t].tail = qtail] /\ Goto(t, "enq_next") /\ Loads(t, PTail)
    BY DEF EnqLoadTail
  <2>2. /\ reg' \in [QThreads -> Regs] /\ \A u \in QThreads \ {t} : reg'[u] = reg[u]
        /\ reg'[t].tail = qtail /\ reg'[t].node = reg[t].node /\ reg'[t].item = reg[t].item
    BY <1>1, <2>1, RegTail
  <2>3. qpc' \in [QThreads -> QPcs] /\ qpc'[t] = "enq_next" /\ \A u \in QThreads \ {t} : qpc'[u] = qpc[u]
    BY <1>1, <2>1, GotoFacts
  <2>4. changed' \in [QThreads -> SUBSET Pointers] /\ \A u \in QThreads \ {t} : changed'[u] = changed[u]
    BY <1>1, <2>1, HistoryFacts
  <2> QED BY <1>1, <2>2, <2>3, <2>4 DEF EnqLoadTail, QuietStep, QueueTypes
<1>3. UNCHANGED <<qtail, qnext, qwork>>
  BY DEF EnqLoadTail
<1> QED BY <1>1, <1>2, <1>3, QuietKeeps DEF Follows, Late, Local, HasNode, HasTail, HasHead, HasNext, OwnsNode, OwnsHead

LEMMA EnqLoadNextKeeps == ASSUME QueueInv, ~ reused, NEW t \in QThreads, EnqLoadNext(t) PROVE QueueInv'
<1>1. /\ QueueTypes /\ qpc[t] = "enq_next" /\ reg[t].node \in QNodes /\ reg[t].tail \in QNodes
      /\ qnext[reg[t].tail] \in Addr /\ "enq_check" \in QPcs /\ PNext(reg[t].tail) \in Pointers
  BY PointerFacts DEF QueueInv, QueueTypes, Follows, EnqLoadNext, QPcs, HasNode, HasTail
<1>2. /\ qpc'[t] = "enq_check" /\ QuietStep(t) /\ reg'[t].next = qnext[reg[t].tail] /\ reg'[t].tail = reg[t].tail
      /\ reg'[t].node = reg[t].node /\ reg'[t].item = reg[t].item
      /\ changed'[t] = changed[t] \ {PNext(reg[t].tail)}
  <2>1. reg' = [reg EXCEPT ![t].next = qnext[reg[t].tail]] /\ Goto(t, "enq_check") /\ Loads(t, PNext(reg[t].tail))
    BY DEF EnqLoadNext
  <2>2. /\ reg' \in [QThreads -> Regs] /\ \A u \in QThreads \ {t} : reg'[u] = reg[u]
        /\ reg'[t].next = qnext[reg[t].tail] /\ reg'[t].tail = reg[t].tail
        /\ reg'[t].node = reg[t].node /\ reg'[t].item = reg[t].item
    BY <1>1, <2>1, RegNext
  <2>3. qpc' \in [QThreads -> QPcs] /\ qpc'[t] = "enq_check" /\ \A u \in QThreads \ {t} : qpc'[u] = qpc[u]
    BY <1>1, <2>1, GotoFacts
  <2>4. /\ changed' \in [QThreads -> SUBSET Pointers] /\ changed'[t] = changed[t] \ {PNext(reg[t].tail)}
        /\ \A u \in QThreads \ {t} : changed'[u] = changed[u]
    BY <1>1, <2>1, HistoryFacts
  <2> QED BY <1>1, <2>2, <2>3, <2>4 DEF EnqLoadNext, QuietStep, QueueTypes
<1>3. UNCHANGED <<qtail, qnext, qwork>> /\ (PTail \in changed'[t] <=> PTail \in changed[t])
  BY <1>2, PointerFacts DEF EnqLoadNext
<1> QED BY <1>1, <1>2, <1>3, QuietKeeps DEF Follows, Late, Local, HasNode, HasTail, HasHead, HasNext, OwnsNode, OwnsHead

LEMMA EnqCheckKeeps == ASSUME QueueInv, ~ reused, NEW t \in QThreads, EnqCheck(t) PROVE QueueInv'
<1> DEFINE l == IF reg[t].tail # qtail THEN "enq" ELSE IF reg[t].next = Nil THEN "enq_link" ELSE "enq_help"
<1>1. /\ QueueTypes /\ qpc[t] = "enq_check" /\ reg[t].node \in QNodes /\ reg[t].tail \in QNodes /\ reg[t].next \in Addr
      /\ l \in QPcs /\ Goto(t, l) /\ UNCHANGED <<reg, changed, qtail, qnext, qwork, joined>>
  BY DEF QueueInv, QueueTypes, Regs, Follows, EnqCheck, QPcs, HasNode, HasTail, HasNext
<1>2. /\ l \in {"enq", "enq_link", "enq_help"} /\ (l # "enq" => reg[t].tail = qtail)
      /\ (l = "enq_link" => reg[t].next = Nil) /\ (l = "enq_help" => reg[t].next # Nil)
  OBVIOUS
<1> HIDE DEF l
<1>3. qpc'[t] = l /\ QuietStep(t)
  BY <1>1, GotoFacts DEF EnqCheck, QuietStep, QueueTypes
<1>4. Follows(t)' /\ Late(qpc'[t]) = Late(qpc[t])
  BY <1>1, <1>2, <1>3 DEF Follows, Late, HasNode, HasTail, HasHead, HasNext, Addr
<1>5. ASSUME NEW at, NEW fs, NEW k, NEW kind, NEW own, Shape(at, fs, k, kind, own), Local(t, at, kind, own)
      PROVE  Local(t, at, kind, own)'
  BY <1>1, <1>5, ShapeFacts, <1>2, <1>3 DEF Local, HasTail, OwnsNode, OwnsHead
<1> QED BY <1>3, <1>4, <1>5, QuietKeeps

LEMMA CountKeeps ==
    ASSUME QueueInv, ~ reused, NEW t \in QThreads, Count(t, "enq_count", 1) \/ Count(t, "deq_count", -1)
    PROVE  QueueInv'
<1>1. QueueTypes /\ qpc[t] \in {"enq_count", "deq_count"} /\ "idle" \in QPcs /\ Goto(t, "idle")
      /\ UNCHANGED <<qhead, qtail, qfree, qnext, qwork, fresh, reg, changed, qops, joined, taken, reused>>
  BY DEF QueueInv, Count, QPcs
<1>2. qpc' \in [QThreads -> QPcs] /\ qpc'[t] = "idle" /\ \A u \in QThreads \ {t} : qpc'[u] = qpc[u]
  BY <1>1, GotoFacts
<1>3. IsFiniteSet(Joining) /\ IsFiniteSet(Leaving) /\ Cardinality(Joining) \in Nat /\ Cardinality(Leaving) \in Nat
  BY LateSets
<1>4. Len(joined) \in Nat /\ Len(taken) \in Nat /\ qsize \in Int
  BY <1>1, LenProperties DEF QueueTypes
<1>5. qsize' \in Int /\ Sized'
  <2>1. CASE Count(t, "enq_count", 1)
    <3>1. Joining' = Joining \ {t} /\ t \in Joining /\ Leaving' = Leaving /\ qsize' = qsize + 1
      BY <1>2, <2>1 DEF Count, Joining, Leaving, AtOneOf
    <3>2. Cardinality(Joining') = Cardinality(Joining) - 1
      BY <1>3, <3>1, FS_RemoveElement
    <3> QED BY <1>1, <1>3, <1>4, <3>1, <3>2, SMTT(30) DEF QueueInv, Sized
  <2>2. CASE Count(t, "deq_count", -1)
    <3>1. Leaving' = Leaving \ {t} /\ t \in Leaving /\ Joining' = Joining /\ qsize' = qsize - 1
      BY <1>2, <1>4, <2>2 DEF Count, Joining, Leaving, AtOneOf
    <3>2. Cardinality(Leaving') = Cardinality(Leaving) - 1
      BY <1>3, <3>1, FS_RemoveElement
    <3> QED BY <1>1, <1>3, <1>4, <3>1, <3>2 DEF QueueInv, Sized
  <2> QED BY <2>1, <2>2
<1>6. Follows(t)'
  BY <1>2 DEF Follows, HasNode, HasTail, HasHead, HasNext
<1>7. QueueTypes'
  BY <1>1, <1>2, <1>5, <1>6, FollowersKeep DEF QueueTypes
<1>8. PICK at, fs, k, kind, own : Shape(at, fs, k, kind, own) /\ \A u \in QThreads : Local(u, at, kind, own)
  BY DEF QueueInv
<1>9. Shape(at, fs, k, kind, own)'
  BY <1>1, <1>8 DEF Shape, ListShape, StackShape
<1>10. ASSUME NEW u \in QThreads PROVE Local(u, at, kind, own)'
  BY <1>2, <1>1, <1>8 DEF Local, OwnsNode, OwnsHead, HasTail
<1> QED BY <1>5, <1>7, <1>9, <1>10 DEF QueueInv

LEMMA DequeueKeeps == ASSUME QueueInv, ~ reused, NEW t \in QThreads, Dequeue(t) PROVE QueueInv'
<1>1. QueueTypes /\ qops + 1 \in Items /\ "deq" \in QPcs
  BY NodeFacts DEF QueueInv, QueueTypes, Dequeue, Items, QPcs
<1>2. qpc[t] = "idle" /\ qpc'[t] = "deq" /\ QuietStep(t)
  BY <1>1, GotoFacts DEF Dequeue, QuietStep, QueueTypes
<1> QED BY <1>2, QuietKeeps DEF Follows, Late, Local, HasNode, HasTail, HasHead, HasNext, OwnsNode, OwnsHead

LEMMA DeqLoadKeeps == ASSUME QueueInv, ~ reused, NEW t \in QThreads, DeqLoad(t) PROVE QueueInv'
<1>1. /\ QueueTypes /\ qhead \in QNodes /\ qtail \in QNodes /\ qhead \in Addr /\ qtail \in Addr
      /\ {"deq_tail", "deq_next", "deq_check"} \subseteq QPcs /\ PHead \in Pointers /\ PTail \in Pointers /\ PHead # PTail
  BY PointerFacts DEF QueueInv, QueueTypes, QPcs, HasHead, Addr
<1>2. UNCHANGED <<qhead, qtail, qfree, qnext, qwork, fresh, qsize, qops, joined, taken, reused>>
  BY DEF DeqLoad
<1>3. CASE qpc[t] = "deq" /\ Goto(t, "deq_tail") /\ reg' = [reg EXCEPT ![t].head = qhead] /\ Loads(t, PHead)
  <2>1. qpc'[t] = "deq_tail" /\ QuietStep(t) /\ reg'[t].head = qhead
    <3>1. /\ reg' \in [QThreads -> Regs] /\ \A u \in QThreads \ {t} : reg'[u] = reg[u]
          /\ reg'[t].head = qhead
      BY <1>1, <1>3, RegHead
    <3>2. qpc' \in [QThreads -> QPcs] /\ qpc'[t] = "deq_tail" /\ \A u \in QThreads \ {t} : qpc'[u] = qpc[u]
      BY <1>1, <1>3, GotoFacts
    <3>3. changed' \in [QThreads -> SUBSET Pointers] /\ \A u \in QThreads \ {t} : changed'[u] = changed[u]
      BY <1>1, <1>3, HistoryFacts
    <3> QED BY <1>1, <1>2, <3>1, <3>2, <3>3 DEF QuietStep, QueueTypes
  <2> QED BY <1>1, <1>2, <1>3, <2>1, QuietKeeps
          DEF Follows, Late, Local, HasNode, HasTail, HasHead, HasNext, OwnsNode, OwnsHead
<1>4. CASE qpc[t] = "deq_tail" /\ Goto(t, "deq_next") /\ reg' = [reg EXCEPT ![t].tail = qtail] /\ Loads(t, PTail)
  <2>1. /\ qpc'[t] = "deq_next" /\ QuietStep(t) /\ reg'[t].tail = qtail /\ reg'[t].head = reg[t].head
        /\ changed'[t] = changed[t] \ {PTail} /\ reg[t].head \in QNodes
    <3>1. /\ reg' \in [QThreads -> Regs] /\ \A u \in QThreads \ {t} : reg'[u] = reg[u]
          /\ reg'[t].tail = qtail /\ reg'[t].head = reg[t].head
      BY <1>1, <1>4, RegTail
    <3>2. qpc' \in [QThreads -> QPcs] /\ qpc'[t] = "deq_next" /\ \A u \in QThreads \ {t} : qpc'[u] = qpc[u]
      BY <1>1, <1>4, GotoFacts
    <3>3. /\ changed' \in [QThreads -> SUBSET Pointers] /\ changed'[t] = changed[t] \ {PTail}
          /\ \A u \in QThreads \ {t} : changed'[u] = changed[u]
      BY <1>1, <1>4, HistoryFacts
    <3>4. reg[t].head \in QNodes
      BY <1>1, <1>4 DEF QueueTypes, Follows, HasHead
    <3> QED BY <1>1, <1>2, <3>1, <3>2, <3>3, <3>4 DEF QuietStep, QueueTypes
  <2> QED BY <1>1, <1>2, <1>4, <2>1, QuietKeeps
          DEF Follows, Late, Local, HasNode, HasTail, HasHead, HasNext, OwnsNode, OwnsHead
<1>5. CASE qpc[t] = "deq_next" /\ Goto(t, "deq_check") /\ reg' = [reg EXCEPT ![t].next = qnext[reg[t].head]] /\ changed' = changed
  <2>1. reg[t].head \in QNodes /\ reg[t].tail \in QNodes /\ qnext[reg[t].head] \in Addr
    BY <1>1, <1>5 DEF QueueTypes, Follows, HasHead, HasTail
  <2>2. /\ qpc'[t] = "deq_check" /\ QuietStep(t) /\ reg'[t].tail = reg[t].tail /\ reg'[t].head = reg[t].head
        /\ reg'[t].next = qnext[reg[t].head]
    BY <1>1, <1>5, <2>1, RegNext, GotoFacts, <1>2 DEF QuietStep, QueueTypes
  <2> QED BY <1>1, <1>2, <1>5, <2>1, <2>2, QuietKeeps, SMTT(30)
          DEF Follows, Late, Local, HasNode, HasTail, HasHead, HasNext, OwnsNode, OwnsHead
<1> QED BY <1>3, <1>4, <1>5 DEF DeqLoad

LEMMA DeqCheckKeeps == ASSUME QueueInv, ~ reused, NEW t \in QThreads, DeqCheck(t) PROVE QueueInv'
<1> DEFINE l == IF reg[t].head # qhead THEN "deq"
               ELSE IF reg[t].head = reg[t].tail THEN IF reg[t].next = Nil THEN "idle" ELSE "deq_help"
               ELSE IF reg[t].next = Nil THEN "deq" ELSE "deq_item"
<1>1. /\ QueueTypes /\ qpc[t] = "deq_check" /\ reg[t].head \in QNodes /\ reg[t].tail \in QNodes /\ reg[t].next \in Addr
      /\ l \in QPcs /\ Goto(t, l) /\ UNCHANGED <<reg, changed, qtail, qhead, qnext, qwork>>
  BY DEF QueueInv, QueueTypes, Regs, Follows, DeqCheck, QPcs, HasHead, HasTail, HasNext
<1>2. /\ l \in {"deq", "idle", "deq_help", "deq_item"}
      /\ (l = "deq_help" => reg[t].next # Nil /\ reg[t].head = reg[t].tail)
      /\ (l = "deq_item" => reg[t].next # Nil /\ reg[t].head # reg[t].tail)
  OBVIOUS
<1> HIDE DEF l
<1>3. qpc'[t] = l /\ QuietStep(t)
  BY <1>1, GotoFacts DEF DeqCheck, QuietStep, QueueTypes
<1> QED BY <1>1, <1>2, <1>3, QuietKeeps
        DEF Follows, Late, Local, HasNode, HasTail, HasHead, HasNext, OwnsNode, OwnsHead, Addr

LEMMA DeqItemKeeps == ASSUME QueueInv, ~ reused, NEW t \in QThreads, DeqItem(t) PROVE QueueInv'
<1>1. /\ QueueTypes /\ qpc[t] = "deq_item" /\ reg[t].head \in QNodes /\ reg[t].next \in QNodes
      /\ qwork[reg[t].next] \in Items /\ "deq_take" \in QPcs
  BY DEF QueueInv, QueueTypes, Follows, DeqItem, QPcs, HasHead, HasNext
<1>2. /\ qpc'[t] = "deq_take" /\ QuietStep(t) /\ changed' = changed /\ reg'[t].item = qwork[reg[t].next]
      /\ reg'[t].head = reg[t].head /\ reg'[t].tail = reg[t].tail /\ reg'[t].next = reg[t].next
  BY <1>1, RegItem, GotoFacts DEF DeqItem, QuietStep, QueueTypes
<1>3. UNCHANGED <<qhead, qtail, qnext, qwork>>
  BY DEF DeqItem
<1> QED BY <1>1, <1>2, <1>3, QuietKeeps DEF Follows, Late, Local, HasNode, HasTail, HasHead, HasNext, OwnsNode, OwnsHead

-----------------------------------------------------------------------------
(* The steps that write.                                                   *)

\* A failed exchange, or a list that is empty: the thread goes somewhere else.
LEMMA TurnKeeps ==
    ASSUME QueueInv, ~ reused, NEW t \in QThreads, NEW l \in {"idle", "alloc", "enq", "deq", "enq_count"}, Goto(t, l),
           UNCHANGED <<qhead, qtail, qfree, qnext, qwork, fresh, qsize, reg, changed, qops, joined, taken, reused>>,
           Late(l) = Late(qpc[t]), l = "enq" => qpc[t] \in OwnsNode \ {"fill"}
    PROVE  QueueInv'
<1>1. QueueTypes /\ l \in QPcs
  BY DEF QueueInv, QPcs, HasNode
<1>2. qpc'[t] = l /\ QuietStep(t)
  BY <1>1, GotoFacts DEF QuietStep, QueueTypes
<1>3. l = "enq" => reg[t].node \in QNodes
  BY <1>1 DEF QueueTypes, Follows, HasNode, OwnsNode
<1>4. Follows(t)'
  BY <1>2, <1>3 DEF Follows, HasNode, HasTail, HasHead, HasNext
<1> QED BY <1>2, <1>4, QuietKeeps DEF Local, HasTail, OwnsNode, OwnsHead

LEMMA AllocLoadKeeps == ASSUME QueueInv, ~ reused, NEW t \in QThreads, AllocLoad(t) PROVE QueueInv'
<1>1. /\ QueueTypes /\ qpc[t] = "alloc" /\ {"alloc_next", "fill", "idle"} \subseteq QPcs /\ qfree \in Addr
      /\ PFree \in Pointers /\ UNCHANGED <<qhead, qtail, qfree, qnext, qwork, qsize, qops, joined, taken, reused>>
  BY PointerFacts DEF QueueInv, QueueTypes, AllocLoad, QPcs, HasNode
<1>2. CASE qfree # Nil /\ reg' = [reg EXCEPT ![t].node = qfree] /\ Loads(t, PFree) /\ Goto(t, "alloc_next") /\ UNCHANGED fresh
  <2>1. reg' \in [QThreads -> Regs] /\ reg'[t].node = qfree /\ \A u \in QThreads \ {t} : reg'[u] = reg[u]
    BY <1>1, <1>2, RegNode
  <2>2. qpc' \in [QThreads -> QPcs] /\ qpc'[t] = "alloc_next" /\ \A u \in QThreads \ {t} : qpc'[u] = qpc[u]
    BY <1>1, <1>2, GotoFacts
  <2>3. changed' \in [QThreads -> SUBSET Pointers] /\ \A u \in QThreads \ {t} : changed'[u] = changed[u]
    BY <1>1, <1>2, HistoryFacts
  <2>4. QuietStep(t)
    BY <1>1, <1>2, <2>1, <2>2, <2>3 DEF QuietStep, QueueTypes
  <2>5. Follows(t)'
    BY <1>1, <1>2, <2>1, <2>2 DEF Follows, HasNode, HasTail, HasHead, HasNext, Addr
  <2> QED BY <1>1, <2>1, <2>2, <2>4, <2>5, QuietKeeps DEF Late, Local, HasTail, OwnsNode, OwnsHead
<1>3. CASE /\ qfree = Nil /\ \E n \in fresh : reg' = [reg EXCEPT ![t].node = n] /\ fresh' = fresh \ {n}
           /\ Goto(t, "fill") /\ UNCHANGED changed
  <2>1. PICK n \in fresh : reg' = [reg EXCEPT ![t].node = n] /\ fresh' = fresh \ {n}
    BY <1>3
  <2>2. n \in QNodes /\ n \in Addr
    BY <1>1 DEF QueueTypes, Addr
  <2>3. reg' \in [QThreads -> Regs] /\ reg'[t].node = n /\ \A u \in QThreads \ {t} : reg'[u] = reg[u]
    BY <1>1, <2>1, <2>2, RegNode
  <2>4. qpc' \in [QThreads -> QPcs] /\ qpc'[t] = "fill" /\ \A u \in QThreads \ {t} : qpc'[u] = qpc[u]
    BY <1>1, <1>3, GotoFacts
  <2>5. Follows(t)'
    BY <2>2, <2>3, <2>4 DEF Follows, HasNode, HasTail, HasHead, HasNext
  <2>6. QueueTypes'
    BY <1>1, <1>3, <2>1, <2>3, <2>4, <2>5, FollowersKeep DEF QueueTypes
  <2>7. PICK at, fs, k, kind, own : Shape(at, fs, k, kind, own) /\ \A u \in QThreads : Local(u, at, kind, own)
    BY DEF QueueInv
  <2> DEFINE kind2 == [kind EXCEPT ![n] = "thread"]
             own2  == [own EXCEPT ![n] = t]
  <2>8. /\ kind2 \in [QNodes -> {"queue", "free", "fresh", "thread"}] /\ own2 \in [QNodes -> QThreads \cup {Nil}]
        /\ kind[n] = "fresh" /\ kind2[n] = "thread" /\ own2[n] = t
        /\ \A m \in QNodes \ {n} : kind2[m] = kind[m] /\ own2[m] = own[m]
    BY <2>2, <2>7 DEF Shape
  <2> HIDE DEF kind2, own2
  <2>9. at \in [Nat -> QNodes] /\ fs \in [Nat -> QNodes] /\ k \in Nat /\ ListShape(at, kind) /\ StackShape(fs, k, kind)
    BY <2>7 DEF Shape
  <2>10. \A m \in QNodes : kind[m] # "fresh" => kind2[m] = kind[m] /\ own2[m] = own[m]
    BY <2>8
  <2>11. ListShape(at, kind2)'
    BY <1>1, <2>9, <2>10, ListKeeps
  <2>12. StackShape(fs, k, kind2)'
    BY <1>1, <2>9, <2>10, StackKeeps
  <2>13. \A m \in fresh' : kind2[m] = "fresh"
    BY <1>1, <2>1, <2>7, <2>8 DEF Shape, QueueTypes
  <2>14. Shape(at, fs, k, kind2, own2)'
    BY <2>8, <2>9, <2>11, <2>12, <2>13 DEF Shape
  <2>15. Local(t, at, kind2, own2)'
    BY <2>3, <2>4, <2>8 DEF Local, HasTail, OwnsNode, OwnsHead
  <2>16. ASSUME NEW u \in QThreads \ {t} PROVE Local(u, at, kind2, own2)'
    BY <1>1, <1>3, <2>3, <2>4, <2>7, <2>10, OthersKeep
  <2>17. Sized'
    BY <1>1, <2>4, SameLate DEF Sized, QueueInv, Late
  <2> QED BY <2>6, <2>14, <2>15, <2>16, <2>17 DEF QueueInv
<1>4. CASE qfree = Nil /\ fresh = {} /\ Goto(t, "idle") /\ UNCHANGED <<reg, fresh, changed>>
  BY <1>1, <1>4, TurnKeeps DEF Late
<1> QED BY <1>2, <1>3, <1>4 DEF AllocLoad

LEMMA AllocTakeKeeps == ASSUME QueueInv, ~ reused, NEW t \in QThreads, AllocTake(t) PROVE QueueInv'
<1>1. /\ QueueTypes /\ qpc[t] = "alloc_take" /\ {"fill", "alloc"} \subseteq QPcs /\ reg[t].node \in QNodes
      /\ reg[t].next \in Addr /\ PFree \in Pointers
      /\ UNCHANGED <<qhead, qtail, qnext, qwork, fresh, qsize, reg, qops, joined, taken>>
  BY PointerFacts DEF QueueInv, QueueTypes, Follows, AllocTake, QPcs, HasNode, Regs
<1>2. CASE qfree = reg[t].node /\ qfree' = reg[t].next /\ Exchanges(t, PFree) /\ Goto(t, "fill")
  <2>1. /\ changed' \in [QThreads -> SUBSET Pointers] /\ reused' \in BOOLEAN
        /\ \A u \in QThreads \ {t} : changed[u] \subseteq changed'[u] /\ PFree \in changed'[u]
        /\ ~ reused' => PFree \notin changed[t]
    BY <1>1, <1>2, HistoryFacts
  <2>2. qpc' \in [QThreads -> QPcs] /\ qpc'[t] = "fill" /\ \A u \in QThreads \ {t} : qpc'[u] = qpc[u]
    BY <1>1, <1>2, GotoFacts
  <2>3. Follows(t)'
    BY <1>1, <2>2 DEF Follows, HasNode, HasTail, HasHead, HasNext
  <2>4. QueueTypes'
    BY <1>1, <1>2, <2>1, <2>2, <2>3, FollowersKeep DEF QueueTypes
  <2>5. CASE ~ reused'
    <3>0. PICK n \in QNodes : n = reg[t].node
      BY <1>1
    <3>1. PICK at, fs, k, kind, own : Shape(at, fs, k, kind, own) /\ \A u \in QThreads : Local(u, at, kind, own)
      BY DEF QueueInv
    <3>2. /\ at \in [Nat -> QNodes] /\ fs \in [Nat -> QNodes] /\ k \in Nat /\ ListShape(at, kind) /\ StackShape(fs, k, kind)
          /\ kind \in [QNodes -> {"queue", "free", "fresh", "thread"}] /\ own \in [QNodes -> QThreads \cup {Nil}]
      BY <3>1 DEF Shape
    <3>3. qfree = n /\ qnext[n] = reg[t].next /\ n \in QNodes /\ n # Nil
      BY <1>1, <1>2, <2>1, <2>5, <3>0, <3>1, NodeFacts DEF Local
    <3> DEFINE kind2 == [kind EXCEPT ![n] = "thread"]
               own2  == [own EXCEPT ![n] = t]
    <3>4. /\ kind2 \in [QNodes -> {"queue", "free", "fresh", "thread"}] /\ own2 \in [QNodes -> QThreads \cup {Nil}]
          /\ kind2[n] = "thread" /\ own2[n] = t
          /\ \A m \in QNodes \ {n} : kind2[m] = kind[m] /\ own2[m] = own[m]
      BY <3>2, <3>3
    <3> HIDE DEF kind2, own2
    <3>5. k # 0 /\ k - 1 \in Nat /\ k \in 1 .. k /\ n = fs[k] /\ kind[n] = "free"
      BY <3>2, <3>3 DEF StackShape
    <3>6. \A m \in QNodes : kind[m] \in {"queue", "fresh", "thread"} => kind2[m] = kind[m] /\ own2[m] = own[m]
      BY <3>4, <3>5
    <3>7. ListShape(at, kind2)'
      BY <1>1, <3>2, <3>6, ListKeeps
    <3>8. StackShape(fs, k - 1, kind2)'
      <4>1. \A i \in 1 .. k - 1 : i \in 1 .. k /\ i # k
        BY <3>2
      <4>2. \A i \in 1 .. k - 1 : fs[i] \in QNodes /\ fs[i] # n /\ kind[fs[i]] = "free"
        BY <3>2, <3>5, <4>1 DEF StackShape
      <4>3. \A i \in 1 .. k - 1 : kind2[fs[i]] = "free"
        BY <3>4, <4>2
      <4>4. \A i, j \in 1 .. k - 1 : fs[i] = fs[j] => i = j
        BY <3>2, <4>1 DEF StackShape
      <4>5. qfree' = qnext[fs[k]]
        BY <1>2, <3>3, <3>5
      <4>6. k - 1 = 0 => qfree' = Nil
        <5> SUFFICES ASSUME k - 1 = 0 PROVE qfree' = Nil
          OBVIOUS
        <5>1. k = 1
          BY <3>2
        <5> QED BY <3>2, <4>5, <5>1 DEF StackShape
      <4>7. k - 1 # 0 => qfree' = fs[k - 1] /\ qnext[fs[1]] = Nil
        <5> SUFFICES ASSUME k - 1 # 0 PROVE qfree' = fs[k - 1] /\ qnext[fs[1]] = Nil
          OBVIOUS
        <5>1. k \in 2 .. k
          BY <3>2, <3>5
        <5> QED BY <3>2, <3>5, <4>5, <5>1 DEF StackShape
      <4>8. \A i \in 2 .. k - 1 : qnext[fs[i]] = fs[i - 1]
        BY <3>2 DEF StackShape
      <4> QED BY <1>1, <4>3, <4>4, <4>6, <4>7, <4>8 DEF StackShape
    <3>9. \A m \in fresh' : kind2[m] = "fresh"
      BY <1>1, <3>1, <3>6 DEF Shape, QueueTypes
    <3>10. Shape(at, fs, k - 1, kind2, own2)'
      BY <3>2, <3>4, <3>5, <3>7, <3>8, <3>9 DEF Shape
    <3>11. Local(t, at, kind2, own2)'
      BY <1>1, <2>2, <3>0, <3>4 DEF Local, HasTail, OwnsNode, OwnsHead
    <3>12. ASSUME NEW u \in QThreads \ {t} PROVE Local(u, at, kind2, own2)'
      BY <1>1, <1>2, <2>1, <2>2, <3>1, <3>6, OthersKeep
    <3>13. Sized'
      BY <1>1, <2>2, SameLate DEF Sized, QueueInv, Late
    <3> QED BY <2>4, <3>10, <3>11, <3>12, <3>13 DEF QueueInv
  <2> QED BY <2>4, <2>5 DEF QueueInv
<1>3. CASE qfree # reg[t].node /\ Goto(t, "alloc") /\ UNCHANGED <<qfree, changed, reused>>
  BY <1>1, <1>3, TurnKeeps DEF Late
<1> QED BY <1>2, <1>3 DEF AllocTake

LEMMA FillKeeps == ASSUME QueueInv, ~ reused, NEW t \in QThreads, Fill(t) PROVE QueueInv'
<1> DEFINE n == reg[t].node
           w == reg[t].item
<1>1. /\ QueueTypes /\ qpc[t] = "fill" /\ "enq" \in QPcs /\ n \in QNodes /\ w \in Items /\ PNext(n) \in Pointers
      /\ qnext \in [QNodes -> Addr] /\ qwork \in [QNodes -> Items] /\ Nil \in Addr
  BY PointerFacts DEF QueueInv, QueueTypes, Follows, Fill, QPcs, HasNode, Regs, Addr
<1>2. /\ qnext' = [qnext EXCEPT ![n] = Nil] /\ qwork' = [qwork EXCEPT ![n] = w]
      /\ Changes(t, {PNext(n)}) /\ Goto(t, "enq")
      /\ UNCHANGED <<qhead, qtail, qfree, fresh, qsize, reg, qops, joined, taken, reused>>
  BY DEF Fill
<1>3. reg[t].node = n /\ reg[t].item = w
  OBVIOUS
<1> HIDE DEF n, w
<1>4. /\ qnext' \in [QNodes -> Addr] /\ qwork' \in [QNodes -> Items] /\ qnext'[n] = Nil /\ qwork'[n] = w
      /\ \A m \in QNodes \ {n} : qnext'[m] = qnext[m] /\ qwork'[m] = qwork[m]
  BY <1>1, <1>2
<1>5. /\ changed' \in [QThreads -> SUBSET Pointers]
      /\ \A u \in QThreads \ {t} : changed[u] \subseteq changed'[u] /\ PNext(n) \in changed'[u]
  BY <1>1, <1>2, HistoryFacts
<1>6. qpc' \in [QThreads -> QPcs] /\ qpc'[t] = "enq" /\ \A u \in QThreads \ {t} : qpc'[u] = qpc[u]
  BY <1>1, <1>2, GotoFacts
<1>7. Follows(t)'
  BY <1>1, <1>2, <1>3, <1>6 DEF Follows, HasNode, HasTail, HasHead, HasNext
<1>8. QueueTypes'
  BY <1>1, <1>2, <1>4, <1>5, <1>6, <1>7, FollowersKeep DEF QueueTypes
<1>9. PICK at, fs, k, kind, own : Shape(at, fs, k, kind, own) /\ \A u \in QThreads : Local(u, at, kind, own)
  BY DEF QueueInv
<1>10. at \in [Nat -> QNodes] /\ fs \in [Nat -> QNodes] /\ k \in Nat /\ ListShape(at, kind) /\ StackShape(fs, k, kind)
  BY <1>9 DEF Shape
<1>11. kind[n] = "thread" /\ own[n] = t
  BY <1>1, <1>3, <1>9 DEF Local, OwnsNode
<1>12. \A m \in QNodes : kind[m] # "thread" \/ own[m] # t => qnext'[m] = qnext[m] /\ qwork'[m] = qwork[m]
  BY <1>4, <1>11
<1>13. ListShape(at, kind)'
  BY <1>1, <1>2, <1>10, <1>12, ListKeeps
<1>14. StackShape(fs, k, kind)'
  BY <1>1, <1>2, <1>10, <1>12, StackKeeps
<1>15. Shape(at, fs, k, kind, own)'
  BY <1>2, <1>9, <1>13, <1>14 DEF Shape
<1>16. Local(t, at, kind, own)'
  BY <1>2, <1>3, <1>4, <1>6, <1>11 DEF Local, HasTail, OwnsNode, OwnsHead
<1>17. ASSUME NEW u \in QThreads \ {t} PROVE Local(u, at, kind, own)'
  BY <1>4, <1>5, <1>1, <1>2, <1>6, <1>9, <1>12, OthersKeep
<1>18. Sized'
  BY <1>1, <1>2, <1>6, SameLate DEF Sized, QueueInv, Late
<1> QED BY <1>8, <1>15, <1>16, <1>17, <1>18 DEF QueueInv

LEMMA EnqLinkKeeps == ASSUME QueueInv, ~ reused, NEW t \in QThreads, EnqLink(t) PROVE QueueInv'
<1>1. /\ QueueTypes /\ qpc[t] = "enq_link" /\ {"enq_swing", "enq"} \subseteq QPcs /\ PNext(reg[t].tail) \in Pointers
      /\ reg[t].node \in QNodes /\ reg[t].tail \in QNodes /\ reg[t].item \in Items /\ qnext \in [QNodes -> Addr]
      /\ UNCHANGED <<qhead, qtail, qfree, qwork, fresh, qsize, reg, qops, taken>>
  BY PointerFacts DEF QueueInv, QueueTypes, Follows, EnqLink, QPcs, HasNode, HasTail, Regs
<1>2. CASE /\ qnext[reg[t].tail] = reg[t].next /\ qnext' = [qnext EXCEPT ![reg[t].tail] = reg[t].node]
           /\ joined' = Append(joined, reg[t].item) /\ Exchanges(t, PNext(reg[t].tail)) /\ Goto(t, "enq_swing")
  <2>1. PICK n \in QNodes : n = reg[t].node
    BY <1>1
  <2>2. PICK e \in QNodes : e = reg[t].tail
    BY <1>1
  <2>3. PICK w \in Items : w = reg[t].item
    BY <1>1
  <2>4. /\ changed' \in [QThreads -> SUBSET Pointers] /\ reused' \in BOOLEAN /\ changed'[t] = changed[t]
        /\ \A u \in QThreads \ {t} : changed[u] \subseteq changed'[u] /\ PNext(e) \in changed'[u]
        /\ ~ reused' => PNext(e) \notin changed[t]
    BY <1>1, <1>2, <2>2, HistoryFacts
  <2>5. qpc' \in [QThreads -> QPcs] /\ qpc'[t] = "enq_swing" /\ \A u \in QThreads \ {t} : qpc'[u] = qpc[u]
    BY <1>1, <1>2, GotoFacts
  <2>6. /\ qnext' \in [QNodes -> Addr] /\ qnext'[e] = n /\ \A m \in QNodes \ {e} : qnext'[m] = qnext[m]
    BY <1>1, <1>2, <2>1, <2>2 DEF Addr
  <2>7. /\ joined' \in Seq(Items) /\ Len(joined) \in Nat /\ Len(taken) \in Nat /\ Len(joined') = Len(joined) + 1
        /\ joined'[Len(joined) + 1] = w /\ \A i \in 1 .. Len(joined) : joined'[i] = joined[i]
    BY <1>1, <1>2, <2>3, AppendProperties, LenProperties DEF QueueTypes
  <2>8. Follows(t)'
    BY <1>1, <2>5 DEF Follows, HasNode, HasTail, HasHead, HasNext
  <2>9. QueueTypes'
    BY <1>1, <2>4, <2>5, <2>6, <2>7, <2>8, FollowersKeep DEF QueueTypes
  <2>10. CASE ~ reused'
    <3>1. PICK at, fs, k, kind, own : Shape(at, fs, k, kind, own) /\ \A u \in QThreads : Local(u, at, kind, own)
      BY DEF QueueInv
    <3>2. PICK a, b \in Nat : a = Len(taken) /\ b = Len(joined)
      BY <2>7
    <3>3. /\ at \in [Nat -> QNodes] /\ fs \in [Nat -> QNodes] /\ k \in Nat /\ ListShape(at, kind) /\ StackShape(fs, k, kind)
          /\ kind \in [QNodes -> {"queue", "free", "fresh", "thread"}] /\ own \in [QNodes -> QThreads \cup {Nil}]
          /\ \A m \in fresh : kind[m] = "fresh"
      BY <3>1 DEF Shape
    <3>4. e = at[b] /\ reg[t].next = Nil /\ qnext[e] = Nil
      BY <1>1, <1>2, <2>2, <2>4, <2>10, <3>1, <3>2 DEF Local
    <3>5. kind[n] = "thread" /\ own[n] = t /\ qnext[n] = Nil /\ qwork[n] = w
      BY <1>1, <2>1, <2>3, <3>1 DEF Local, OwnsNode
    <3>6. /\ a <= b /\ qhead = at[a] /\ (\E i \in a .. b : qtail = at[i]) /\ qnext[at[b]] = Nil
          /\ (\A i, j \in a .. b : at[i] = at[j] => i = j)
          /\ \A i \in 1 .. a : taken[i] = joined[i]
      BY <3>2, <3>3 DEF ListShape
    <3>7. \A i \in a .. b : at[i] \in QNodes /\ kind[at[i]] = "queue" /\ at[i] # n
      BY <3>2, <3>3, <3>5 DEF ListShape
    <3>8. (\A i \in a .. b - 1 : qnext[at[i]] = at[i + 1]) /\ \A i \in a + 1 .. b : qwork[at[i]] = joined[i]
      BY <3>2, <3>3 DEF ListShape
    <3>9. PICK c \in Nat : c = b + 1
      OBVIOUS
    <3> DEFINE at2   == [at EXCEPT ![c] = n]
               kind2 == [kind EXCEPT ![n] = "queue"]
    <3>10. at2 \in [Nat -> QNodes] /\ at2[c] = n /\ \A i \in Nat \ {c} : at2[i] = at[i]
      BY <3>3
    <3>11. /\ kind2 \in [QNodes -> {"queue", "free", "fresh", "thread"}] /\ kind2[n] = "queue"
           /\ \A m \in QNodes \ {n} : kind2[m] = kind[m]
      BY <3>3
    <3> HIDE DEF at2, kind2
    <3>12. \A i \in a .. b : i \in Nat \ {c} /\ at2[i] = at[i]
      BY <3>9, <3>10
    <3>13. \A i \in a .. c : i = c \/ i \in a .. b
      BY <3>2, <3>6, <3>9
    <3>14. ListShape(at2, kind2)'
      <4>1. Len(taken') = a /\ Len(joined') = c /\ a <= c /\ a \in a .. b /\ b \in a .. b
        BY <1>1, <2>7, <3>2, <3>6, <3>9
      <4>2. \A i \in 1 .. a : taken'[i] = joined'[i]
        BY <3>6, <1>1, <2>7, <3>2
      <4>3. \A i, j \in a .. c : at2[i] = at2[j] => i = j
        <5> SUFFICES ASSUME NEW i \in a .. c, NEW j \in a .. c, at2[i] = at2[j] PROVE i = j
          OBVIOUS
        <5> QED BY <3>6, <3>7, <3>10, <3>12, <3>13
      <4>4. \A i \in a .. c : kind2[at2[i]] = "queue"
        BY <3>7, <3>11, <3>12, <3>10, <3>13
      <4>5. qhead' = at2[a] /\ \E i \in a .. c : qtail' = at2[i]
        <5>1. PICK i \in a .. b : qtail = at[i]
          BY <3>6
        <5>2. i \in a .. c
          BY <3>9
        <5> QED BY <1>1, <3>6, <3>12, <4>1, <5>1, <5>2
      <4>6. \A i \in a .. c - 1 : qnext'[at2[i]] = at2[i + 1]
        <5>1. ASSUME NEW i \in a .. c - 1 PROVE qnext'[at2[i]] = at2[i + 1]
          <6>1. i \in a .. b /\ (i = b \/ (i \in a .. b - 1 /\ i + 1 \in a .. b))
            BY <3>6, <3>9
          <6>2. CASE i = b
            BY <2>6, <3>4, <3>9, <3>10, <3>12, <6>1, <6>2
          <6>3. CASE i \in a .. b - 1 /\ i + 1 \in a .. b /\ i # b
            BY <3>6, <3>7, <4>1, <6>1, <6>3, <2>6, <3>4, <3>8, <3>12
          <6> QED BY <6>1, <6>2, <6>3
        <5> QED BY <5>1
      <4>7. qnext'[at2[c]] = Nil
        BY <2>6, <3>4, <3>5, <3>7, <3>10, <4>1
      <4>8. \A i \in a + 1 .. c : qwork'[at2[i]] = joined'[i]
        <5>1. ASSUME NEW i \in a + 1 .. c PROVE qwork'[at2[i]] = joined'[i]
          BY <3>9, <1>1, <2>7, <3>2, <3>5, <3>10, <3>8, <3>12
        <5> QED BY <5>1
      <4> QED BY <4>1, <4>2, <4>3, <4>4, <4>5, <4>6, <4>7, <4>8 DEF ListShape
    <3>15. StackShape(fs, k, kind2)'
      BY <3>4, <3>6, <3>7, <2>6, <3>5, <3>11, <1>1, <3>3, StackKeeps
    <3>16. \A m \in fresh' : kind2[m] = "fresh"
      BY <1>1, <3>3, <3>5, <3>11 DEF QueueTypes
    <3>17. Shape(at2, fs, k, kind2, own)'
      BY <3>3, <3>10, <3>11, <3>14, <3>15, <3>16 DEF Shape
    <3>18. Local(t, at2, kind2, own)'
      BY <1>1, <2>1, <2>2, <2>4, <2>5, <2>6, <3>1 DEF Local, HasTail, OwnsNode, OwnsHead
    <3>19. ASSUME NEW u \in QThreads \ {t} PROVE Local(u, at2, kind2, own)'
      BY <1>1, <2>4, <2>5, <3>2, <3>4, <2>6, <3>5, <3>6, <3>7, <3>11, <3>1, OthersKeep
    <3>20. Sized'
      <4>1. Joining' = Joining \cup {t} /\ t \notin Joining /\ Leaving' = Leaving
        BY <1>1, <2>5 DEF Joining, Leaving, AtOneOf
      <4>2. Cardinality(Joining') = Cardinality(Joining) + 1
        BY <4>1, LateSets, FS_AddElement
      <4>3. qsize' = qsize /\ taken' = taken /\ qsize \in Int /\ Cardinality(Joining) \in Nat /\ Cardinality(Leaving) \in Nat
        BY <1>1, LateSets DEF QueueTypes
      <4> QED BY <2>7, <4>1, <4>2, <4>3 DEF QueueInv, Sized
    <3> QED BY <2>9, <3>17, <3>18, <3>19, <3>20 DEF QueueInv
  <2> QED BY <2>9, <2>10 DEF QueueInv
<1>3. CASE Goto(t, "enq") /\ UNCHANGED <<qnext, joined, changed, reused>>
  BY <1>1, <1>3, TurnKeeps DEF Late, OwnsNode
<1> QED BY <1>2, <1>3 DEF EnqLink

LEMMA MoveTailKeeps ==
    ASSUME QueueInv, ~ reused, NEW t \in QThreads, NEW to \in QNodes, NEW l \in {"enq", "deq", "enq_count"},
           MoveTail(t, reg[t].tail, to, l), reg[t].tail \in QNodes, Late(l) = Late(qpc[t]),
           l = "enq" => qpc[t] \in OwnsNode \ {"fill"},
           \A at, kind, own : Local(t, at, kind, own) /\ PTail \notin changed[t] => 
              qtail = reg[t].tail /\ qnext[reg[t].tail] = to
    PROVE  QueueInv'
<1>1. /\ QueueTypes /\ l \in QPcs /\ PTail \in Pointers /\ Goto(t, l)
      /\ UNCHANGED <<qhead, qfree, qnext, qwork, fresh, qsize, reg, qops, joined, taken>>
  BY PointerFacts DEF QueueInv, MoveTail, QPcs, HasNode
<1>2. CASE qtail = reg[t].tail /\ qtail' = to /\ Exchanges(t, PTail)
  <2>1. /\ changed' \in [QThreads -> SUBSET Pointers] /\ reused' \in BOOLEAN
        /\ \A u \in QThreads \ {t} : changed[u] \subseteq changed'[u] /\ PTail \in changed'[u]
        /\ ~ reused' => PTail \notin changed[t]
    BY <1>1, <1>2, HistoryFacts
  <2>2. qpc' \in [QThreads -> QPcs] /\ qpc'[t] = l /\ \A u \in QThreads \ {t} : qpc'[u] = qpc[u]
    BY <1>1, GotoFacts
  <2>3. l = "enq" => reg[t].node \in QNodes
    BY <1>1 DEF QueueTypes, Follows, HasNode, OwnsNode
  <2>4. Follows(t)'
    BY <1>1, <2>2, <2>3 DEF Follows, HasNode, HasTail, HasHead, HasNext
  <2>5. QueueTypes'
    BY <1>1, <1>2, <2>1, <2>2, <2>4, FollowersKeep DEF QueueTypes
  <2>6. CASE ~ reused'
    <3>1. PICK at, fs, k, kind, own : Shape(at, fs, k, kind, own) /\ \A u \in QThreads : Local(u, at, kind, own)
      BY DEF QueueInv
    <3>2. qnext[qtail] = to /\ to # Nil
      BY <1>2, <2>1, <2>6, <3>1, NodeFacts
    <3>3. to # qhead
      BY <1>1, <3>1, <3>2, ShapeFacts
    <3>4. \E i \in Len(taken) .. Len(joined) : to = at[i]
      <4>1. PICK a, b \in Nat : a = Len(taken) /\ b = Len(joined)
        BY <1>1, LenProperties DEF QueueTypes
      <4>2. PICK i \in a .. b : qtail = at[i]
        BY <3>1, <4>1 DEF Shape, ListShape
      <4>3. i # b
        BY <3>1, <3>2, <4>1, <4>2 DEF Shape, ListShape
      <4>4. i \in a .. b - 1 /\ i + 1 \in a .. b
        BY <4>1, <4>3
      <4>5. qnext[at[i]] = at[i + 1]
        BY <3>1, <4>1, <4>4 DEF Shape, ListShape
      <4> QED BY <3>2, <4>1, <4>2, <4>4, <4>5
    <3>5. Shape(at, fs, k, kind, own)'
      BY <1>1, <1>2, <3>1, <3>4, SMTT(30) DEF Shape, ListShape, StackShape
    <3>6. Local(t, at, kind, own)'
      BY <1>1, <2>2, <3>1 DEF Local, HasTail, OwnsNode, OwnsHead
    <3>7. ASSUME NEW u \in QThreads \ {t} PROVE Local(u, at, kind, own)'
      BY <1>1, <1>2, <2>1, <2>2, <3>1, <3>3, OthersKeep
    <3>8. Sized'
      BY <1>1, <2>2, SameLate DEF Sized, QueueInv
    <3> QED BY <2>5, <3>5, <3>6, <3>7, <3>8 DEF QueueInv
  <2> QED BY <2>5, <2>6 DEF QueueInv
<1>3. CASE UNCHANGED <<qtail, changed, reused>>
  BY <1>1, <1>3, TurnKeeps
<1> QED BY <1>2, <1>3 DEF MoveTail

\* The tail is moved by the thread that joined a node, or by one that helps it.
LEMMA TailKeeps ==
    ASSUME QueueInv, ~ reused, NEW t \in QThreads, EnqHelp(t) \/ EnqSwing(t) \/ DeqHelp(t)
    PROVE  QueueInv'
<1>1. QueueTypes
  BY DEF QueueInv
<1>2. CASE EnqHelp(t)
  <2>1. PICK n : n = reg[t].next
    OBVIOUS
  <2>2. qpc[t] = "enq_help" /\ n \in QNodes /\ reg[t].tail \in QNodes /\ MoveTail(t, reg[t].tail, n, "enq") /\ n # Nil
    BY <1>1, <1>2, <2>1, NodeFacts DEF EnqHelp, QueueTypes, Follows, HasNext, HasTail
  <2>3. \A at, kind, own : Local(t, at, kind, own) /\ PTail \notin changed[t] => qtail = reg[t].tail /\ qnext[reg[t].tail] = n
    BY <2>1, <2>2 DEF Local, HasTail
  <2> QED BY <2>2, <2>3, MoveTailKeeps DEF Late, OwnsNode
<1>3. CASE EnqSwing(t)
  <2>1. PICK n : n = reg[t].node
    OBVIOUS
  <2>2. qpc[t] = "enq_swing" /\ n \in QNodes /\ reg[t].tail \in QNodes /\ MoveTail(t, reg[t].tail, n, "enq_count")
    BY <1>1, <1>3, <2>1, NodeFacts DEF EnqSwing, QueueTypes, Follows, HasNode, HasTail
  <2>3. \A at, kind, own : Local(t, at, kind, own) /\ PTail \notin changed[t] => qtail = reg[t].tail /\ qnext[reg[t].tail] = n
    BY <2>1, <2>2 DEF Local, HasTail
  <2> QED BY <2>2, <2>3, MoveTailKeeps DEF Late, OwnsNode
<1>4. CASE DeqHelp(t)
  <2>1. PICK n : n = reg[t].next
    OBVIOUS
  <2>2. qpc[t] = "deq_help" /\ n \in QNodes /\ reg[t].tail \in QNodes /\ MoveTail(t, reg[t].tail, n, "deq") /\ n # Nil
    BY <1>1, <1>4, <2>1, NodeFacts DEF DeqHelp, QueueTypes, Follows, HasNext, HasTail
  <2>3. \A at, kind, own : Local(t, at, kind, own) /\ PTail \notin changed[t] => qtail = reg[t].tail /\ qnext[reg[t].tail] = n
    BY <2>1, <2>2 DEF Local, HasTail
  <2> QED BY <2>2, <2>3, MoveTailKeeps DEF Late, OwnsNode
<1> QED BY <1>2, <1>3, <1>4

LEMMA DeqTakeKeeps == ASSUME QueueInv, ~ reused, NEW t \in QThreads, DeqTake(t) PROVE QueueInv'
<1>1. /\ QueueTypes /\ qpc[t] = "deq_take" /\ {"free", "deq"} \subseteq QPcs /\ PHead \in Pointers
      /\ reg[t].head \in QNodes /\ reg[t].next \in QNodes /\ reg[t].item \in Items
      /\ UNCHANGED <<qtail, qfree, qnext, qwork, fresh, qsize, reg, qops, joined>>
  BY PointerFacts DEF QueueInv, QueueTypes, Follows, DeqTake, QPcs, HasHead, HasNext, Regs
<1>2. CASE /\ qhead = reg[t].head /\ qhead' = reg[t].next /\ taken' = Append(taken, reg[t].item)
           /\ Exchanges(t, PHead) /\ Goto(t, "free")
  <2>1. PICK h \in QNodes : h = reg[t].head
    BY <1>1
  <2>2. PICK n \in QNodes : n = reg[t].next
    BY <1>1
  <2>3. PICK w \in Items : w = reg[t].item
    BY <1>1
  <2>4. /\ changed' \in [QThreads -> SUBSET Pointers] /\ reused' \in BOOLEAN
        /\ \A u \in QThreads \ {t} : changed[u] \subseteq changed'[u] /\ PHead \in changed'[u]
        /\ ~ reused' => PHead \notin changed[t]
    BY <1>1, <1>2, HistoryFacts
  <2>5. qpc' \in [QThreads -> QPcs] /\ qpc'[t] = "free" /\ \A u \in QThreads \ {t} : qpc'[u] = qpc[u]
    BY <1>1, <1>2, GotoFacts
  <2>6. /\ taken' \in Seq(Items) /\ Len(joined) \in Nat /\ Len(taken) \in Nat /\ Len(taken') = Len(taken) + 1
        /\ taken'[Len(taken) + 1] = w /\ \A i \in 1 .. Len(taken) : taken'[i] = taken[i]
    BY <1>1, <1>2, <2>3, AppendProperties, LenProperties DEF QueueTypes
  <2>7. Follows(t)'
    BY <1>1, <2>5 DEF Follows, HasNode, HasTail, HasHead, HasNext
  <2>8. QueueTypes'
    BY <1>1, <1>2, <2>4, <2>5, <2>6, <2>7, FollowersKeep DEF QueueTypes
  <2>9. CASE ~ reused'
    <3>1. PICK at, fs, k, kind, own : Shape(at, fs, k, kind, own) /\ \A u \in QThreads : Local(u, at, kind, own)
      BY DEF QueueInv
    <3>2. PICK a, b \in Nat : a = Len(taken) /\ b = Len(joined)
      BY <2>6
    <3>3. /\ at \in [Nat -> QNodes] /\ fs \in [Nat -> QNodes] /\ k \in Nat /\ ListShape(at, kind) /\ StackShape(fs, k, kind)
          /\ kind \in [QNodes -> {"queue", "free", "fresh", "thread"}] /\ own \in [QNodes -> QThreads \cup {Nil}]
          /\ \A m \in fresh : kind[m] = "fresh"
      BY <3>1 DEF Shape
    <3>4. qhead = h /\ qhead' = n /\ qnext[h] = n /\ n # Nil /\ w = qwork[n] /\ qtail # h
      BY <1>1, <1>2, <2>1, <2>2, <2>3, <2>4, <2>9, <3>1, NodeFacts DEF Local
    <3>5. /\ a <= b /\ qhead = at[a] /\ (\E i \in a .. b : qtail = at[i]) /\ qnext[at[b]] = Nil
          /\ (\A i, j \in a .. b : at[i] = at[j] => i = j)
          /\ \A i \in 1 .. a : taken[i] = joined[i]
      BY <3>2, <3>3 DEF ListShape
    <3>6. \A i \in a .. b : at[i] \in QNodes /\ kind[at[i]] = "queue"
      BY <3>2, <3>3 DEF ListShape
    <3>7. (\A i \in a .. b - 1 : qnext[at[i]] = at[i + 1]) /\ \A i \in a + 1 .. b : qwork[at[i]] = joined[i]
      BY <3>2, <3>3 DEF ListShape
    <3>8. a # b
      BY <3>4, <3>5
    <3>9. PICK c \in Nat : c = a + 1
      OBVIOUS
    <3>10. /\ c <= b /\ c \in a .. b /\ a \in a .. b /\ a \in a .. b - 1 /\ b \in a .. b /\ c \in a + 1 .. b
           /\ (\A i \in c .. b : i \in a .. b /\ i # a) /\ (\A i \in a .. b : i = a \/ i \in c .. b)
      BY <3>5, <3>8, <3>9
    <3>11. n = at[c] /\ w = joined[c]
      BY <3>4, <3>5, <3>7, <3>9, <3>10
    <3>12. kind[h] = "queue"
      BY <3>4, <3>5, <3>6, <3>10
    <3> DEFINE kind2 == [kind EXCEPT ![h] = "thread"]
               own2  == [own EXCEPT ![h] = t]
    <3>13. /\ kind2 \in [QNodes -> {"queue", "free", "fresh", "thread"}] /\ own2 \in [QNodes -> QThreads \cup {Nil}]
           /\ kind2[h] = "thread" /\ own2[h] = t
           /\ \A m \in QNodes \ {h} : kind2[m] = kind[m] /\ own2[m] = own[m]
      BY <3>3
    <3> HIDE DEF kind2, own2
    <3>14. \A m \in QNodes : kind[m] # "queue" => kind2[m] = kind[m] /\ own2[m] = own[m]
      BY <3>12, <3>13
    <3>15. ListShape(at, kind2)'
      <4>1. Len(taken') = c /\ Len(joined') = b /\ qtail' = qtail /\ qnext' = qnext /\ qwork' = qwork /\ joined' = joined
        BY <1>1, <2>6, <3>2, <3>9
      <4>2. \A i \in 1 .. c : taken'[i] = joined'[i]
        BY <3>9, <1>1, <2>6, <3>2, <3>5, <3>11
      <4>3. \A i, j \in c .. b : at[i] = at[j] => i = j
        BY <3>5, <3>10
      <4>4. \A i \in c .. b : kind2[at[i]] = "queue"
        BY <3>4, <3>5, <3>6, <3>10, <3>13
      <4>5. \E i \in c .. b : qtail' = at[i]
        BY <3>4, <3>5, <3>10, <4>1
      <4>6. \A i \in c .. b - 1 : qnext[at[i]] = at[i + 1]
        BY <3>9, <3>7
      <4>7. \A i \in c + 1 .. b : qwork[at[i]] = joined[i]
        BY <3>9, <3>7
      <4> QED BY <3>4, <3>5, <3>10, <3>11, <4>1, <4>2, <4>3, <4>4, <4>5, <4>6, <4>7 DEF ListShape
    <3>16. StackShape(fs, k, kind2)'
      BY <1>1, <3>3, <3>14, StackKeeps
    <3>17. \A m \in fresh' : kind2[m] = "fresh"
      BY <1>1, <3>3, <3>14 DEF QueueTypes
    <3>18. Shape(at, fs, k, kind2, own2)'
      BY <3>3, <3>13, <3>15, <3>16, <3>17 DEF Shape
    <3>19. Local(t, at, kind2, own2)'
      BY <1>1, <2>1, <2>5, <3>13 DEF Local, HasTail, OwnsNode, OwnsHead
    <3>20. ASSUME NEW u \in QThreads \ {t} PROVE Local(u, at, kind2, own2)'
      BY <1>1, <2>4, <2>5, <3>1, <3>14, OthersKeep
    <3>21. Sized'
      <4>1. Leaving' = Leaving \cup {t} /\ t \notin Leaving /\ Joining' = Joining
        BY <1>1, <2>5 DEF Joining, Leaving, AtOneOf
      <4>2. Cardinality(Leaving') = Cardinality(Leaving) + 1
        BY <4>1, LateSets, FS_AddElement
      <4>3. qsize' = qsize /\ joined' = joined /\ qsize \in Int /\ Cardinality(Joining) \in Nat /\ Cardinality(Leaving) \in Nat
        BY <1>1, LateSets DEF QueueTypes
      <4> QED BY <2>6, <4>1, <4>2, <4>3 DEF QueueInv, Sized
    <3> QED BY <2>8, <3>18, <3>19, <3>20, <3>21 DEF QueueInv
  <2> QED BY <2>8, <2>9 DEF QueueInv
<1>3. CASE Goto(t, "deq") /\ UNCHANGED <<qhead, taken, changed, reused>>
  BY <1>1, <1>3, TurnKeeps DEF Late
<1> QED BY <1>2, <1>3 DEF DeqTake

LEMMA FreeLoadKeeps == ASSUME QueueInv, ~ reused, NEW t \in QThreads, FreeLoad(t) PROVE QueueInv'
<1>1. /\ QueueTypes /\ qpc[t] = "free" /\ "free_next" \in QPcs /\ reg[t].head \in QNodes /\ qfree \in Addr
      /\ qwork \in [QNodes -> Items] /\ PFree \in Pointers /\ NoItem \in Items
  BY PointerFacts, NodeFacts DEF QueueInv, QueueTypes, Follows, FreeLoad, QPcs, HasHead, NoItem
<1>2. /\ qwork' = [qwork EXCEPT ![reg[t].head] = NoItem] /\ reg' = [reg EXCEPT ![t].next = qfree]
      /\ Loads(t, PFree) /\ Goto(t, "free_next")
      /\ UNCHANGED <<qhead, qtail, qfree, qnext, fresh, qsize, qops, joined, taken, reused>>
  BY DEF FreeLoad
<1>3. PICK h \in QNodes : h = reg[t].head
  BY <1>1
<1>4. qwork' \in [QNodes -> Items] /\ \A m \in QNodes \ {h} : qwork'[m] = qwork[m]
  BY <1>1, <1>2, <1>3
<1>5. reg' \in [QThreads -> Regs] /\ reg'[t].head = h /\ \A u \in QThreads \ {t} : reg'[u] = reg[u]
  BY <1>1, <1>2, <1>3, RegNext
<1>6. changed' \in [QThreads -> SUBSET Pointers] /\ \A u \in QThreads \ {t} : changed'[u] = changed[u]
  BY <1>1, <1>2, HistoryFacts
<1>7. qpc' \in [QThreads -> QPcs] /\ qpc'[t] = "free_next" /\ \A u \in QThreads \ {t} : qpc'[u] = qpc[u]
  BY <1>1, <1>2, GotoFacts
<1>8. Follows(t)'
  BY <1>3, <1>5, <1>7 DEF Follows, HasNode, HasTail, HasHead, HasNext
<1>9. QueueTypes'
  BY <1>1, <1>2, <1>4, <1>5, <1>6, <1>7, <1>8, FollowersKeep DEF QueueTypes
<1>10. PICK at, fs, k, kind, own : Shape(at, fs, k, kind, own) /\ \A u \in QThreads : Local(u, at, kind, own)
  BY DEF QueueInv
<1>11. at \in [Nat -> QNodes] /\ fs \in [Nat -> QNodes] /\ k \in Nat /\ ListShape(at, kind) /\ StackShape(fs, k, kind)
  BY <1>10 DEF Shape
<1>12. kind[h] = "thread" /\ own[h] = t
  BY <1>1, <1>3, <1>10 DEF Local, OwnsHead
<1>13. \A m \in QNodes : kind[m] # "thread" \/ own[m] # t => qwork'[m] = qwork[m]
  BY <1>4, <1>12
<1>14. ListShape(at, kind)'
  BY <1>1, <1>2, <1>11, <1>13, ListKeeps
<1>15. StackShape(fs, k, kind)'
  BY <1>1, <1>2, <1>11, StackKeeps
<1>16. Shape(at, fs, k, kind, own)'
  BY <1>2, <1>10, <1>14, <1>15 DEF Shape
<1>17. Local(t, at, kind, own)'
  BY <1>5, <1>7, <1>12 DEF Local, HasTail, OwnsNode, OwnsHead
<1>18. ASSUME NEW u \in QThreads \ {t} PROVE Local(u, at, kind, own)'
  BY <1>1, <1>2, <1>5, <1>6, <1>7, <1>10, <1>13, OthersKeep
<1>19. Sized'
  BY <1>1, <1>2, <1>7, SameLate DEF Sized, QueueInv, Late
<1> QED BY <1>9, <1>16, <1>17, <1>18, <1>19 DEF QueueInv

LEMMA FreeNextKeeps == ASSUME QueueInv, ~ reused, NEW t \in QThreads, FreeNext(t) PROVE QueueInv'
<1>1. /\ QueueTypes /\ qpc[t] = "free_next" /\ "free_put" \in QPcs /\ reg[t].head \in QNodes /\ reg[t].next \in Addr
      /\ qnext \in [QNodes -> Addr] /\ PNext(reg[t].head) \in Pointers
  BY PointerFacts DEF QueueInv, QueueTypes, Follows, FreeNext, QPcs, HasHead, Regs
<1>2. /\ qnext' = [qnext EXCEPT ![reg[t].head] = reg[t].next]
      /\ Changes(t, {PNext(reg[t].head)}) /\ Goto(t, "free_put")
      /\ UNCHANGED <<qhead, qtail, qfree, qwork, fresh, qsize, reg, qops, joined, taken, reused>>
  BY DEF FreeNext
<1>3. PICK h \in QNodes : h = reg[t].head
  BY <1>1
<1>4. qnext' \in [QNodes -> Addr] /\ qnext'[h] = reg[t].next /\ \A m \in QNodes \ {h} : qnext'[m] = qnext[m]
  BY <1>1, <1>2, <1>3
<1>5. /\ changed' \in [QThreads -> SUBSET Pointers]
      /\ \A u \in QThreads \ {t} : changed[u] \subseteq changed'[u] /\ PNext(h) \in changed'[u]
  BY <1>1, <1>2, <1>3, HistoryFacts
<1>6. qpc' \in [QThreads -> QPcs] /\ qpc'[t] = "free_put" /\ \A u \in QThreads \ {t} : qpc'[u] = qpc[u]
  BY <1>1, <1>2, GotoFacts
<1>7. Follows(t)'
  BY <1>1, <1>2, <1>6 DEF Follows, HasNode, HasTail, HasHead, HasNext
<1>8. QueueTypes'
  BY <1>1, <1>2, <1>4, <1>5, <1>6, <1>7, FollowersKeep DEF QueueTypes
<1>9. PICK at, fs, k, kind, own : Shape(at, fs, k, kind, own) /\ \A u \in QThreads : Local(u, at, kind, own)
  BY DEF QueueInv
<1>10. at \in [Nat -> QNodes] /\ fs \in [Nat -> QNodes] /\ k \in Nat /\ ListShape(at, kind) /\ StackShape(fs, k, kind)
  BY <1>9 DEF Shape
<1>11. kind[h] = "thread" /\ own[h] = t
  BY <1>1, <1>3, <1>9 DEF Local, OwnsHead
<1>12. \A m \in QNodes : kind[m] # "thread" \/ own[m] # t => qnext'[m] = qnext[m]
  BY <1>4, <1>11
<1>13. ListShape(at, kind)'
  BY <1>1, <1>2, <1>10, <1>12, ListKeeps
<1>14. StackShape(fs, k, kind)'
  BY <1>1, <1>2, <1>10, <1>12, StackKeeps
<1>15. Shape(at, fs, k, kind, own)'
  BY <1>2, <1>9, <1>13, <1>14 DEF Shape
<1>16. Local(t, at, kind, own)'
  BY <1>2, <1>3, <1>4, <1>6, <1>11 DEF Local, HasTail, OwnsNode, OwnsHead
<1>17. ASSUME NEW u \in QThreads \ {t} PROVE Local(u, at, kind, own)'
  BY <1>4, <1>5, <1>1, <1>2, <1>6, <1>9, <1>12, OthersKeep
<1>18. Sized'
  BY <1>1, <1>2, <1>6, SameLate DEF Sized, QueueInv, Late
<1> QED BY <1>8, <1>15, <1>16, <1>17, <1>18 DEF QueueInv

LEMMA FreePutKeeps == ASSUME QueueInv, ~ reused, NEW t \in QThreads, FreePut(t) PROVE QueueInv'
<1>1. /\ QueueTypes /\ qpc[t] = "free_put" /\ {"deq_count", "free_next"} \subseteq QPcs /\ reg[t].head \in QNodes
      /\ reg[t].head \in Addr /\ qfree \in Addr /\ PFree \in Pointers
      /\ UNCHANGED <<qhead, qtail, qnext, qwork, fresh, qsize, qops, joined, taken, reused>>
  BY PointerFacts DEF QueueInv, QueueTypes, Follows, FreePut, QPcs, HasHead, Addr
<1>2. PICK h \in QNodes : h = reg[t].head
  BY <1>1
<1>3. CASE qfree = reg[t].next /\ qfree' = reg[t].head /\ Changes(t, {PFree}) /\ Goto(t, "deq_count") /\ UNCHANGED reg
  <2>1. /\ changed' \in [QThreads -> SUBSET Pointers]
        /\ \A u \in QThreads \ {t} : changed[u] \subseteq changed'[u] /\ PFree \in changed'[u]
    BY <1>1, <1>3, HistoryFacts
  <2>2. qpc' \in [QThreads -> QPcs] /\ qpc'[t] = "deq_count" /\ \A u \in QThreads \ {t} : qpc'[u] = qpc[u]
    BY <1>1, <1>3, GotoFacts
  <2>3. Follows(t)'
    BY <2>2 DEF Follows, HasNode, HasTail, HasHead, HasNext
  <2>4. QueueTypes'
    BY <1>1, <1>3, <2>1, <2>2, <2>3, FollowersKeep DEF QueueTypes
  <2>5. PICK at, fs, k, kind, own : Shape(at, fs, k, kind, own) /\ \A u \in QThreads : Local(u, at, kind, own)
    BY DEF QueueInv
  <2>6. /\ at \in [Nat -> QNodes] /\ fs \in [Nat -> QNodes] /\ k \in Nat /\ ListShape(at, kind) /\ StackShape(fs, k, kind)
        /\ kind \in [QNodes -> {"queue", "free", "fresh", "thread"}] /\ own \in [QNodes -> QThreads \cup {Nil}]
        /\ \A m \in fresh : kind[m] = "fresh"
    BY <2>5 DEF Shape
  <2>7. kind[h] = "thread" /\ own[h] = t /\ qnext[h] = qfree
    BY <1>1, <1>2, <1>3, <2>5 DEF Local, OwnsHead
  <2>8. PICK c \in Nat : c = k + 1
    BY <2>6
  <2> DEFINE kind2 == [kind EXCEPT ![h] = "free"]
             fs2   == [fs EXCEPT ![c] = h]
  <2>9. /\ kind2 \in [QNodes -> {"queue", "free", "fresh", "thread"}] /\ kind2[h] = "free"
        /\ \A m \in QNodes \ {h} : kind2[m] = kind[m]
    BY <2>6
  <2>10. fs2 \in [Nat -> QNodes] /\ fs2[c] = h /\ \A i \in Nat \ {c} : fs2[i] = fs[i]
    BY <2>6
  <2> HIDE DEF kind2, fs2
  <2>11. \A i \in 1 .. k : i \in Nat \ {c} /\ fs2[i] = fs[i]
    BY <2>6, <2>8, <2>10
  <2>12. \A i \in 1 .. c : i = c \/ i \in 1 .. k
    BY <2>6, <2>8
  <2>13. \A i \in 1 .. k : fs[i] \in QNodes /\ kind[fs[i]] = "free" /\ fs[i] # h
    BY <2>6, <2>7 DEF StackShape
  <2>14. StackShape(fs2, c, kind2)'
    <3>1. \A i, j \in 1 .. c : fs2[i] = fs2[j] => i = j
      <4> SUFFICES ASSUME NEW i \in 1 .. c, NEW j \in 1 .. c, fs2[i] = fs2[j] PROVE i = j
        OBVIOUS
      <4>1. \A x, y \in 1 .. k : fs[x] = fs[y] => x = y
        BY <2>6 DEF StackShape
      <4> QED BY <2>10, <2>11, <2>12, <2>13, <4>1
    <3>2. \A i \in 1 .. c : kind2[fs2[i]] = "free"
      BY <2>9, <2>11, <2>13, <2>10, <2>12
    <3>3. c # 0 /\ qfree' = fs2[c] /\ qnext' = qnext
      BY <1>1, <1>2, <1>3, <2>6, <2>8, <2>10
    <3>4. qnext[fs2[1]] = Nil
      BY <2>6, <2>8, <2>7, <2>10, <2>11 DEF StackShape
    <3>5. \A i \in 2 .. c : qnext[fs2[i]] = fs2[i - 1]
      <4> SUFFICES ASSUME NEW i \in 2 .. c PROVE qnext[fs2[i]] = fs2[i - 1]
        OBVIOUS
      <4>1. CASE i = c
        BY <2>6, <2>8, <4>1, <2>7, <2>10, <2>11 DEF StackShape
      <4>2. CASE i # c
        BY <2>6, <2>8, <4>2, <2>11 DEF StackShape
      <4> QED BY <4>1, <4>2
    <3> QED BY <3>1, <3>2, <3>3, <3>4, <3>5 DEF StackShape
  <2>15. ListShape(at, kind2)'
    BY <2>7, <2>9, <1>1, <2>6, ListKeeps
  <2>16. \A m \in fresh' : kind2[m] = "fresh"
    BY <1>1, <2>6, <2>7, <2>9 DEF QueueTypes
  <2>17. Shape(at, fs2, c, kind2, own)'
    BY <2>6, <2>9, <2>10, <2>14, <2>15, <2>16 DEF Shape
  <2>18. Local(t, at, kind2, own)'
    BY <2>2 DEF Local, HasTail, OwnsNode, OwnsHead
  <2>19. ASSUME NEW u \in QThreads \ {t} PROVE Local(u, at, kind2, own)'
    BY <2>7, <2>9, <1>1, <1>3, <2>1, <2>2, <2>5, OthersKeep
  <2>20. Sized'
    BY <1>1, <2>2, SameLate DEF Sized, QueueInv, Late
  <2> QED BY <2>4, <2>17, <2>18, <2>19, <2>20 DEF QueueInv
<1>4. CASE reg' = [reg EXCEPT ![t].next = qfree] /\ Loads(t, PFree) /\ Goto(t, "free_next") /\ UNCHANGED qfree
  <2>1. reg' \in [QThreads -> Regs] /\ reg'[t].head = reg[t].head /\ \A u \in QThreads \ {t} : reg'[u] = reg[u]
    BY <1>1, <1>4, RegNext
  <2>2. qpc' \in [QThreads -> QPcs] /\ qpc'[t] = "free_next" /\ \A u \in QThreads \ {t} : qpc'[u] = qpc[u]
    BY <1>1, <1>4, GotoFacts
  <2>3. changed' \in [QThreads -> SUBSET Pointers] /\ \A u \in QThreads \ {t} : changed'[u] = changed[u]
    BY <1>1, <1>4, HistoryFacts
  <2>4. QuietStep(t)
    BY <1>1, <1>4, <2>1, <2>2, <2>3 DEF QuietStep, QueueTypes
  <2>5. Follows(t)'
    BY <1>1, <2>1, <2>2 DEF Follows, HasNode, HasTail, HasHead, HasNext
  <2> QED BY <1>1, <2>1, <2>2, <2>4, <2>5, QuietKeeps DEF Late, Local, HasTail, OwnsNode, OwnsHead
<1> QED BY <1>3, <1>4 DEF FreePut

-----------------------------------------------------------------------------
(* The invariant holds.                                                    *)

LEMMA QueueStarts == QueueInit => QueueInv
<1> SUFFICES ASSUME QueueInit PROVE QueueInv
  OBVIOUS
<1>1. /\ QPool \in Nat /\ QMemory \in Nat /\ MaxQueueOps \in Nat /\ QNodes = 1 .. QPool + QMemory + 1
      /\ Nil = 0 /\ NoItem = 0 /\ Addr = 0 .. QPool + QMemory + 1
  BY QueueAssumption DEF QNodes, Nil, NoItem, Addr
<1>2. /\ qhead = 1 /\ qtail = 1 /\ (QPool = 0 => qfree = 0) /\ (QPool # 0 => qfree = QPool + 1)
      /\ fresh = QPool + 2 .. QPool + QMemory + 1
      /\ qnext = [n \in QNodes |-> IF n \in 3 .. QPool + 1 THEN n - 1 ELSE 0] /\ qwork = [n \in QNodes |-> 0] /\ qsize = 0
      /\ qpc = [t \in QThreads |-> "idle"]
      /\ reg = [t \in QThreads |-> [node |-> 0, item |-> 0, head |-> 0, tail |-> 0, next |-> 0]]
      /\ changed = [t \in QThreads |-> {}] /\ qops = 0 /\ joined = <<>> /\ taken = <<>> /\ reused = FALSE
  BY <1>1 DEF QueueInit
<1>3. QueueTypes
  <2>1. qhead \in QNodes /\ qtail \in QNodes /\ qfree \in Addr /\ fresh \subseteq QNodes /\ qwork \in [QNodes -> Items]
    BY <1>1, <1>2 DEF Items
  <2>2. qnext \in [QNodes -> Addr]
    BY <1>1, <1>2
  <2>3. /\ qpc \in [QThreads -> QPcs] /\ reg \in [QThreads -> Regs] /\ changed \in [QThreads -> SUBSET Pointers]
        /\ qops \in Items /\ qsize \in Int /\ joined \in Seq(Items) /\ taken \in Seq(Items) /\ reused \in BOOLEAN
    <3>1. 0 \in Addr /\ 0 \in Items
      BY <1>1 DEF Items
    <3>2. reg \in [QThreads -> Regs]
      BY <1>2, <3>1 DEF Regs
    <3>3. joined \in Seq(Items) /\ taken \in Seq(Items)
      BY <1>2
    <3>4. qpc \in [QThreads -> QPcs] /\ changed \in [QThreads -> SUBSET Pointers] /\ reused \in BOOLEAN
      BY <1>2 DEF QPcs
    <3> QED BY <1>2, <3>1, <3>2, <3>3, <3>4
  <2>4. \A t \in QThreads : Follows(t)
    BY <1>2 DEF Follows, HasNode, HasTail, HasHead, HasNext
  <2> QED BY <2>1, <2>2, <2>3, <2>4 DEF QueueTypes
<1>4. Sized
  <2>1. Joining = {} /\ Leaving = {}
    BY <1>2 DEF Joining, Leaving, AtOneOf
  <2> QED BY <1>2, <2>1, FS_EmptySet DEF Sized
<1> DEFINE at   == [i \in Nat |-> 1]
           fs   == [i \in Nat |-> IF i \in 1 .. QPool THEN i + 1 ELSE 1]
           kind == [n \in QNodes |-> IF n = 1 THEN "queue" ELSE IF n \in 2 .. QPool + 1 THEN "free" ELSE "fresh"]
           own  == [n \in QNodes |-> Nil]
<1>5. /\ at \in [Nat -> QNodes] /\ at[0] = 1
      /\ kind \in [QNodes -> {"queue", "free", "fresh", "thread"}] /\ own \in [QNodes -> QThreads \cup {Nil}]
  BY <1>1
<1>6. fs \in [Nat -> QNodes] /\ \A i \in 1 .. QPool : fs[i] = i + 1
  BY <1>1
<1>7. kind[1] = "queue" /\ (\A n \in 2 .. QPool + 1 : kind[n] = "free") /\ \A n \in fresh : kind[n] = "fresh"
  BY <1>1, <1>2
<1>8. \A n \in QNodes : (n \in 3 .. QPool + 1 => qnext[n] = n - 1) /\ (n \notin 3 .. QPool + 1 => qnext[n] = 0)
  BY <1>2
<1> HIDE DEF at, fs, kind, own
<1>9. ListShape(at, kind)
  BY <1>2, <1>1, <1>8, <1>5, <1>7 DEF ListShape
<1>10. StackShape(fs, QPool, kind)
  <2>1. \A i \in 1 .. QPool : fs[i] = i + 1 /\ i + 1 \in 2 .. QPool + 1 /\ kind[fs[i]] = "free"
    <3>1. \A i \in 1 .. QPool : i + 1 \in 2 .. QPool + 1
      BY <1>1
    <3> QED BY <1>6, <1>7, <3>1
  <2>2. \A i, j \in 1 .. QPool : fs[i] = fs[j] => i = j
    BY <2>1
  <2>3. QPool # 0 => qfree = fs[QPool] /\ qnext[fs[1]] = Nil
    <3> SUFFICES ASSUME QPool # 0 PROVE qfree = fs[QPool] /\ qnext[fs[1]] = Nil
      OBVIOUS
    <3>1. fs[QPool] = QPool + 1 /\ fs[1] = 2 /\ 2 \in QNodes
      BY <1>1, <2>1
    <3> QED BY <1>1, <1>2, <1>8, <3>1
  <2>4. \A i \in 2 .. QPool : qnext[fs[i]] = fs[i - 1]
    <3> SUFFICES ASSUME NEW i \in 2 .. QPool PROVE qnext[fs[i]] = fs[i - 1]
      OBVIOUS
    <3>1. fs[i] = i + 1 /\ fs[i - 1] = i /\ i + 1 \in QNodes /\ i + 1 \in 3 .. QPool + 1
      BY <1>1, <2>1
    <3>2. qnext[i + 1] = i + 1 - 1
      BY <1>8, <3>1
    <3> QED BY <1>1, <3>1, <3>2
  <2> QED BY <1>1, <1>2, <2>1, <2>2, <2>3, <2>4 DEF StackShape
<1>11. Shape(at, fs, QPool, kind, own)
  BY <1>1, <1>5, <1>6, <1>7, <1>9, <1>10 DEF Shape
<1>12. \A t \in QThreads : Local(t, at, kind, own)
  BY <1>2 DEF Local, HasTail, OwnsNode, OwnsHead
<1> QED BY <1>3, <1>4, <1>11, <1>12 DEF QueueInv

LEMMA QueueSteps == QueueInv /\ [QueueNext]_queueVars => QueueInv'
<1> SUFFICES ASSUME QueueInv, [QueueNext]_queueVars PROVE QueueInv'
  OBVIOUS
<1>1. CASE UNCHANGED queueVars
  <2>1. QueueTypes'
    BY <1>1 DEF queueVars, QueueInv, QueueTypes, Follows
  <2>2. CASE reused
    BY <1>1, <2>1, <2>2 DEF queueVars, QueueInv
  <2>3. CASE ~ reused
    <3>1. PICK at, fs, k, kind, own : Shape(at, fs, k, kind, own) /\ \A u \in QThreads : Local(u, at, kind, own)
      BY <2>3 DEF QueueInv
    <3>2. Shape(at, fs, k, kind, own)'
      BY <1>1, <3>1 DEF Shape, ListShape, StackShape, queueVars
    <3>3. \A u \in QThreads : Local(u, at, kind, own)'
      BY <1>1, <3>1 DEF Local, queueVars
    <3>4. Sized'
      BY <1>1, <2>3 DEF QueueInv, Sized, Joining, Leaving, AtOneOf, queueVars
    <3> QED BY <2>1, <3>2, <3>3, <3>4 DEF QueueInv
  <2> QED BY <2>2, <2>3
<1>2. CASE QueueNext
  <2>1. ~ reused
    BY <1>2 DEF QueueNext
  <2>2. PICK t \in QThreads :
          \/ Enqueue(t) \/ AllocLoad(t) \/ AllocNext(t) \/ AllocTake(t) \/ Fill(t)
          \/ EnqLoadTail(t) \/ EnqLoadNext(t) \/ EnqCheck(t) \/ EnqLink(t) \/ EnqHelp(t) \/ EnqSwing(t)
          \/ Count(t, "enq_count", 1) \/ Count(t, "deq_count", -1)
          \/ Dequeue(t) \/ DeqLoad(t) \/ DeqCheck(t) \/ DeqHelp(t) \/ DeqItem(t) \/ DeqTake(t)
          \/ FreeLoad(t) \/ FreeNext(t) \/ FreePut(t)
    BY <1>2 DEF QueueNext
  <2> QED BY <2>1, <2>2, EnqueueKeeps, AllocLoadKeeps, AllocNextKeeps, AllocTakeKeeps, FillKeeps, EnqLoadTailKeeps,
             EnqLoadNextKeeps, EnqCheckKeeps, EnqLinkKeeps, TailKeeps, CountKeeps, DequeueKeeps, DeqLoadKeeps,
             DeqCheckKeeps, DeqItemKeeps, DeqTakeKeeps, FreeLoadKeeps, FreeNextKeeps, FreePutKeeps
<1> QED BY <1>1, <1>2

-----------------------------------------------------------------------------
(* What the invariant says.                                                *)

\* A chain is inside every closed set that holds its first node.
LEMMA ChainInside ==
    ASSUME NEW n, NEW S \in SUBSET QNodes, n # Nil => n \in S, \A x \in S : qnext[x] # Nil => qnext[x] \in S
    PROVE  Chain(n) \subseteq S
BY DEF Chain

\* The list is in one piece: the tail is reached from the head.
LEMMA TailIsReached ==
    ASSUME QueueTypes, NEW at \in [Nat -> QNodes], NEW kind, ListShape(at, kind)
    PROVE  qtail \in Chain(qhead)
<1> SUFFICES ASSUME NEW S \in SUBSET QNodes, qhead # Nil => qhead \in S, \A x \in S : qnext[x] # Nil => qnext[x] \in S
             PROVE  qtail \in S
  BY DEF Chain, QueueTypes
<1>1. PICK a, b \in Nat : a = Len(taken) /\ b = Len(joined)
  BY LenProperties DEF QueueTypes
<1>2. /\ a <= b /\ qhead = at[a] /\ (\E i \in a .. b : qtail = at[i])
      /\ \A i \in a .. b - 1 : qnext[at[i]] = at[i + 1]
  BY <1>1 DEF ListShape
<1>3. \A i \in Nat : at[i] \in QNodes /\ at[i] # Nil
  BY NodeFacts
<1> DEFINE Out == {i \in a .. b : at[i] \notin S}
<1>4. Out = {}
  <2> SUFFICES ASSUME Out # {} PROVE FALSE
    OBVIOUS
  <2> DEFINE Below == {p \in Nat \X Nat : p[1] < p[2]}
  <2>1. IsWellFoundedOn(Below, Nat)
    BY NatLessThanWellFounded DEF OpToRel
  <2>2. Out \subseteq Nat
    BY <1>1
  <2> HIDE DEF Below, Out
  <2>3. PICK m \in Out : \A j \in Out : ~ (<<j, m>> \in Below)
    BY <2>1, <2>2, WFMin
  <2>4. m \in a .. b /\ at[m] \notin S /\ \A j \in a .. b : j < m => at[j] \in S
    BY <2>2, <2>3 DEF Out, Below
  <2>5. m # a
    BY <1>2, <1>3, <2>4
  <2>6. m - 1 \in a .. b - 1 /\ m - 1 \in a .. b /\ m - 1 < m /\ m - 1 + 1 = m /\ m \in Nat
    BY <1>1, <2>4, <2>5
  <2>7. at[m - 1] \in S /\ qnext[at[m - 1]] = at[m]
    BY <1>2, <2>4, <2>6
  <2> QED BY <1>3, <2>4, <2>6, <2>7
<1> QED BY <1>2, <1>4

LEMMA PartitionHolds == QueueInv => NodesPartitioned
<1> SUFFICES ASSUME QueueInv, ~ reused
             PROVE  Chain(qhead) \cap Chain(qfree) = {} /\ Chain(qhead) \cap fresh = {} /\ qtail \in Chain(qhead)
  BY DEF NodesPartitioned
<1>1. PICK at, fs, k, kind, own : Shape(at, fs, k, kind, own)
  BY DEF QueueInv
<1>2. /\ QueueTypes /\ at \in [Nat -> QNodes] /\ fs \in [Nat -> QNodes] /\ k \in Nat
      /\ ListShape(at, kind) /\ StackShape(fs, k, kind) /\ \A n \in fresh : kind[n] = "fresh"
  BY <1>1 DEF Shape, QueueInv
<1>3. PICK a, b \in Nat : a = Len(taken) /\ b = Len(joined)
  BY <1>2, LenProperties DEF QueueTypes
<1>4. /\ a <= b /\ qhead = at[a] /\ qnext[at[b]] = Nil
      /\ (\A i \in a .. b - 1 : qnext[at[i]] = at[i + 1]) /\ \A i \in a .. b : kind[at[i]] = "queue"
  BY <1>2, <1>3 DEF ListShape
<1> DEFINE Q == {at[i] : i \in a .. b}
           F == {fs[i] : i \in 1 .. k}
<1>5. Chain(qhead) \subseteq Q
  <2>1. Q \in SUBSET QNodes
    BY <1>2
  <2>2. qhead \in Q
    BY <1>4
  <2>3. ASSUME NEW x \in Q, qnext[x] # Nil PROVE qnext[x] \in Q
    <3>1. PICK i \in a .. b : x = at[i]
      OBVIOUS
    <3>2. i # b
      BY <1>4, <2>3, <3>1
    <3>3. i \in a .. b - 1 /\ i + 1 \in a .. b
      BY <3>2
    <3>4. qnext[x] = at[i + 1]
      BY <1>4, <3>1, <3>3
    <3> QED BY <3>3, <3>4
  <2> HIDE DEF Q
  <2> QED BY <2>1, <2>2, <2>3, ChainInside
<1>6. Chain(qfree) \subseteq F
  <2>1. F \in SUBSET QNodes
    BY <1>2
  <2>2. qfree # Nil => qfree \in F
    BY <1>2 DEF StackShape
  <2>3. ASSUME NEW x \in F, qnext[x] # Nil PROVE qnext[x] \in F
    <3>1. PICK i \in 1 .. k : x = fs[i]
      OBVIOUS
    <3>2. k # 0 /\ qnext[fs[1]] = Nil
      BY <1>2, <3>1 DEF StackShape
    <3>3. i # 1
      BY <2>3, <3>1, <3>2
    <3>4. i \in 2 .. k /\ i - 1 \in 1 .. k
      BY <1>2, <3>3
    <3>5. qnext[x] = fs[i - 1]
      BY <1>2, <3>1, <3>4 DEF StackShape
    <3> QED BY <3>4, <3>5
  <2> HIDE DEF F
  <2> QED BY <2>1, <2>2, <2>3, ChainInside
<1>7. (\A n \in Q : kind[n] = "queue") /\ \A n \in F : kind[n] = "free"
  BY <1>2, <1>4 DEF StackShape
<1>8. Q \cap F = {} /\ Q \cap fresh = {}
  <2> HIDE DEF Q, F
  <2> QED BY <1>2, <1>7
<1>9. qtail \in Chain(qhead)
  BY <1>2, TailIsReached
<1> QED BY <1>5, <1>6, <1>8, <1>9

LEMMA OrderHolds == QueueInv => FirstInFirstOut
<1> SUFFICES ASSUME QueueInv, ~ reused PROVE IsPrefix(taken, joined)
  BY DEF FirstInFirstOut
<1>1. PICK at, fs, k, kind, own : Shape(at, fs, k, kind, own)
  BY DEF QueueInv
<1>2. PICK a, b \in Nat : a = Len(taken) /\ b = Len(joined)
  BY LenProperties DEF QueueTypes, QueueInv
<1>3. /\ joined \in Seq(Items) /\ taken \in Seq(Items) /\ a <= b /\ \A i \in 1 .. a : taken[i] = joined[i]
  BY <1>1, <1>2 DEF Shape, ListShape, QueueInv, QueueTypes
<1>4. (\A i \in 1 .. a : taken[i] \in Items) /\ \A i \in 1 .. a : joined[i] \in Items
  BY <1>2, <1>3, ElementOfSeq
<1>5. \A i \in 1 .. a - 1 + 1 : i \in 1 .. a /\ 1 + i - 1 = i
  BY <1>2
<1>6. /\ SubSeq(taken, 1, a) \in Seq(Items) /\ Len(SubSeq(taken, 1, a)) = (IF 1 <= a THEN a - 1 + 1 ELSE 0)
      /\ \A i \in 1 .. a - 1 + 1 : SubSeq(taken, 1, a)[i] = taken[1 + i - 1]
  BY <1>4, SubSeqProperties
<1>7. /\ SubSeq(joined, 1, a) \in Seq(Items) /\ Len(SubSeq(joined, 1, a)) = (IF 1 <= a THEN a - 1 + 1 ELSE 0)
      /\ \A i \in 1 .. a - 1 + 1 : SubSeq(joined, 1, a)[i] = joined[1 + i - 1]
  BY <1>4, SubSeqProperties
<1>8. Len(SubSeq(taken, 1, a)) = a /\ Len(SubSeq(joined, 1, a)) = a
  BY <1>2, <1>6, <1>7
<1>9. \A i \in 1 .. a : i \in 1 .. a - 1 + 1 /\ 1 + i - 1 = i
  BY <1>2
<1>10. \A i \in 1 .. a : SubSeq(taken, 1, a)[i] = SubSeq(joined, 1, a)[i]
  BY <1>3, <1>6, <1>7, <1>9
<1>11. SubSeq(taken, 1, a) = SubSeq(joined, 1, a)
  BY <1>6, <1>7, <1>8, <1>10, SeqEqual
<1> QED BY <1>2, <1>3, <1>11 DEF IsPrefix

\* First in, first out, every node in one place, and a size that is late by the operations
\* in progress, for any number of threads that enqueue and dequeue at once, as long as no
\* exchange of lockfree_queue.c meets a node that was recycled.
THEOREM QueueIsSound == QueueSpec => []QueueSound
<1>1. QueueInit => QueueInv
  BY QueueStarts
<1>2. QueueInv /\ [QueueNext]_queueVars => QueueInv'
  BY QueueSteps
<1>3. QueueInv => QueueSound
  <2> SUFFICES ASSUME QueueInv PROVE QueueSound
    OBVIOUS
  <2>1. QueueTypeOK
    BY DEF QueueInv, QueueTypes, QueueTypeOK, Follows, AtOneOf, HasNode, HasNext, Addr, Items
  <2>2. SizeIsLate
    BY DEF QueueInv, SizeIsLate, Sized, Joining, Leaving
  <2> QED BY <2>1, <2>2, OrderHolds, PartitionHolds DEF QueueSound
<1> QED BY <1>1, <1>2, <1>3, PTL DEF QueueSpec
================================================================================

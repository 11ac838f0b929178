-------------------------------- MODULE Tokens --------------------------------
(***************************************************************************)
(* rbac/jwt.c and the passwords of rbac/rbac.c: how a token's text is      *)
(* made, taken apart and verified, byte by byte in base64 and piece by     *)
(* piece at the dots, while several threads do so.                         *)
(*                                                                         *)
(* The pieces of a token are taken with strtok, which keeps where it is in *)
(* one place for the whole process: a thread that asks for its next piece  *)
(* gets that of the copy that was split last, whoever's it is.             *)
(*                                                                         *)
(* A text is the sequence of what stands between its dots: an object, a    *)
(* signature, nothing or what is not an object in base64.  A JSON value is *)
(* <<"int", n>> or <<"str", s, n>>, the string s escaped n times: the      *)
(* parser keeps the escapes and the writer escapes them again.             *)
(***************************************************************************)
EXTENDS Integers, Sequences, FiniteSets

CONSTANTS
    KThreads,       \* threads that serve requests
    KUsers,         \* names users log in with
    NeedEscape,     \* those of them JSON has to escape
    ForeignTexts,   \* texts that come from elsewhere, with the operations that get them
    CodedBytes,     \* byte strings to encode
    CodedTexts,     \* texts to decode
    KPasswords,     \* passwords, sequences of small numbers
    HashBits,       \* width of the old hash
    AccessLife,     \* life of an access token
    RefreshLife,    \* life of a refresh token
    MaxTokenTime,   \* bound on the clock
    MaxPairs,       \* bound on the pairs made
    MaxPresented    \* bound on the texts looked at

VARIABLES
    kload,          \* what goes on in this behaviour: tokens, base64 or passwords
    ktime,          \* time(NULL)
    issued,         \* the tokens made: who, which type, until when, the text
    pairs,          \* how many pairs were made
    strtokAt,          \* strtok's own pointer: whose copy, what is left, whether the copy is freed
    job,            \* per thread: the text it looks at and how far it is
    presented,      \* how many texts were looked at
    coded,          \* bytes and what base64 made of them
    stored,         \* how a password is stored
    checked         \* the last password checked against it

tokenData == <<issued, pairs>>
splitVars == <<strtokAt, job, presented>>
pureVars == <<coded, stored, checked>>
tokenVars == <<kload, ktime, tokenData, splitVars, pureVars>>

Secret == "secret"
Nobody == "nobody"
Gap == <<"empty">>      \* two dots with nothing between
Junk == <<"junk">>      \* what does not decode to an object

-----------------------------------------------------------------------------
(* Base64.  A character is its value, 0..63; 62 and 63 are '+' and '/' in  *)
(* the plain alphabet, Minus and Underscore in the one for URLs.           *)
Pad == 64
Minus == 65
Underscore == 66
Other == 67             \* a character of neither alphabet
Byte(b, i) == IF i <= Len(b) THEN b[i] ELSE 0
Triple(b, k) == Byte(b, 3*k + 1) * 65536 + Byte(b, 3*k + 2) * 256 + Byte(b, 3*k + 3)
Sextet(n, k) == (n \div (64 ^ (3 - k))) % 64

\* Four characters for each three bytes; the last ones are overwritten with '='.
base64_encode(b) ==
    LET groups == (Len(b) + 2) \div 3
        padding == CASE Len(b) % 3 = 1 -> 2 [] Len(b) % 3 = 2 -> 1 [] OTHER -> 0
    IN  [i \in 1 .. 4 * groups |->
            IF i > 4 * groups - padding THEN Pad ELSE Sextet(Triple(b, (i - 1) \div 4), (i - 1) % 4)]

base64_url_encode(b) ==
    LET kept == SelectSeq(base64_encode(b), LAMBDA c : c # Pad)
    IN  [i \in 1 .. Len(kept) |-> CASE kept[i] = 62 -> Minus [] kept[i] = 63 -> Underscore [] OTHER -> kept[i]]

\* Where the decoder reads its k-th character: one '=' moves it on by two.
Reads(s) ==
    LET at[k \in 0 .. Len(s) + 4] ==
            IF k = 0 THEN 1
            ELSE at[k - 1] + (IF at[k - 1] > Len(s) \/ s[at[k - 1]] = Pad THEN 2 ELSE 1)
        value(k) == IF at[k] > Len(s) \/ s[at[k]] = Pad THEN 0 ELSE s[at[k]]
        groups == Cardinality({k \in 0 .. Len(s) \div 4 : at[4 * k] <= Len(s)})
    IN  [k \in 0 .. groups - 1 |->
            value(4*k) * 262144 + value(4*k + 1) * 4096 + value(4*k + 2) * 64 + value(4*k + 3)]

NotDecoded == <<-1>>

\* What the last group leaves unread stays whatever the buffer held.
Unset == 256
base64_decode(s) ==
    IF Len(s) % 4 # 0 \/ \E i \in DOMAIN s : s[i] > Pad THEN NotDecoded
    ELSE LET size == (Len(s) \div 4) * 3
                   - (IF Len(s) > 0 /\ s[Len(s)] = Pad THEN 1 ELSE 0)
                   - (IF Len(s) > 1 /\ s[Len(s) - 1] = Pad THEN 1 ELSE 0)
             groups == Reads(s)
         IN  [j \in 1 .. size |-> LET k == (j - 1) \div 3 IN
                IF k \notin DOMAIN groups THEN Unset
                ELSE (groups[k] \div (256 ^ (2 - ((j - 1) % 3)))) % 256]

\* The length that is missing to a multiple of four is filled up with '='.
base64_url_decode(s) ==
    LET plain == [i \in DOMAIN s |-> CASE s[i] = Minus -> 62 [] s[i] = Underscore -> 63 [] OTHER -> s[i]]
    IN  base64_decode(plain \o [i \in 1 .. (4 - (Len(s) % 4)) % 4 |-> Pad])

-----------------------------------------------------------------------------
(* Making a token.                                                         *)
Str(s) == <<"str", s, 0>>
Num(n) == <<"int", n>>

\* Written and parsed again.
Reparsed(v) == IF v[1] = "str" /\ v[2] \in NeedEscape THEN <<"str", v[2], v[3] + 1>> ELSE v
ReparsedAll(f) == [k \in DOMAIN f |-> Reparsed(f[k])]
Over(f, g) == [k \in DOMAIN f \cup DOMAIN g |-> IF k \in DOMAIN f THEN f[k] ELSE g[k]]
Only1(k, v) == [x \in {k} |-> v]

\* Only HS256; NULL is no signature at all.
jwt_sign(h, p, secret, alg) == IF alg # "HS256" THEN {} ELSE {<<"mac", <<h, p>>, secret>>}

jwt_create(now) == [alg |-> "HS256", typ |-> "JWT", strings |-> Only1("iss", Str("jdbx")),
                    exp |-> 0, nbf |-> 0, iat |-> now, claims |-> Only1("type", Str("access"))]

\* Times that are not positive are left out; a claim replaces what has its name,
\* and was copied through its text before.
jwt_encode(token, secret) ==
    LET h == <<"object", [alg |-> Str(token.alg), typ |-> Str(token.typ)]>>
        times == [k \in {n \in {"exp", "nbf", "iat"} : token[n] > 0} |-> Num(token[k])]
        p == <<"object", ReparsedAll(Over(ReparsedAll(token.claims), Over(times, token.strings)))>>
    IN  {<<h, p, s>> : s \in jwt_sign(h, p, secret, token.alg)}

jwt_create_refresh_token(user, expiry, now) ==
    [jwt_create(now) EXCEPT !.strings = Over(Only1("sub", Str(user)), @), !.claims = Only1("type", Str("refresh")),
                            !.exp = IF expiry = 0 THEN now + RefreshLife ELSE expiry]

access_token(user, now) ==
    [jwt_create(now) EXCEPT !.strings = Over(Only1("sub", Str(user)), @),
                            !.claims = Over(Only1("username", Str(user)), @), !.exp = now + AccessLife]

issue_token_pair(user) ==
    /\ kload = "tokens" /\ pairs < MaxPairs
    /\ pairs' = pairs + 1
    /\ LET both == {<<"access", access_token(user, ktime)>>, <<"refresh", jwt_create_refresh_token(user, 0, ktime)>>}
       IN  issued' = issued \cup {[user |-> user, type |-> b[1], until |-> b[2].exp, text |-> CHOOSE x \in jwt_encode(b[2], Secret) : TRUE] : b \in both}
    /\ UNCHANGED <<kload, ktime, splitVars, pureVars>>

-----------------------------------------------------------------------------
(* Taking a token apart.                                                   *)

\* A string of the object, or nothing; a time, whole, or nothing.
String(o, k) == IF k \in DOMAIN o /\ o[k][1] = "str" THEN {o[k]} ELSE {}
Time(o, k) == IF k \in DOMAIN o /\ o[k][1] = "int" THEN o[k][2] ELSE 0
Standard == {"iss", "sub", "aud", "exp", "nbf", "iat", "jti"}

\* What the pieces say; the empty set is NULL.
decode_fields(got) ==
    IF got[1][1] # "object" \/ got[2][1] # "object" THEN {}
    ELSE LET h == got[1][2]
             p == got[2][2]
         IN  {[alg |-> IF String(h, "alg") = {} THEN "HS256" ELSE h.alg[2],
               sub |-> String(p, "sub"), exp |-> Time(p, "exp"), nbf |-> Time(p, "nbf"),
               claims |-> ReparsedAll([k \in DOMAIN p \ Standard |-> p[k]])]}

\* Exactly two dots; strtok passes over empty pieces.
TwoDots(text) == Len(text) = 3
Pieces(text) == SelectSeq(text, LAMBDA x : x # Gap)

NoJob == [op |-> "idle", text |-> <<>>, stage |-> "none", got |-> <<>>, verified |-> FALSE,
          overlapped |-> FALSE, at |-> 0, algs |-> {}, sub |-> {}, type |-> {}]

\* Mutant: a token is good until one second after it expires.
in_time_late(k) == (k.exp > 0 => ktime <= k.exp + 1) /\ (k.nbf > 0 => ktime >= k.nbf)

\* jwt_verify's two looks at the clock.
in_time(k) == (k.exp > 0 => ktime <= k.exp) /\ (k.nbf > 0 => ktime >= k.nbf)

\* The middle of a split: between the first and the last of its three strtok.
Midway(u) == job[u].op # "idle" /\ Len(job[u].got) \in 1 .. 2

\* The job's state after a piece, and what the others notice.
Put(t, j) == job' = [u \in KThreads |->
    IF u = t THEN [j EXCEPT !.overlapped = @ \/ \E v \in KThreads \ {t} : Midway(v)]
    ELSE IF Midway(u) THEN [job[u] EXCEPT !.overlapped = TRUE] ELSE job[u]]

\* A copy that is done with is freed; strtok's pointer stays where it is.
Freeing(t, s, done) == strtokAt' = IF done /\ s.of = t THEN [s EXCEPT !.freed = TRUE] ELSE s

\* The caller of a function that answered no.
Failed(j) == [j EXCEPT !.stage = "done", !.got = <<>>, !.at = ktime]

\* All three pieces are there: what each stage does with them.
\* "verify": jwt_decode at the head of jwt_verify, and the clock.
\* "sign": the second split of jwt_verify, the signature over the pieces it got.
\* "decode": jwt_decode of the caller.
after_split(j) ==
    LET token == decode_fields(j.got) IN
    CASE j.stage = "verify" ->
            IF \E k \in token : in_time(k)
            THEN [j EXCEPT !.stage = "sign", !.got = <<>>, !.at = ktime, !.algs = {k.alg : k \in token}]
            ELSE Failed(j)
      [] j.stage = "sign" ->
            IF \E a \in j.algs : j.got[3] \in jwt_sign(j.got[1], j.got[2], Secret, a)
            THEN [j EXCEPT !.stage = "decode", !.got = <<>>, !.verified = TRUE]
            ELSE [Failed(j) EXCEPT !.at = j.at]
      [] j.stage = "decode" ->
            [j EXCEPT !.stage = "done", !.got = <<>>,
                      !.sub = UNION {k.sub : k \in token},
                      !.type = UNION {String(k.claims, "type") : k \in token}]

\* A text arrives: "request" is the authentication, jwt_verify and then jwt_decode
\* for the cache; "whoami" is a handler that only decodes.
present(t, op, text) ==
    /\ kload = "tokens" /\ job[t].op = "idle" /\ presented < MaxPresented
    /\ presented' = presented + 1
    /\ job' = [job EXCEPT ![t] = [NoJob EXCEPT !.op = op, !.text = text,
                  !.stage = IF ~ TwoDots(text) THEN "done" ELSE IF op = "whoami" THEN "decode" ELSE "verify",
                  !.at = ktime]]
    /\ UNCHANGED <<kload, ktime, tokenData, strtokAt, pureVars>>

Looking(t) == job[t].op # "idle" /\ job[t].stage # "done"

\* strtok(copy, "."): the pointer moves to this thread's copy.
split_first(t) ==
    /\ Looking(t) /\ job[t].got = <<>>
    /\ LET all == Pieces(job[t].text) IN
       IF all = <<>>
       THEN /\ Put(t, Failed(job[t]))
            /\ strtokAt' = [of |-> t, rest |-> <<>>, freed |-> TRUE]
       ELSE /\ Put(t, [job[t] EXCEPT !.got = <<Head(all)>>])
            /\ strtokAt' = [of |-> t, rest |-> Tail(all), freed |-> FALSE]
    /\ UNCHANGED <<kload, ktime, tokenData, presented, pureVars>>

\* What the pointer leads to: the rest of the copy it is in or, when that was freed,
\* its end or a part of a copy that took its place.
Ahead == IF strtokAt.freed THEN {<<>>} \cup {Tail(Pieces(job[u].text)) : u \in {v \in KThreads : Midway(v)}}
         ELSE {strtokAt.rest}

\* strtok(NULL, "."): the next piece of the copy the pointer is in.
split_next(t) ==
    /\ Looking(t) /\ Midway(t)
    /\ \E rest \in Ahead :
        IF rest = <<>>
        THEN /\ Put(t, [Failed(job[t]) EXCEPT !.at = IF job[t].stage = "verify" THEN ktime ELSE job[t].at])
             /\ Freeing(t, strtokAt, TRUE)
        ELSE LET j == [job[t] EXCEPT !.got = Append(@, Head(rest))] IN
             /\ Put(t, IF Len(j.got) = 3 THEN after_split(j) ELSE j)
             /\ Freeing(t, [strtokAt EXCEPT !.rest = Tail(rest)], Len(j.got) = 3)
    /\ UNCHANGED <<kload, ktime, tokenData, presented, pureVars>>

answer(t) ==
    /\ job[t].stage = "done"
    /\ job' = [job EXCEPT ![t] = NoJob]
    /\ UNCHANGED <<kload, ktime, tokenData, strtokAt, presented, pureVars>>

\* Header and payload of one token with the signature of another.
Crossed == {<<a.text[1], a.text[2], b.text[3]>> : a, b \in issued}
Texts(op) == {i.text : i \in issued} \cup Crossed \cup {f.text : f \in {g \in ForeignTexts : g.op = op}}

KTick ==
    /\ kload = "tokens" /\ ktime < MaxTokenTime
    /\ ktime' = ktime + 1
    /\ UNCHANGED <<kload, tokenData, splitVars, pureVars>>

\* Signatures are bytes: one is encoded, a text somebody sent is decoded.
encode(b) ==
    /\ kload = "base64"
    /\ coded' = [bytes |-> b, text |-> base64_url_encode(b), back |-> base64_url_decode(base64_url_encode(b))]
    /\ UNCHANGED <<kload, ktime, tokenData, splitVars, stored, checked>>

decode(s) ==
    /\ kload = "base64"
    /\ coded' = [bytes |-> NotDecoded, text |-> s, back |-> base64_url_decode(s)]
    /\ UNCHANGED <<kload, ktime, tokenData, splitVars, stored, checked>>

-----------------------------------------------------------------------------
(* Passwords.                                                              *)

\* DJB2, as wide as HashBits.
legacy_hash(p) ==
    LET h[n \in 0 .. Len(p)] == IF n = 0 THEN 5381 % (2 ^ HashBits) ELSE (h[n - 1] * 33 + p[n]) % (2 ^ HashBits)
    IN  h[Len(p)]

\* hash_password: salted; a registration leaves the password as it is.
hash_password(p) == [kind |-> "pbkdf2", of |-> p, value |-> 0]
registration(p) == [kind |-> "as given", of |-> p, value |-> 0]
old_hash(p) == [kind |-> "legacy", of |-> <<>>, value |-> legacy_hash(p)]

\* By the prefix: salted and computed again, or the old hash compared as text.
verify_password(p, s) ==
    CASE s.kind = "pbkdf2" -> p = s.of [] s.kind = "legacy" -> legacy_hash(p) = s.value [] OTHER -> FALSE

NoCheck == [asked |-> <<>>, answer |-> FALSE, against |-> hash_password(<<>>)]

store(s) ==
    /\ kload = "passwords"
    /\ stored' = s
    /\ UNCHANGED <<kload, ktime, tokenData, splitVars, coded, checked>>

check(p) ==
    /\ kload = "passwords"
    /\ checked' = [asked |-> p, answer |-> verify_password(p, stored), against |-> stored]
    /\ UNCHANGED <<kload, ktime, tokenData, splitVars, coded, stored>>

TokensInit ==
    /\ kload \in {"tokens", "base64", "passwords"} /\ ktime = 1 /\ issued = {} /\ pairs = 0
    /\ strtokAt = [of |-> Nobody, rest |-> <<>>, freed |-> FALSE]
    /\ job = [t \in KThreads |-> NoJob] /\ presented = 0
    /\ coded = [bytes |-> <<>>, text |-> <<>>, back |-> <<>>]
    /\ stored = hash_password(<<>>) /\ checked = NoCheck

TokensNext ==
    \/ \E u \in KUsers : issue_token_pair(u)
    \/ \E t \in KThreads, op \in {"request", "whoami"} : \E x \in Texts(op) : present(t, op, x)
    \/ \E t \in KThreads : split_first(t)
    \/ \E t \in KThreads : split_next(t)
    \/ \E t \in KThreads : answer(t)
    \/ KTick
    \/ \E b \in CodedBytes : encode(b)
    \/ \E s \in CodedTexts : decode(s)
    \/ \E p \in KPasswords : \E s \in {hash_password(p), registration(p), old_hash(p)} : store(s)
    \/ \E p \in KPasswords : check(p)

TokensSpec == TokensInit /\ [][TokensNext]_tokenVars

-----------------------------------------------------------------------------
(* Properties.                                                             *)
KTypeOK ==
    /\ ktime \in 0 .. MaxTokenTime /\ pairs \in 0 .. MaxPairs /\ presented \in 0 .. MaxPresented
    /\ strtokAt.of \in KThreads \cup {Nobody} /\ Len(strtokAt.rest) <= 2
    /\ \A t \in KThreads : job[t].stage \in {"none", "verify", "sign", "decode", "done"} /\ Len(job[t].got) <= 2

\* What a text says when its own three pieces are looked at.
Own(text) == IF TwoDots(text) /\ Len(Pieces(text)) = 3 THEN decode_fields(text) ELSE {}
Genuine(text) == \E k \in Own(text) : text[3] \in jwt_sign(text[1], text[2], Secret, k.alg)
Valid(text, now) == \E k \in Own(text) : (k.exp > 0 => now <= k.exp) /\ (k.nbf > 0 => now >= k.nbf)

\* jwt_encode, jwt_decode: what was made says who it is for, which type it is and until
\* when it lasts; a name with quotes comes back escaped, the claim more often than the subject.
MadeSaysWhat ==
    \A i \in issued : \E k \in Own(i.text) :
        /\ Genuine(i.text) /\ k.exp = i.until /\ k.nbf = 0
        /\ k.sub = {<<"str", i.user, IF i.user \in NeedEscape THEN 1 ELSE 0>>}
        /\ k.claims["type"] = Str(i.type)
        /\ i.type = "access" => k.claims["username"] = <<"str", i.user, IF i.user \in NeedEscape THEN 3 ELSE 0>>

Finished(t) == job[t].stage = "done"

\* jwt_verify (jwt.c:756): a text is let through exactly when it carries the server's own
\* signature of its own header and payload and the time is right, as long as nobody else
\* split a token meanwhile.
VerdictIsOwn ==
    \A t \in KThreads : Finished(t) /\ job[t].op = "request" /\ ~ job[t].overlapped =>
        (job[t].verified <=> Genuine(job[t].text) /\ Valid(job[t].text, job[t].at))

\* jwt_decode (jwt.c:548), rbac_api.c:212: who a request is from is what its own token
\* says, as long as nobody else split a token meanwhile.
IdentityIsOwn ==
    \A t \in KThreads : Finished(t) /\ ~ job[t].overlapped /\ (job[t].op = "request" => job[t].verified) =>
        job[t].sub = UNION {k.sub : k \in Own(job[t].text)}

\* base64_url_encode and base64_url_decode: what was encoded comes back.
CodedComesBack == coded.bytes # NotDecoded => coded.back = coded.bytes

\* base64_decode: a text that decodes is made of the alphabet, and bytes are left unset
\* only behind an '=' that is not at the end.
DecodesOnlyTexts ==
    coded.back # NotDecoded /\ coded.text # <<>> =>
        /\ \A i \in DOMAIN coded.text : coded.text[i] # Other
        /\ (\E i \in DOMAIN coded.back : coded.back[i] = Unset) => \E i \in 1 .. Len(coded.text) - 1 : coded.text[i] = Pad

\* verify_password (rbac.c:242), api_auth.c:476: the password that was hashed is accepted
\* and no other; what a registration stored as given is never accepted; the old hash
\* accepts the passwords that share it.
PasswordAccepted ==
    checked.answer <=>
        \/ checked.against.kind = "pbkdf2" /\ checked.asked = checked.against.of /\ checked # NoCheck
        \/ checked.against.kind = "legacy" /\ legacy_hash(checked.asked) = checked.against.value

\* All of the above.
TokensSound ==
    /\ KTypeOK /\ MadeSaysWhat /\ VerdictIsOwn /\ IdentityIsOwn
    /\ CodedComesBack /\ DecodesOnlyTexts /\ PasswordAccepted
=============================================================================

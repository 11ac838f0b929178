---------------------------- MODULE AccessControl ----------------------------
(***************************************************************************)
(* Users, roles and permissions: rbac/rbac_db.c, rbac/rbac.c and the two   *)
(* generations of handlers over them, api/api_rbac.c and api/rbac_api.c,   *)
(* with the registration handler of api/api_auth.c.                        *)
(*                                                                         *)
(* Users and roles are documents that refer to each other: a user lists    *)
(* its roles, a role lists its users.  A handler checks the permission of  *)
(* the requester, reads whole documents, changes the copies and writes     *)
(* them back, each write a step of its own; reads made in a row are one    *)
(* step.  The handlers of rbac_api.c learn who asks from the one static    *)
(* buffer of get_request_user_id, which all threads share, and judge by    *)
(* the copies in the document cache, which no write ever refreshes.        *)
(***************************************************************************)
EXTENDS Naturals, FiniteSets, Sequences, SequencesExt

CONSTANTS
    Accounts,       \* uuids a user document can have
    RoleIds,        \* uuids a role document can have
    AdminRole,      \* the role create_default_admin_role made
    Names,          \* user names
    RoleNames,      \* names a role can be given; the default one is "admin"
    AThreads,       \* threads that serve requests
    MaxAsked        \* bound on the requests made

ASSUME AccessAssumption ==
    /\ AdminRole \in RoleIds
    /\ MaxAsked \in Nat

\* <<resource type, permission>> of the "*" keys the handlers look at.
Permissions == {"user", "role", "perm"} \X {"read", "write", "delete", "admin"}

VARIABLES
    userDoc,        \* user documents in the store
    roleDoc,        \* role documents; listed: it has a users array, fraction: the masks are
                    \* not whole numbers
    userCopy,       \* user documents in the document cache of virtual_get
    roleCopy,       \* role documents there
    idBuffer,       \* user_id_buffer of get_request_user_id
    act,            \* per thread: its request and its local variables
    asked,          \* requests made so far
    crashed,        \* a handler followed a NULL pointer
    lost,           \* history: documents written back from a copy that was out of date
    met,            \* history: races that happened
    twinNames,      \* history: names two requests settled on at the same time
    everHeld,       \* history: roles each user was on record with, in the store or the cache
    everGranted,    \* history: permissions each role was on record with
    allowed         \* history: every request let through came from somebody who once held the permission

docs   == <<userDoc, roleDoc>>
copies == <<userCopy, roleCopy>>
accHistory == <<lost, met, twinNames, allowed>>
accVars == <<docs, copies, idBuffer, act, asked, crashed, accHistory, everHeld, everGranted>>

NoUser == [live |-> FALSE, name |-> "", roles |-> <<>>]
NoRole == [live |-> FALSE, name |-> "", perms |-> {}, fraction |-> FALSE, users |-> {}, listed |-> FALSE]

\* Local variables of a request.  edits: documents still to be read and changed;
\* writes: copies still to be written; each write names the document it was read from.
NoAct == [pc |-> "idle", op |-> "", by |-> "", u |-> "", r |-> "", name |-> "", perms |-> {},
          fraction |-> FALSE, give |-> {}, shared |-> FALSE, edits |-> <<>>, writes |-> <<>>]

Set(t, a) == act' = [act EXCEPT ![t] = a]
End(t)    == Set(t, NoAct)

Roles(d) == {d.roles[i] : i \in DOMAIN d.roles}
With(roles, r) == IF \E i \in DOMAIN roles : roles[i] = r THEN roles ELSE Append(roles, r)
Lacking(roles, r) == SelectSeq(roles, LAMBDA x : x # r)

NamedUsers(n) == {u \in Accounts : userDoc[u].live /\ userDoc[u].name = n}
NamedRoles(n) == {r \in RoleIds : roleDoc[r].live /\ roleDoc[r].name = n}

\* create_default_admin_role and create_default_admin_user: all permissions as whole
\* masks, no users array.  Another user exists; a second role, which PUT /api/rbac/roles
\* may have given masks like 15.5, may have that user as a member.  The cache has long
\* dropped the documents: ten thousand others came through it since.
AccInit ==
    /\ \E u1, u2 \in Accounts, r \in RoleIds, member \in BOOLEAN, fraction \in BOOLEAN :
          /\ u1 # u2 /\ r = CHOOSE x \in RoleIds : x # AdminRole
          /\ u1 = CHOOSE u \in Accounts : TRUE
          /\ u2 = CHOOSE u \in Accounts \ {u1} : TRUE
          /\ userDoc = [u \in Accounts |->
                 CASE u = u1 -> [live |-> TRUE, name |-> "n1", roles |-> <<AdminRole>>]
                   [] u = u2 -> [live |-> TRUE, name |-> "n2", roles |-> IF member THEN <<r>> ELSE <<>>]
                   [] OTHER -> NoUser]
          /\ roleDoc = [x \in RoleIds |->
                 CASE x = AdminRole -> [live |-> TRUE, name |-> "admin", perms |-> Permissions,
                                        fraction |-> FALSE, users |-> {}, listed |-> FALSE]
                   [] x = r -> [live |-> TRUE, name |-> "r", perms |-> IF fraction THEN Permissions ELSE {},
                                fraction |-> fraction, users |-> IF member THEN {u2} ELSE {}, listed |-> TRUE]
                   [] OTHER -> NoRole]
    /\ userCopy = [u \in Accounts |-> NoUser] /\ roleCopy = [r \in RoleIds |-> NoRole]
    /\ idBuffer = "" /\ act = [t \in AThreads |-> NoAct] /\ asked = 0 /\ crashed = FALSE
    /\ lost = {} /\ met = {} /\ twinNames = {} /\ allowed = TRUE
    /\ everHeld = [u \in Accounts |-> Roles(userDoc[u])]
    /\ everGranted = [r \in RoleIds |-> roleDoc[r].perms]

-----------------------------------------------------------------------------
(* Who asks, and whether they may.                                         *)

\* rbac_check_permission queries the store and takes only masks that json_parse did not
\* make integers of: the whole masks of the default role grant nothing here.
rbac_check_permission(u, p) ==
    /\ userDoc[u].live
    /\ \E r \in Roles(userDoc[u]) : roleDoc[r].live /\ roleDoc[r].fraction /\ p \in roleDoc[r].perms

\* virtual_get answers with the copy in the cache and looks in the store only without one.
UserSeen(u) == IF userCopy[u] # NoUser THEN userCopy[u] ELSE userDoc[u]
RoleSeen(r) == IF roleCopy[r] # NoRole THEN roleCopy[r] ELSE roleDoc[r]

\* What it found in the store it leaves in the cache.
virtual_gets(us, rs) ==
    /\ userCopy' = [u \in Accounts |-> IF u \in us /\ userDoc[u].live THEN UserSeen(u) ELSE userCopy[u]]
    /\ roleCopy' = [r \in RoleIds |-> IF r \in rs /\ roleDoc[r].live THEN RoleSeen(r) ELSE roleCopy[r]]

\* rbac_db_check_permission: the first role on the user's list that grants decides.
Granting(u, p) ==
    {i \in DOMAIN UserSeen(u).roles :
        LET d == RoleSeen(UserSeen(u).roles[i]) IN d.live /\ p \in d.perms}
rbac_db_check_permission(u, p) == UserSeen(u).live /\ Granting(u, p) # {}

\* The roles it looks at on the way.
LookedAt(u, p) ==
    IF ~ UserSeen(u).live THEN {}
    ELSE {UserSeen(u).roles[i] : i \in {j \in DOMAIN UserSeen(u).roles : \A g \in Granting(u, p) : j <= g}}

\* The permission each operation of api_rbac.c asks for ...
Needed(op) == CASE op \in {"createUser", "updateUser"} -> <<"user", "write">>
                [] op = "deleteUser" -> <<"user", "delete">>
                [] op \in {"createRole", "updateRole"} -> <<"role", "write">>
                [] op = "deleteRole" -> <<"role", "delete">>
                [] op \in {"listUsers", "getUser"} -> <<"user", "read">>
                [] OTHER -> <<"role", "read">>

\* ... and each of rbac_api.c.
NeededShared(op) == CASE op \in {"createUser", "deleteUser", "listUsers"} -> <<"user", "admin">>
                      [] op \in {"grant", "revoke"} -> <<"perm", "admin">>
                      [] op \in {"listRoles", "getRole"} -> <<"role", "read">>
                      [] op = "listPermissions" -> <<"perm", "read">>
                      [] OTHER -> <<"role", "admin">>

\* Changing the roles of a user needs an admin permission on roles or on users.
MayGiveRoles(u) == rbac_check_permission(u, <<"role", "admin">>) \/ rbac_check_permission(u, <<"user", "admin">>)

\* Users may read and change their own document; nobody may delete their own.
Permitted(u, a) ==
    /\ a.op = "deleteUser" => u # a.u
    /\ rbac_check_permission(u, Needed(a.op)) \/ (a.op \in {"updateUser", "getUser"} /\ u = a.u)
    /\ a.op = "updateUser" /\ a.give # {} => MayGiveRoles(u)

OnceHeld(u, p) == \E r \in everHeld[u] : p \in everGranted[r]

\* Requests that are over once the permission is checked: they only read, or nothing they
\* do has an effect, because db_update_document looks in default/documents and refuses.
Looks == {"listUsers", "getUser", "listRoles", "getRole", "listPermissions", "grant"}

\* The first step of each request once it is permitted.
Entry(op) == CASE op \in {"createUser", "register"} -> "userName"
               [] op = "createRole" -> "roleName"
               [] op = "deleteRole" -> "dropRole"
               [] OTHER -> "read"

Admitted(a) == IF a.op \in Looks THEN NoAct ELSE [a EXCEPT !.pc = Entry(a.op)]

\* get_request_user_id copies the subject of the token to the shared buffer.
get_request_user_id(by) == idBuffer' = by

ChangesMembers(a) == a.op \in {"add", "remove", "deleteUser"} \/ a.give # {}

\* Races that a request gets into when it arrives.
Races(by, a) ==
    (IF a.op = "deleteUser" /\ \E o \in AThreads : act[o].op = "deleteUser" THEN {"deletions"} ELSE {})
    \cup (IF ChangesMembers(a) /\ \E o \in AThreads : ChangesMembers(act[o]) THEN {"memberships"} ELSE {})
    \cup (IF ~ userDoc[by].live THEN {"deleted requester"} ELSE {})

\* A request of user by arrives, a holding its arguments.  The handlers of api_rbac.c
\* check at once; those of rbac_api.c come back to the buffer.
Ask(t, by, a) ==
    /\ asked' = asked + 1
    /\ IF a.shared THEN /\ get_request_user_id(by)
                        /\ Set(t, IF a.op = "updateUser" \/ a.op = "getUser" THEN NoAct
                                  ELSE [a EXCEPT !.pc = "check", !.by = by])
                        /\ UNCHANGED allowed
       ELSE /\ a.op = "register" \/ Permitted(by, a)
            /\ Set(t, Admitted([a EXCEPT !.by = by]))
            /\ allowed' = (allowed /\ (\/ a.op = "register" \/ OnceHeld(by, Needed(a.op))
                                       \/ a.op \in {"updateUser", "getUser"} /\ by = a.u))
            /\ UNCHANGED idBuffer
    /\ met' = met \cup Races(by, a)
    /\ UNCHANGED <<docs, copies, crashed, lost, twinNames>>

Mixed(t) == IF idBuffer # act[t].by THEN {"identities"} ELSE {}

\* Mutant: only the presence of an identity is checked.
check_shared_known(t) ==
    LET a == act[t] IN
    /\ a.pc = "check"
    /\ Set(t, Admitted(a))
    /\ allowed' = (allowed /\ (OnceHeld(a.by, NeededShared(a.op)) \/ OnceHeld(idBuffer, NeededShared(a.op))))
    /\ met' = met \cup Mixed(t)
    /\ UNCHANGED <<docs, copies, idBuffer, asked, crashed, lost, twinNames>>

\* rbac_db_check_permission is given the pointer to the buffer.
check_shared(t) ==
    LET a == act[t]
        p == NeededShared(a.op)
        yes == rbac_db_check_permission(idBuffer, p)
    IN  /\ a.pc = "check"
        /\ Set(t, IF ~ yes THEN NoAct ELSE IF a.op = "deleteUser" THEN [a EXCEPT !.pc = "compare"] ELSE Admitted(a))
        /\ virtual_gets({idBuffer}, LookedAt(idBuffer, p))
        /\ allowed' = (allowed /\ (~ yes \/ OnceHeld(a.by, p) \/ (idBuffer # a.by /\ OnceHeld(idBuffer, p))))
        /\ met' = met \cup Mixed(t)
        /\ UNCHANGED <<docs, idBuffer, asked, crashed, lost, twinNames>>

\* api_handle_rbac_delete_user compares the buffer with the user to delete afterwards.
compare(t) ==
    /\ act[t].pc = "compare"
    /\ IF idBuffer = act[t].u THEN End(t) ELSE Set(t, [act[t] EXCEPT !.pc = "read"])
    /\ met' = met \cup Mixed(t)
    /\ UNCHANGED <<docs, copies, idBuffer, asked, crashed, lost, twinNames, allowed>>

-----------------------------------------------------------------------------
(* Creating users and roles.                                               *)

\* Threads that have settled on a user name and not written it yet.
Settling(n, t) ==
    {o \in AThreads \ {t} : /\ act[o].name = n
                           /\ \/ act[o].pc = "insertUser"
                              \/ act[o].op = "updateUser" /\ act[o].pc \in {"edit", "editWrite", "write"}}

\* rbac_db_create_user and api_handle_register: the name must be free.
check_user_name(t) ==
    LET n == act[t].name
    IN  /\ act[t].pc = "userName"
        /\ IF NamedUsers(n) # {} THEN End(t) ELSE Set(t, [act[t] EXCEPT !.pc = "insertUser"])
        /\ twinNames' = IF Settling(n, t) # {} THEN twinNames \cup {n} ELSE twinNames
        /\ UNCHANGED <<docs, copies, idBuffer, asked, crashed, lost, met, allowed>>

\* The document is inserted under a new uuid, without roles; the roles of the request
\* are added one by one by rbac_add_user_to_role.  (Registration tries to add the role
\* whose uuid is "user": there is none.)
insert_user(t) ==
    /\ act[t].pc = "insertUser"
    /\ \E u \in Accounts :
          /\ userDoc[u].name = ""
          /\ userDoc' = [userDoc EXCEPT ![u] = [live |-> TRUE, name |-> act[t].name, roles |-> <<>>]]
          /\ IF act[t].give = {} THEN End(t)
             ELSE Set(t, [act[t] EXCEPT !.pc = "read", !.op = "add", !.u = u,
                                        !.r = CHOOSE r \in act[t].give : TRUE])
    /\ UNCHANGED <<roleDoc, copies, idBuffer, asked, crashed, accHistory>>

\* rbac_db_create_role: the name must be free ...
check_role_name(t) ==
    /\ act[t].pc = "roleName"
    /\ IF NamedRoles(act[t].name) # {} THEN End(t) ELSE Set(t, [act[t] EXCEPT !.pc = "insertRole"])
    /\ UNCHANGED <<docs, copies, idBuffer, asked, crashed, accHistory>>

\* ... and the new role grants nothing and lists nobody, whatever the request says: the
\* handler of api_rbac.c goes on to grant, which is refused, that of rbac_api.c only
\* shows the permissions it was sent.
insert_role(t) ==
    /\ act[t].pc = "insertRole"
    /\ \E r \in RoleIds :
          /\ roleDoc[r].name = ""
          /\ roleDoc' = [roleDoc EXCEPT ![r] = [NoRole EXCEPT !.live = TRUE, !.name = act[t].name, !.listed = TRUE]]
    /\ End(t)
    /\ UNCHANGED <<userDoc, copies, idBuffer, asked, crashed, accHistory>>

\* A document goes that another request has read, to change it and show it again.
Pulled(field, id) ==
    IF \E o \in AThreads : /\ act[o].op \in {"updateUser", "updateRole"} /\ ~ act[o].shared
                           /\ act[o].pc \in {"edit", "editWrite"} /\ act[o][field] = id
    THEN {"pulled"} ELSE {}

\* rbac_db_delete_role; api_rbac.c refuses the role named admin.
delete_role(t) ==
    LET a == act[t] IN
    /\ a.pc = "dropRole"
    /\ IF roleDoc[a.r].live /\ (a.shared \/ roleDoc[a.r].name # "admin")
       THEN roleDoc' = [roleDoc EXCEPT ![a.r].live = FALSE] /\ met' = met \cup Pulled("r", a.r)
       ELSE UNCHANGED <<roleDoc, met>>
    /\ End(t)
    /\ UNCHANGED <<userDoc, copies, idBuffer, asked, crashed, lost, twinNames, allowed>>

-----------------------------------------------------------------------------
(* Reading, changing and writing back.                                     *)

\* hit: the copy shares its lists with the one in the cache.
UserWrite(u, d) == [kind |-> "user", id |-> u, base |-> userDoc[u], doc |-> d, hit |-> FALSE]
RoleWrite(r, d) == [kind |-> "role", id |-> r, base |-> roleDoc[r], doc |-> d, hit |-> FALSE]

\* api_handle_role_update: permissions replaced, users emptied.  rbac_db_update_role only
\* knows name and permissions.
role_update_writes(a) ==
    IF ~ roleDoc[a.r].live THEN <<>>
    ELSE <<RoleWrite(a.r, [roleDoc[a.r] EXCEPT
              !.name = IF a.name = "" THEN @ ELSE a.name,
              !.perms = IF a.perms = {} THEN @ ELSE a.perms,
              !.fraction = IF a.perms = {} THEN @ ELSE a.fraction,
              !.users = IF a.give = {} THEN @ ELSE {},
              !.listed = @ \/ a.give # {}])>>

\* The users the role loses and gets are changed first, one document at a time.
role_update_edits(a) ==
    IF a.give = {} THEN <<>>
    ELSE SetToSeq({[kind |-> "user", id |-> u, add |-> FALSE] : u \in roleDoc[a.r].users})
         \o SetToSeq({[kind |-> "user", id |-> u, add |-> TRUE] : u \in a.give})

\* api_handle_user_update: name and roles of the copy; the list is emptied.
user_update_writes(a) ==
    IF ~ userDoc[a.u].live THEN <<>>
    ELSE <<UserWrite(a.u, [userDoc[a.u] EXCEPT
              !.name = IF a.name = "" THEN @ ELSE a.name,
              !.roles = IF a.give = {} THEN @ ELSE <<>>])>>

Lose(roles) == [i \in DOMAIN roles |-> [kind |-> "role", id |-> roles[i], add |-> FALSE]]

\* Every role of the user loses it and every named role gets it, one at a time.
user_update_edits(a) ==
    IF a.give = {} THEN <<>>
    ELSE Lose(userDoc[a.u].roles) \o SetToSeq({[kind |-> "role", id |-> r, add |-> TRUE] : r \in a.give})

\* rbac_db_delete_user first takes the user out of the roles it lists.
delete_user_edits(a) == Lose(userDoc[a.u].roles)

\* The documents of the request are read; without them it ends.  A new name must be free.
read_documents(t) ==
    LET a == act[t]
        user == a.op = "updateUser"
        taken == /\ a.name # ""
                 /\ IF user THEN NamedUsers(a.name) \ {a.u} # {} ELSE ~ a.shared /\ NamedRoles(a.name) \ {a.r} # {}
        w == CASE user -> user_update_writes(a)
               [] a.op = "updateRole" -> role_update_writes(a)
               [] OTHER -> <<>>
        e == CASE user -> user_update_edits(a)
               [] a.op = "updateRole" -> role_update_edits(a)
               [] OTHER -> delete_user_edits(a)
        gone == IF a.op = "updateRole" THEN ~ roleDoc[a.r].live ELSE ~ userDoc[a.u].live
    IN  /\ a.pc = "read" /\ a.op \in {"updateRole", "updateUser", "deleteUser"}
        /\ IF gone \/ taken THEN End(t)
           ELSE Set(t, [a EXCEPT !.pc = IF a.shared /\ a.op = "updateRole" THEN "write" ELSE "edit",
                                 !.edits = e, !.writes = w])
        /\ twinNames' = IF user /\ ~ gone /\ ~ taken /\ a.name # "" /\ Settling(a.name, t) # {}
                        THEN twinNames \cup {a.name} ELSE twinNames
        /\ UNCHANGED <<docs, copies, idBuffer, asked, crashed, lost, met, allowed>>

\* The copies of virtual_get that a change of memberships works on; from a copy that is
\* out of date it is out of date in the store afterwards.
StaleCopies(a) ==
    (IF UserSeen(a.u) # userDoc[a.u] THEN {a.u} ELSE {}) \cup (IF RoleSeen(a.r) # roleDoc[a.r] THEN {a.r} ELSE {})
Known(a) == userDoc[a.u].live /\ roleDoc[a.r].live

\* rbac_db_add_user_to_role: both must be in the store; their copies come from virtual_get,
\* the role's with a users array.  The role goes on the list of the user's copy, which is
\* the list in the cache if the copy was found there.
rbac_db_add_user_to_role(t) ==
    LET a == act[t]
        us == UserSeen(a.u)
        rs == RoleSeen(a.r)
        with == [us EXCEPT !.roles = With(@, a.r)]
        hit == userCopy[a.u] # NoUser
        uw == [UserWrite(a.u, with) EXCEPT !.hit = hit]
        rw == [RoleWrite(a.r, [rs EXCEPT !.users = @ \cup {a.u}]) EXCEPT !.hit = roleCopy[a.r] # NoRole]
        w == (IF with = us THEN <<>> ELSE <<uw>>) \o (IF a.u \in rs.users THEN <<>> ELSE <<rw>>)
    IN  /\ a.pc = "read" /\ a.op = "add"
        /\ IF ~ Known(a) THEN End(t) /\ UNCHANGED <<copies, lost>>
           ELSE /\ userCopy' = [userCopy EXCEPT ![a.u] = IF hit /\ rs.listed THEN with ELSE us]
                /\ roleCopy' = [roleCopy EXCEPT ![a.r] = rs]
                /\ IF ~ rs.listed THEN End(t) /\ UNCHANGED lost
                   ELSE /\ Set(t, [a EXCEPT !.pc = "write", !.writes = w])
                        /\ lost' = lost \cup StaleCopies(a)
        /\ UNCHANGED <<docs, idBuffer, asked, crashed, met, twinNames, allowed>>

\* rbac_db_remove_user_from_role ends at the first write, which db_update_document refuses:
\* all that changes is a copy found in the cache.
rbac_db_remove_user_from_role(t) ==
    LET a == act[t]
        us == UserSeen(a.u)
        rs == RoleSeen(a.r)
        listed == rs.listed /\ a.r \in Roles(us)
        userHit == userCopy[a.u] # NoUser /\ listed
        roleHit == roleCopy[a.r] # NoRole /\ rs.listed /\ ~ listed
    IN  /\ a.pc = "read" /\ a.op = "remove"
        /\ IF ~ Known(a) THEN UNCHANGED copies
           ELSE /\ userCopy' = [userCopy EXCEPT ![a.u] = IF userHit THEN [us EXCEPT !.roles = Lacking(@, a.r)] ELSE us]
                /\ roleCopy' = [roleCopy EXCEPT ![a.r] = IF roleHit THEN [rs EXCEPT !.users = @ \ {a.u}] ELSE rs]
        /\ End(t)
        /\ UNCHANGED <<docs, idBuffer, asked, crashed, accHistory>>

\* rbac_db_revoke_permission leaves whole masks alone and answers that it is done.  Another
\* mask changes in the copy found in the cache; when its key goes, the cache still
\* counts it and may find it.
rbac_db_revoke_permission(t) ==
    LET a == act[t]
        rs == RoleSeen(a.r)
        left == rs.perms \ a.perms
        last == \A p \in a.perms, q \in left : p[1] # q[1]
    IN  /\ a.pc = "read" /\ a.op = "revoke"
        /\ IF ~ rs.live THEN UNCHANGED roleCopy
           ELSE \E found \in BOOLEAN :
                   /\ found => last
                   /\ roleCopy' = [roleCopy EXCEPT ![a.r] =
                          IF roleCopy[a.r] # NoRole /\ rs.fraction /\ ~ found THEN [rs EXCEPT !.perms = left] ELSE rs]
        /\ End(t)
        /\ UNCHANGED <<docs, userCopy, idBuffer, asked, crashed, accHistory>>

\* A document found is put on the list of the copy that is written in the end.
Enlisted(w, e) ==
    IF ~ e.add THEN w
    ELSE [w EXCEPT ![Len(w)].doc = IF e.kind = "role" THEN [@ EXCEPT !.roles = Append(@, e.id)]
                                   ELSE [@ EXCEPT !.users = @ \cup {e.id}]]

\* The next document to change is read; one that is gone is passed over, and so is, when
\* a user is deleted, a role without a users array.
edit_read(t) ==
    LET a == act[t]
        e == Head(a.edits)
        rest == [a EXCEPT !.edits = Tail(@)]
        copy == IF e.kind = "role"
                THEN RoleWrite(e.id, [roleDoc[e.id] EXCEPT
                        !.users = IF e.add THEN @ \cup {a.u} ELSE @ \ {a.u}, !.listed = @ \/ e.add])
                ELSE UserWrite(e.id, [userDoc[e.id] EXCEPT
                        !.roles = IF e.add THEN With(@, a.r) ELSE Lacking(@, a.r)])
        skip == IF e.kind = "role" THEN ~ roleDoc[e.id].live \/ (a.op = "deleteUser" /\ ~ roleDoc[e.id].listed)
                ELSE ~ userDoc[e.id].live
    IN  /\ a.pc = "edit" /\ a.edits # <<>>
        /\ Set(t, IF skip THEN rest ELSE [rest EXCEPT !.pc = "editWrite", !.writes = <<copy>> \o Enlisted(@, e)])
        /\ UNCHANGED <<docs, copies, idBuffer, asked, crashed, accHistory>>

\* virtual_update writes the whole copy back, unless the document is gone.
virtual_update(w, doc) ==
    /\ userDoc' = IF w.kind = "user" /\ userDoc[w.id].live THEN [userDoc EXCEPT ![w.id] = doc] ELSE userDoc
    /\ roleDoc' = IF w.kind = "role" /\ roleDoc[w.id].live THEN [roleDoc EXCEPT ![w.id] = doc] ELSE roleDoc
    /\ lost' = IF w.base # (IF w.kind = "user" THEN userDoc[w.id] ELSE roleDoc[w.id])
               THEN lost \cup {w.id} ELSE lost

edit_write(t) ==
    LET w == Head(act[t].writes) IN
    /\ act[t].pc = "editWrite"
    /\ virtual_update(w, w.doc)
    /\ Set(t, [act[t] EXCEPT !.pc = "edit", !.writes = Tail(@)])
    /\ UNCHANGED <<copies, idBuffer, asked, crashed, met, twinNames, allowed>>

\* When the others are written, both handlers of api_rbac.c read their own document again,
\* for the answer, and do not expect it to be gone.
reread(t) ==
    LET a == act[t]
        gone == IF a.op = "updateUser" THEN ~ userDoc[a.u].live ELSE ~ roleDoc[a.r].live
    IN  /\ a.pc = "edit" /\ a.edits = <<>> /\ a.op # "deleteUser"
        /\ crashed' = gone
        /\ Set(t, [a EXCEPT !.pc = "write"])
        /\ UNCHANGED <<docs, copies, idBuffer, asked, accHistory>>

\* The copies of the request itself are written last.  Adding to a role ends when the user is gone;
\* a list shared with the cache is written as it is there by now.
write_documents(t) ==
    LET a == act[t]
        w == Head(a.writes)
        doc == CASE ~ w.hit -> w.doc
                 [] w.kind = "user" -> userCopy[w.id]
                 [] OTHER -> [roleCopy[w.id] EXCEPT !.users = @ \cup {a.u}]
        stop == w.kind = "user" /\ ~ userDoc[w.id].live
    IN  /\ a.pc = "write" /\ a.writes # <<>>
        /\ virtual_update(w, doc)
        /\ roleCopy' = IF w.hit /\ w.kind = "role" THEN [roleCopy EXCEPT ![w.id] = doc] ELSE roleCopy
        /\ Set(t, [a EXCEPT !.writes = IF stop THEN <<>> ELSE Tail(@)])
        /\ UNCHANGED <<userCopy, idBuffer, asked, crashed, met, twinNames, allowed>>

\* rbac_db_delete_user deletes the document at last.
delete_user(t) ==
    LET a == act[t] IN
    /\ a.pc = "edit" /\ a.edits = <<>> /\ a.op = "deleteUser"
    /\ userDoc' = [userDoc EXCEPT ![a.u].live = FALSE]
    /\ met' = met \cup Pulled("u", a.u)
    /\ End(t)
    /\ UNCHANGED <<roleDoc, copies, idBuffer, asked, crashed, lost, twinNames, allowed>>

\* The handler answers.
finish(t) ==
    /\ act[t].pc = "write" /\ act[t].writes = <<>>
    /\ End(t)
    /\ UNCHANGED <<docs, copies, idBuffer, asked, crashed, accHistory>>

-----------------------------------------------------------------------------
(* Requests.                                                               *)

Args(op, u, r, n, p, g) ==
    [NoAct EXCEPT !.op = op, !.u = u, !.r = r, !.name = n, !.perms = p, !.give = g]
Shared(a) == [a EXCEPT !.shared = TRUE]
PlainAsk(op) == Args(op, "", "", "", {}, {})

KnownUsers == {u \in Accounts : userDoc[u].name # ""}
KnownRoles == {r \in RoleIds : roleDoc[r].name # ""}
Given(ids) == {{}} \cup {{i} : i \in ids}
OnlyOne(n, p, g) == Cardinality({x \in {1, 2, 3} : (x = 1 /\ n # "") \/ (x = 2 /\ p # {}) \/ (x = 3 /\ g # {})}) = 1
SomePerms == {<<"role", "admin">>}

api_handle_user_create(t, by) ==
    \E n \in Names, g \in Given(KnownRoles) : Ask(t, by, Args("createUser", "", "", n, {}, g))
api_handle_rbac_create_user(t, by) ==
    \E n \in Names : Ask(t, by, Shared(Args("createUser", "", "", n, {}, {})))
api_handle_register(t, by) ==
    \E n \in Names : Ask(t, by, Args("register", "", "", n, {}, {}))

api_handle_user_update(t, by) ==
    \E u \in KnownUsers, n \in {""} \cup Names, g \in Given(KnownRoles) :
        OnlyOne(n, {}, g) /\ Ask(t, by, Args("updateUser", u, "", n, {}, g))
\* extract_path_parameter finds no "id" after /users/: the answer is always 400.
api_handle_rbac_update_user(t, by) == Ask(t, by, Shared(PlainAsk("updateUser")))

api_handle_user_delete(t, by) ==
    \E u \in KnownUsers : Ask(t, by, Args("deleteUser", u, "", "", {}, {}))
api_handle_rbac_delete_user(t, by) ==
    \E u \in KnownUsers : Ask(t, by, Shared(Args("deleteUser", u, "", "", {}, {})))

api_handle_role_create(t, by) ==
    \E n \in RoleNames : Ask(t, by, Args("createRole", "", "", n, {}, {}))
api_handle_rbac_create_role(t, by) ==
    \E n \in RoleNames : Ask(t, by, Shared(Args("createRole", "", "", n, {}, {})))

\* Masks are sent as numbers, or by name and then are whole.
api_handle_role_update(t, by) ==
    \E r \in KnownRoles, n \in {""} \cup RoleNames, p \in {{}, SomePerms}, f \in BOOLEAN, g \in Given(KnownUsers) :
        /\ OnlyOne(n, p, g) /\ (f => p # {})
        /\ Ask(t, by, [Args("updateRole", "", r, n, p, g) EXCEPT !.fraction = f])
api_handle_rbac_update_role(t, by) ==
    \E r \in KnownRoles, f \in BOOLEAN :
        Ask(t, by, [Shared(Args("updateRole", "", r, "", SomePerms, {})) EXCEPT !.fraction = f])

api_handle_role_delete(t, by) ==
    \E r \in KnownRoles : Ask(t, by, Args("deleteRole", "", r, "", {}, {}))
api_handle_rbac_delete_role(t, by) ==
    \E r \in KnownRoles : Ask(t, by, Shared(Args("deleteRole", "", r, "", {}, {})))

api_handle_rbac_add_user_to_role(t, by) ==
    \E u \in KnownUsers, r \in KnownRoles : Ask(t, by, Shared(Args("add", u, r, "", {}, {})))
api_handle_rbac_remove_user_from_role(t, by) ==
    \E u \in KnownUsers, r \in KnownRoles : Ask(t, by, Shared(Args("remove", u, r, "", {}, {})))
api_handle_rbac_grant_permission(t, by) ==
    \E r \in KnownRoles : Ask(t, by, Shared(Args("grant", "", r, "", SomePerms, {})))
api_handle_rbac_revoke_permission(t, by) ==
    \E r \in KnownRoles : Ask(t, by, Shared(Args("revoke", "", r, "", SomePerms, {})))

\* Requests that only read.  api_handle_rbac_get_user answers 400 like the update, and
\* api_handle_rbac_get_role looks in default/documents and answers 404.
api_handle_users_list(t, by) == Ask(t, by, PlainAsk("listUsers"))
api_handle_user_get(t, by) == \E u \in KnownUsers : Ask(t, by, Args("getUser", u, "", "", {}, {}))
api_handle_roles_list(t, by) == Ask(t, by, PlainAsk("listRoles"))
api_handle_role_get(t, by) == Ask(t, by, PlainAsk("getRole"))
api_handle_rbac_get_users(t, by) == Ask(t, by, Shared(PlainAsk("listUsers")))
api_handle_rbac_get_user(t, by) == Ask(t, by, Shared(PlainAsk("getUser")))
api_handle_rbac_get_roles(t, by) == Ask(t, by, Shared(PlainAsk("listRoles")))
api_handle_rbac_get_role(t, by) == Ask(t, by, Shared(PlainAsk("getRole")))
api_handle_rbac_get_permissions(t, by) == Ask(t, by, Shared(PlainAsk("listPermissions")))

AccStep(t) ==
    \/ check_shared(t) \/ compare(t) \/ check_user_name(t) \/ insert_user(t) \/ check_role_name(t)
    \/ insert_role(t) \/ delete_role(t) \/ read_documents(t) \/ rbac_db_add_user_to_role(t)
    \/ rbac_db_remove_user_from_role(t) \/ rbac_db_revoke_permission(t) \/ edit_read(t) \/ edit_write(t)
    \/ reread(t) \/ write_documents(t) \/ delete_user(t) \/ finish(t)

\* by: anybody with a token, also one whose user document is gone.
AccHandler(t, by) ==
    \/ api_handle_user_create(t, by) \/ api_handle_rbac_create_user(t, by) \/ api_handle_register(t, by)
    \/ api_handle_user_update(t, by) \/ api_handle_rbac_update_user(t, by)
    \/ api_handle_user_delete(t, by) \/ api_handle_rbac_delete_user(t, by)
    \/ api_handle_role_create(t, by) \/ api_handle_rbac_create_role(t, by)
    \/ api_handle_role_update(t, by) \/ api_handle_rbac_update_role(t, by)
    \/ api_handle_role_delete(t, by) \/ api_handle_rbac_delete_role(t, by)
    \/ api_handle_rbac_add_user_to_role(t, by) \/ api_handle_rbac_remove_user_from_role(t, by)
    \/ api_handle_rbac_grant_permission(t, by) \/ api_handle_rbac_revoke_permission(t, by)
    \/ api_handle_users_list(t, by) \/ api_handle_user_get(t, by) \/ api_handle_roles_list(t, by)
    \/ api_handle_role_get(t, by) \/ api_handle_rbac_get_users(t, by) \/ api_handle_rbac_get_user(t, by)
    \/ api_handle_rbac_get_roles(t, by) \/ api_handle_rbac_get_role(t, by) \/ api_handle_rbac_get_permissions(t, by)

AccRequest(t) ==
    /\ act[t].pc = "idle" /\ asked < MaxAsked
    /\ \E by \in KnownUsers : AccHandler(t, by)

AccNext ==
    /\ ~ crashed
    /\ \E t \in AThreads : AccStep(t) \/ AccRequest(t)
    /\ everHeld' = [u \in Accounts |-> everHeld[u] \cup Roles(userDoc'[u]) \cup Roles(userCopy'[u])]
    /\ everGranted' = [r \in RoleIds |-> everGranted[r] \cup roleDoc'[r].perms]

AccSpec == AccInit /\ [][AccNext]_accVars

-----------------------------------------------------------------------------
(* Properties.                                                             *)

AccTypeOK ==
    /\ \A u \in Accounts : Roles(userDoc[u]) \cup Roles(userCopy[u]) \subseteq RoleIds
    /\ \A r \in RoleIds : roleDoc[r].users \subseteq Accounts /\ roleDoc[r].perms \subseteq Permissions
    /\ lost \subseteq Accounts \cup RoleIds

Quiet == \A t \in AThreads : act[t].pc = "idle"

\* What a user lists and what a role lists agree whenever no request runs, for the
\* roles made through the API, as long as no two requests changed memberships at the
\* same time and none worked from a copy that was out of date.
MembershipAgrees ==
    Quiet /\ lost = {} /\ "memberships" \notin met =>
        \A u \in Accounts, r \in RoleIds \ {AdminRole} :
            userDoc[u].live /\ roleDoc[r].live =>
                (r \in Roles(userDoc[u]) <=> u \in roleDoc[r].users)

\* A request that was let through came from a user who held, at some time, a role that
\* granted the permission at some time: the cache may be out of date but makes nothing up,
\* and only an overwritten buffer lends the identity of another requester.
AllowedHadPermission == allowed

\* The database keeps a user: nobody deletes their own document, so the last one goes
\* only when two deletions overlap, the identity in the buffer was not theirs, or a
\* deleted user went on with a token and the copy in the cache.
SomeUserLeft ==
    met \cap {"identities", "deletions", "deleted requester"} # {} \/ \E u \in Accounts : userDoc[u].live

\* Two users share a name only if their requests settled on it at the same time or an
\* out-of-date copy was written over a rename.
UserNamesUnique ==
    \A n \in Names : Cardinality(NamedUsers(n)) > 1 => n \in twinNames \/ lost # {}

\* The server goes down only when a document goes that another request is changing.
CrashOnlyIfPulled == crashed => "pulled" \in met

\* A document that was deleted does not come back through a pending write-back.
DeletedDocumentsStayDeleted ==
    [][/\ \A u \in Accounts : userDoc[u].name # "" /\ ~ userDoc[u].live => ~ userDoc'[u].live
       /\ \A r \in RoleIds : roleDoc[r].name # "" /\ ~ roleDoc[r].live => ~ roleDoc'[r].live]_accVars

\* Users and roles: the two sides of a membership agree and names are unique unless
\* requests raced, who was let through once held the permission, somebody is left to
\* administer, what was deleted stays deleted, and nothing else brings the server down.
AccessSound ==
    /\ [](/\ AccTypeOK
          /\ MembershipAgrees
          /\ AllowedHadPermission
          /\ SomeUserLeft
          /\ UserNamesUnique
          /\ CrashOnlyIfPulled)
    /\ DeletedDocumentsStayDeleted
=============================================================================

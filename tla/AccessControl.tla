---------------------------- MODULE AccessControl ----------------------------
(***************************************************************************)
(* Users, logins and sessions of the panel, and the file the users are     *)
(* kept in.  API threads change the user list under state_lock and save it *)
(* before they release it.  Other handlers save too, but without that      *)
(* lock: layout changes write the same file, and json.dumps with an indent *)
(* walks the live list while a thread under state_lock may change it.      *)
(* persist_lock only keeps two writers apart.                              *)
(*                                                                         *)
(* The order of the list is left open: a walk reads the users in any order.*)
(* It reads a user key by key; of one that changes meanwhile it has some   *)
(* keys from before the change and some from after it.                     *)
(***************************************************************************)
EXTENDS Integers, FiniteSets

CONSTANTS
  Names,          \* user names after strip()
  InitialAdmin,   \* INITIAL_ADMIN_USERNAME
  Roles,
  Saved,          \* the lists an earlier run may have left
  Modes,          \* the AUTH_MODEs a restart may configure
  Threads,        \* API worker threads
  Clients,        \* client addresses
  Absent,         \* no such user
  None,
  MaxAttempts,    \* LOGIN_MAX_ATTEMPTS
  Window,         \* LOGIN_WINDOW_SECONDS
  MaxAge,         \* SESSION_MAX_AGE_SECONDS
  MaxTime,        \* bound on the clock
  MaxRequests,    \* bound on logins and changes of users
  MaxMishaps      \* bound on failed writes of the file and process restarts

\* No password, a hash with its salt, or a hash with the salt of another one:
\* that looks like a password (password_is_usable) and verifies nothing.
Passwords == {"none", "set", "torn"}
User == [role : Roles, active : BOOLEAN, password : Passwords]
Registry == [Names -> User \cup {Absent}]

ASSUME AccessAssumption ==
  /\ IsFiniteSet(Names) /\ IsFiniteSet(Threads)
  /\ InitialAdmin \in Names
  /\ "Administrator" \in Roles
  /\ Modes \subseteq {"local", "radius"} /\ Modes # {}
  /\ None \notin Threads \cup Names
  /\ Absent \notin User
  /\ MaxAttempts \in Nat \ {0}
  /\ Window \in Nat /\ MaxAge \in Nat
  /\ MaxTime \in Nat /\ MaxRequests \in Nat /\ MaxMishaps \in Nat

VARIABLES
  now,
  mode,       \* AUTH_MODE of the running process
  users,      \* access_users in memory
  file,       \* access_users in persisted_state.json
  lock,       \* the thread inside state_lock that still has to save, or None
  dump,       \* a save without state_lock: who is unread and being read, what was read
  handler,    \* what each API thread is doing
  sessions,
  failures,   \* login_failures of every client
  requests,   \* logins and changes so far; a session is named after its login
  ahead,      \* history: memory holds a change whose request failed
  torn,       \* history: memory or file has a list that changed twice, or lost a user, while it was read
  mishaps     \* failed writes and restarts so far

storeVars == <<users, file, lock, dump, ahead, torn>>
loginVars == <<sessions, failures, requests>>
vars == <<now, mode, storeVars, loginVars, handler, mishaps>>

Present(registry) == {n \in Names : registry[n] # Absent}
Admins(registry) ==
  {n \in Present(registry) : registry[n].role = "Administrator" /\ registry[n].active}
ASSUME SavedAssumption == \A r \in Saved : r \in Registry /\ Admins(r) # {}

Active(n) == n \in Present(users) /\ users[n].active

Nobody == [n \in Names |-> Absent]
\* A password of the panel's own, which only local authentication stores.
Given(m) == IF m = "local" THEN "set" ELSE "none"
Bootstrap(m) == [role |-> "Administrator", active |-> TRUE, password |-> Given(m)]

\* merge_access_users: what a start makes of the saved list.
Merge(saved, m) ==
  IF \/ Present(saved) = {}
     \/ m = "local" /\ \A n \in Present(saved) : saved[n].password = "none"
  THEN [saved EXCEPT ![InitialAdmin] = Bootstrap(m)]
  ELSE saved

NoDump == [on |-> FALSE, left |-> {}, reading |-> None, seen |-> Nobody, torn |-> FALSE]
Idle == [step |-> "idle", no |-> 0, at |-> 0, name |-> None, client |-> None, good |-> FALSE]

\* A start without a file, or from the list an earlier run left.
Init ==
  /\ now = 0
  /\ mode \in Modes
  /\ \E saved \in Saved \cup {Nobody} : users = Merge(saved, mode)
  /\ file = users
  /\ lock = None
  /\ dump = NoDump
  /\ handler = [t \in Threads |-> Idle]
  /\ sessions = {}
  /\ failures = [c \in Clients |-> {}]
  /\ requests = 0
  /\ ahead = FALSE
  /\ torn = [memory |-> FALSE, file |-> FALSE]
  /\ mishaps = 0

Tick ==
  /\ now < MaxTime
  /\ now' = now + 1
  /\ UNCHANGED <<mode, storeVars, loginVars, handler, mishaps>>

-----------------------------------------------------------------------------
\* login, first critical section: rate limit, then the user.
Recent(c) == {f \in failures[c] : f.at >= now - Window}
\* Mutant: one attempt too many.
LimitedLate(c) == Cardinality(Recent(c)) > MaxAttempts
Limited(c) == Cardinality(Recent(c)) >= MaxAttempts

LoginBegins(t) ==
  /\ handler[t] = Idle
  /\ lock = None
  /\ requests < MaxRequests
  /\ requests' = requests + 1
  /\ UNCHANGED <<now, mode, storeVars, sessions, mishaps>>

LoginLimited(t, c) ==
  /\ LoginBegins(t)
  /\ Limited(c)
  /\ failures' = [failures EXCEPT ![c] = Recent(c)]
  /\ UNCHANGED handler

LoginUnknown(t, c, n) ==
  /\ LoginBegins(t)
  /\ ~Limited(c)
  /\ ~Active(n)
  /\ failures' = [failures EXCEPT ![c] = Recent(c) \cup {[no |-> requests + 1, at |-> now]}]
  /\ UNCHANGED handler

LoginKnown(t, c, n) ==
  /\ LoginBegins(t)
  /\ ~Limited(c)
  /\ Active(n)
  /\ failures' = [failures EXCEPT ![c] = Recent(c)]
  /\ handler' = [handler EXCEPT ![t] = [step |-> "verify", no |-> requests + 1, at |-> now,
                                        name |-> n, client |-> c, good |-> FALSE]]

\* Without a stored password nothing verifies; a deleted record keeps its own.
Verifiable(n) == mode = "local" /\ n \in Present(users) => users[n].password = "set"

\* Password or RADIUS, outside the lock.  The user may change or go meanwhile.
Verify(t) ==
  /\ handler[t].step = "verify"
  /\ LET n == handler[t].name
     IN  \/ \E good \in {FALSE, Verifiable(n)} :
              handler' = [handler EXCEPT ![t].step = "admit", ![t].good = good]
         \/ mode = "radius" /\ handler' = [handler EXCEPT ![t] = Idle]
  /\ UNCHANGED <<now, mode, storeVars, loginVars, mishaps>>

\* login, second critical section.
Reject(t) ==
  /\ handler[t].step = "admit" /\ ~handler[t].good
  /\ lock = None
  /\ LET h == handler[t]
     IN  failures' = [failures EXCEPT ![h.client] = @ \cup {[no |-> h.no, at |-> h.at]}]
  /\ handler' = [handler EXCEPT ![t] = Idle]
  /\ UNCHANGED <<now, mode, storeVars, sessions, requests, mishaps>>

Expired(s) == now - s.at > MaxAge
Fresh == {s \in sessions : ~Expired(s)}

\* Mutant: whether the account is in use is not looked up.
AdmitAny(t) ==
  /\ handler[t].step = "admit" /\ handler[t].good
  /\ lock = None
  /\ LET h == handler[t]
     IN  /\ failures' = [failures EXCEPT ![h.client] = {}]
         /\ sessions' = Fresh \cup {[no |-> h.no, user |-> h.name, at |-> now]}
  /\ handler' = [handler EXCEPT ![t] = Idle]
  /\ UNCHANGED <<now, mode, storeVars, requests, mishaps>>
Admit(t) ==
  /\ handler[t].step = "admit" /\ handler[t].good
  /\ lock = None
  /\ LET h == handler[t]
     IN  /\ failures' = [failures EXCEPT ![h.client] = {}]
         /\ sessions' = IF \E s \in Fresh : s.user = h.name
                        THEN Fresh
                        ELSE Fresh \cup {[no |-> h.no, user |-> h.name, at |-> now]}
  /\ handler' = [handler EXCEPT ![t] = Idle]
  /\ UNCHANGED <<now, mode, storeVars, requests, mishaps>>

-----------------------------------------------------------------------------
\* get_current_user and require_roles run before the handler and release the
\* lock: what the handler does later rests on this answer.
SessionEnds(s) ==
  /\ lock = None
  /\ Expired(s) \/ ~Active(s.user)
  /\ sessions' = sessions \ {s}
  /\ UNCHANGED <<now, mode, storeVars, failures, requests, handler, mishaps>>

Authorise(t, s) ==
  /\ handler[t] = Idle
  /\ lock = None
  /\ ~Expired(s) /\ Active(s.user)
  /\ handler' = [handler EXCEPT ![t] =
       [Idle EXCEPT !.step = "authorised", !.no = s.no, !.name = s.user,
                    !.good = users[s.user].role = "Administrator"]]
  /\ UNCHANGED <<now, mode, storeVars, loginVars, mishaps>>

Logout(t) ==
  /\ handler[t].step = "authorised"
  /\ lock = None
  /\ sessions' = {s \in sessions : s.no # handler[t].no}
  /\ handler' = [handler EXCEPT ![t] = Idle]
  /\ UNCHANGED <<now, mode, storeVars, failures, requests, mishaps>>

\* A request that only reads, or is refused before it changes anything.
Decline(t) ==
  /\ handler[t].step = "authorised"
  /\ handler' = [handler EXCEPT ![t] = Idle]
  /\ UNCHANGED <<now, mode, storeVars, loginVars, mishaps>>

MayAdminister(t) == handler[t].step = "authorised" /\ handler[t].good /\ lock = None

\* The lock is kept until the save; only the walk of dump sees what is between.
Changes(t, registry) ==
  /\ requests < MaxRequests
  /\ requests' = requests + 1
  /\ users' = registry
  /\ lock' = t
  /\ handler' = [handler EXCEPT ![t] = [Idle EXCEPT !.step = "save"]]
  /\ UNCHANGED <<now, mode, file, ahead, torn, sessions, failures, mishaps>>

\* A list iterator sees what is appended unless it has already ended.
Appended(n) ==
  \/ dump.on /\ dump' = [dump EXCEPT !.left = @ \cup {n}]
  \/ (dump.on => dump.left = {}) /\ UNCHANGED dump

CreateUser(t, n, r, a) ==
  /\ MayAdminister(t)
  /\ n \notin Present(users)
  /\ Changes(t, [users EXCEPT ![n] = [role |-> r, active |-> a, password |-> Given(mode)]])
  /\ Appended(n)

LastAdmin(n) == n \in Admins(users) /\ Cardinality(Admins(users)) <= 1
Updated(n, r, a, p) ==
  [users EXCEPT ![n] = [role |-> r, active |-> a,
                        password |-> IF p THEN "set" ELSE users[n].password]]
\* Mutant: disabling is not counted as removing.
MayDisable(n, r, a) ==
  /\ n \in Present(users)
  /\ r # "Administrator" => ~LastAdmin(n)
MayUpdate(n, r, a) ==
  /\ n \in Present(users)
  /\ ~(r = "Administrator" /\ a) => ~LastAdmin(n)

\* What a walk may have of a user who changes while it reads him.
Mixed(n, r, a, p) ==
  LET seen == dump.seen[n]
  IN  [role : {seen.role, r}, active : {seen.active, a},
       password : {seen.password} \cup (IF p THEN {"set", "torn"} ELSE {})]

\* Two keys that are new in his dictionary end the walk, unless it had passed him.
Met(n, r, a, p) ==
  IF dump.reading # n THEN {dump}
  ELSE IF p /\ users[n].password = "none" THEN {NoDump, dump}
  ELSE {[dump EXCEPT !.seen[n] = mix] : mix \in Mixed(n, r, a, p)}

UpdateUser(t, n, r, a, p) ==
  /\ MayAdminister(t)
  /\ MayUpdate(n, r, a)
  /\ p => mode = "local"
  /\ Changes(t, Updated(n, r, a, p))
  /\ dump' \in Met(n, r, a, p)

\* Role and activation are changed before the password is looked at; a rejected
\* password leaves them changed, saves nothing and releases the lock, so that a
\* save without it may go on to see a second change.
UpdateRejected(t, n, r, a) ==
  /\ MayAdminister(t)
  /\ MayUpdate(n, r, a)
  /\ requests < MaxRequests
  /\ requests' = requests + 1
  /\ users' = Updated(n, r, a, FALSE)
  /\ ahead' = TRUE
  /\ \E met \in Met(n, r, a, FALSE) : dump' = [met EXCEPT !.torn = @ \/ met.on]
  /\ handler' = [handler EXCEPT ![t] = Idle]
  /\ UNCHANGED <<now, mode, file, lock, torn, sessions, failures, mishaps>>

\* Removing a user that was read shifts the rest: the next one is not read.
Removed(n) ==
  IF dump.on /\ n \notin dump.left /\ dump.left # {}
  THEN \E skipped \in dump.left :
         dump' = [dump EXCEPT !.left = @ \ {skipped}, !.torn = TRUE]
  ELSE dump' = [dump EXCEPT !.left = @ \ {n}]

\* Mutant: only the last user is protected, not the last administrator.
DeleteAny(t, n) ==
  /\ MayAdminister(t)
  /\ n \in Present(users)
  /\ Cardinality(Present(users)) # 1
  /\ Changes(t, [users EXCEPT ![n] = Absent])
  /\ Removed(n)
DeleteUser(t, n) ==
  /\ MayAdminister(t)
  /\ n \in Present(users)
  /\ Cardinality(Present(users)) # 1
  /\ ~LastAdmin(n)
  /\ Changes(t, [users EXCEPT ![n] = Absent])
  /\ Removed(n)

\* save_persisted_state by the thread that holds state_lock.
\* Mutant: without persist_lock.
SaveUnlocked(t) ==
  /\ lock = t
  /\ file' = users
  /\ torn' = [torn EXCEPT !.file = torn.memory]
  /\ ahead' = FALSE
  /\ lock' = None
  /\ handler' = [handler EXCEPT ![t] = Idle]
  /\ UNCHANGED <<now, mode, users, dump, loginVars, mishaps>>
Save(t) ==
  /\ lock = t
  /\ ~dump.on
  /\ file' = users
  /\ torn' = [torn EXCEPT !.file = torn.memory]
  /\ ahead' = FALSE
  /\ lock' = None
  /\ handler' = [handler EXCEPT ![t] = Idle]
  /\ UNCHANGED <<now, mode, users, dump, loginVars, mishaps>>

SaveFails(t) ==
  /\ lock = t
  /\ ~dump.on
  /\ mishaps < MaxMishaps
  /\ mishaps' = mishaps + 1
  /\ ahead' = TRUE
  /\ lock' = None
  /\ handler' = [handler EXCEPT ![t] = Idle]
  /\ UNCHANGED <<now, mode, users, file, dump, torn, loginVars>>

-----------------------------------------------------------------------------
\* save_persisted_state by a handler that does not hold state_lock.
DumpBegins ==
  /\ ~dump.on
  /\ dump' = [NoDump EXCEPT !.on = TRUE, !.left = Present(users), !.torn = torn.memory]
  /\ UNCHANGED <<now, mode, users, file, lock, ahead, torn, loginVars, handler, mishaps>>

\* The walk goes on to user n.
DumpReads(n) ==
  /\ dump.on
  /\ n \in dump.left
  /\ dump' = [dump EXCEPT !.left = @ \ {n}, !.reading = n, !.seen[n] = users[n]]
  /\ UNCHANGED <<now, mode, users, file, lock, ahead, torn, loginVars, handler, mishaps>>

DumpWrites ==
  /\ dump.on /\ dump.left = {}
  /\ file' = dump.seen
  /\ torn' = [torn EXCEPT !.file = dump.torn]
  /\ dump' = NoDump
  /\ UNCHANGED <<now, mode, users, lock, ahead, loginVars, handler, mishaps>>

\* An OSError, or another dictionary of the file that grew while it was read.
DumpFails ==
  /\ dump.on
  /\ mishaps < MaxMishaps
  /\ mishaps' = mishaps + 1
  /\ dump' = NoDump
  /\ UNCHANGED <<now, mode, users, file, lock, ahead, torn, loginVars, handler>>

\* The process dies and starts from the file, perhaps with another AUTH_MODE;
\* lifespan saves what it made of it.
Restart(m) ==
  /\ mishaps < MaxMishaps
  /\ mishaps' = mishaps + 1
  /\ mode' = m
  /\ users' = Merge(file, m)
  /\ file' = users'
  /\ torn' = [memory |-> torn.file, file |-> torn.file]
  /\ lock' = None /\ dump' = NoDump /\ ahead' = FALSE
  /\ handler' = [t \in Threads |-> Idle]
  /\ sessions' = {} /\ failures' = [c \in Clients |-> {}]
  /\ UNCHANGED <<now, requests>>

-----------------------------------------------------------------------------
Login(t) ==
  \E c \in Clients :
    \/ LoginLimited(t, c)
    \/ \E n \in Names : LoginUnknown(t, c, n) \/ LoginKnown(t, c, n)
Administer(t) ==
  \E n \in Names :
    \/ DeleteUser(t, n)
    \/ \E r \in Roles, a \in BOOLEAN :
         \/ CreateUser(t, n, r, a)
         \/ UpdateRejected(t, n, r, a)
         \/ \E p \in BOOLEAN : UpdateUser(t, n, r, a, p)
Request(t) ==
  \/ Login(t) \/ Verify(t) \/ Reject(t) \/ Admit(t)
  \/ \E s \in sessions : Authorise(t, s)
  \/ Logout(t) \/ Decline(t) \/ Administer(t)
  \/ Save(t) \/ SaveFails(t)
Dump == DumpBegins \/ DumpWrites \/ DumpFails \/ \E n \in Names : DumpReads(n)

Next ==
  \/ \E t \in Threads : Request(t)
  \/ \E s \in sessions : SessionEnds(s)
  \/ Dump
  \/ \E m \in Modes : Restart(m)
  \/ Tick

Spec == Init /\ [][Next]_vars

-----------------------------------------------------------------------------
Steps == {"idle", "verify", "admit", "authorised", "save"}
Handlers == [step : Steps, no : Nat, at : Nat, name : Names \cup {None},
             client : Clients \cup {None}, good : BOOLEAN]

Dumps == [on : BOOLEAN, left : SUBSET Names, reading : Names \cup {None}, seen : Registry,
          torn : BOOLEAN]

\* Every variable has its type.
TypeOK ==
  /\ now \in Nat
  /\ mode \in Modes
  /\ users \in Registry /\ file \in Registry
  /\ lock \in Threads \cup {None}
  /\ dump \in Dumps
  /\ handler \in [Threads -> Handlers]
  /\ sessions \subseteq [no : Nat, user : Names, at : Nat]
  /\ failures \in [Clients -> SUBSET [no : Nat, at : Nat]]
  /\ requests \in Nat
  /\ ahead \in BOOLEAN
  /\ torn \in [memory : BOOLEAN, file : BOOLEAN]
  /\ mishaps \in Nat

\* However two administrators change each other, fail or restart, an active
\* administrator is left in memory, unless the process started from a list
\* that was torn while it was written.
AdminRemains == torn.memory \/ Admins(users) # {}

\* Administrators whom a process in mode m can let in.
CanLogIn(registry, m) == {n \in Admins(registry) : m = "local" => registry[n].password = "set"}

\* At every moment a crash, and a start from the file in any configured mode,
\* leave an administrator who can log in, unless the list was torn while it was
\* written.  In local mode there are two more exceptions: an administrator
\* without a password, because the code counts him when the one who has a
\* password is demoted or deleted; and one with half of his old password, until
\* the save of his new one follows, for good only if that fails or a crash
\* comes first.
AdminOnDisk ==
  torn.file \/ \A m \in Modes :
    \/ CanLogIn(Merge(file, m), m) # {}
    \/ m = "local" /\ \E n \in Admins(file) :
         \/ file[n].password = "none"
         \/ file[n].password = "torn" /\ (lock # None \/ ahead \/ users[n] = file[n])

\* Between requests the file is what memory is, unless a failed request left
\* its change in memory: no save, with or without state_lock, puts back an
\* older list.
FileCurrent == lock = None /\ ~ahead => file = users

\* An account has one session, also if two logins verify the password at once.
OneSession == \A s1, s2 \in sessions : s1.user = s2.user => s1 = s2

\* The limit is looked at before the password and counted after it: logins at
\* the same time may exceed it, by one for each further thread and no more.
RateBounded ==
  \A c \in Clients : Cardinality(failures[c]) <= MaxAttempts - 1 + Cardinality(Threads)
=============================================================================

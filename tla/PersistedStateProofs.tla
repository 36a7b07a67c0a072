------------------------- MODULE PersistedStateProofs -------------------------
(***************************************************************************)
(* Proofs for the two models of what persisted_state.json holds.           *)
(*                                                                         *)
(* AccessControl: types, the administrator who remains in memory and on    *)
(* disk, the file that follows memory, one session for an account and the  *)
(* bound on attempts, for any number of names, threads, clients, requests, *)
(* failures and restarts.                                                  *)
(*                                                                         *)
(* PanelSettings: types, the file that follows memory section by section,  *)
(* the one agent with the settings in force and the interval of the        *)
(* heartbeat, for any number of threads, agents, requests and failures.    *)
(*                                                                         *)
(* The two models share no variable; a theorem is about the specification  *)
(* it names.                                                               *)
(***************************************************************************)
EXTENDS AccessControl, PanelSettings, FiniteSetTheorems, WellFoundedInduction, TLAPS

\* A login under way is about a name and comes from a client.
HandlersNamed ==
  \A t \in Threads : handler[t].step \in {"verify", "admit"} =>
    handler[t].name \in Names /\ handler[t].client \in Clients

\* What a save without state_lock will write if nothing changes any more.
Result == [n \in Names |-> IF n \in dump.left THEN users[n] ELSE dump.seen[n]]

\* Who is still to be read is in memory, and who is being read has a record.
Walking ==
  /\ dump.left \subseteq Present(users)
  /\ dump.reading # None => dump.seen[dump.reading] # Absent

\* A walk that is not torn meets at most one change, because the thread that
\* made it waits for the walk to end before it can release the lock.
DumpHonest ==
  dump.on =>
    /\ ~dump.torn => \A n \in dump.left : dump.seen[n] = Absent
    /\ torn.memory => dump.torn
    /\ lock = None /\ ~(dump.torn /\ ahead) => \A n \in Names : Result[n] = users[n]
    /\ ~dump.torn => Admins(Result) # {}

AdminInFile == torn.file \/ Admins(file) # {}
StoreInv == AdminRemains /\ AdminInFile /\ FileCurrent /\ DumpHonest

\* Logins whose password is looked at, and that may still count as failures.
Pending(c) == {t \in Threads : handler[t].step \in {"verify", "admit"} /\ handler[t].client = c}
Attempts ==
  \A c \in Clients :
    /\ IsFiniteSet(failures[c])
    /\ Cardinality(failures[c]) + Cardinality(Pending(c)) <= MaxAttempts - 1 + Cardinality(Threads)

-----------------------------------------------------------------------------
LEMMA IdleType ==
  /\ Idle \in Handlers
  /\ \A s \in Steps : [Idle EXCEPT !.step = s] \in Handlers
BY DEF Idle, Handlers, Steps

\* A change of users ends a request or goes on to its save; it is no login.
LEMMA AdministerStep ==
  ASSUME NEW t \in Threads, Administer(t)
  PROVE  /\ sessions' = sessions /\ failures' = failures
         /\ \/ handler' = [handler EXCEPT ![t] = Idle]
            \/ handler' = [handler EXCEPT ![t] = [Idle EXCEPT !.step = "save"]]
<1>. DEFINE saving == handler' = [handler EXCEPT ![t] = [Idle EXCEPT !.step = "save"]]
            ends == handler' = [handler EXCEPT ![t] = Idle]
            kept == sessions' = sessions /\ failures' = failures
<1>1. \A registry : Changes(t, registry) => saving /\ kept
  BY DEF Changes
<1>2. ASSUME NEW n \in Names, NEW r \in Roles, NEW a \in BOOLEAN, UpdateRejected(t, n, r, a)
      PROVE  ends /\ kept
  BY <1>2 DEF UpdateRejected
<1>. HIDE DEF saving, ends, kept
<1>3. ASSUME NEW n \in Names, DeleteUser(t, n) PROVE saving /\ kept
  BY <1>1, <1>3 DEF DeleteUser
<1>4. ASSUME NEW n \in Names, NEW r \in Roles, NEW a \in BOOLEAN, CreateUser(t, n, r, a)
      PROVE  saving /\ kept
  BY <1>1, <1>4 DEF CreateUser
<1>5. ASSUME NEW n \in Names, NEW r \in Roles, NEW a \in BOOLEAN, NEW p \in BOOLEAN,
             UpdateUser(t, n, r, a, p)
      PROVE  saving /\ kept
  BY <1>1, <1>5 DEF UpdateUser
<1>6. (saving \/ ends) /\ kept
  BY <1>2, <1>3, <1>4, <1>5 DEF Administer
<1>. QED BY <1>6 DEF saving, ends, kept

\* A start makes a list with an administrator of one that had one, and of none.
LEMMA MergeSafe ==
  ASSUME NEW r \in Registry, NEW m \in Modes
  PROVE  /\ Merge(r, m) \in Registry
         /\ Admins(r) # {} \/ Present(r) = {} => Admins(Merge(r, m)) # {}
<1>. DEFINE b == Bootstrap(m)
<1>1. b \in User /\ b.role = "Administrator" /\ b.active /\ b # Absent
  <2>1. b \in User
    BY AccessAssumption DEF Bootstrap, Given, User, Passwords
  <2>2. b.role = "Administrator" /\ b.active
    BY DEF Bootstrap
  <2>. QED BY <2>1, <2>2, AccessAssumption
<1>2. CASE Merge(r, m) = r
  <2>1. Present(r) # {}
    <3>. SUFFICES ASSUME Present(r) = {} PROVE FALSE
      OBVIOUS
    <3>1. Merge(r, m) = [r EXCEPT ![InitialAdmin] = b]
      BY DEF Merge
    <3>. HIDE DEF b
    <3>2. r[InitialAdmin] = b
      BY <1>2, <3>1, AccessAssumption DEF Registry
    <3>. QED BY <1>1, <3>2, AccessAssumption DEF Present
  <2>. QED BY <1>2, <2>1
<1>3. CASE Merge(r, m) = [r EXCEPT ![InitialAdmin] = b]
  <2>. HIDE DEF b
  <2>1. Merge(r, m) \in Registry
    BY <1>1, <1>3 DEF Registry
  <2>2. Merge(r, m)[InitialAdmin] = b
    BY <1>3, AccessAssumption DEF Registry
  <2>3. InitialAdmin \in Admins(Merge(r, m))
    BY <1>1, <2>2, AccessAssumption DEF Admins, Present
  <2>. QED BY <2>1, <2>3
<1>. QED BY <1>2, <1>3 DEF Merge

\* What a walk may have after user n changed: nothing, what it had, or for n a
\* record with keys from before and after the change.
LEMMA MetShape ==
  ASSUME TypeOK, Walking, NEW n \in Names, NEW r \in Roles, NEW a \in BOOLEAN,
         NEW p \in BOOLEAN, NEW met \in Met(n, r, a, p)
  PROVE  \/ met = NoDump
         \/ met = dump
         \/ dump.reading = n /\ \E u \in User :
              /\ u.role \in {dump.seen[n].role, r} /\ u.active \in {dump.seen[n].active, a}
              /\ met = [dump EXCEPT !.seen = [dump.seen EXCEPT ![n] = u]]
<1>1. CASE dump.reading # n
  BY <1>1 DEF Met
<1>2. CASE dump.reading = n /\ met \notin {NoDump, dump}
  <2>1. PICK u \in Mixed(n, r, a, p) : met = [dump EXCEPT !.seen[n] = u]
    BY <1>2 DEF Met
  <2>2. dump.seen[n] \in User
    BY <1>2, AccessAssumption DEF TypeOK, Dumps, Registry, Walking
  <2>3. u \in User /\ u.role \in {dump.seen[n].role, r} /\ u.active \in {dump.seen[n].active, a}
    BY <2>1, <2>2 DEF Mixed, User, Passwords
  <2>4. met = [dump EXCEPT !.seen = [dump.seen EXCEPT ![n] = u]]
    BY <2>1 DEF TypeOK, Dumps
  <2>. QED BY <1>2, <2>3, <2>4
<1>. QED BY <1>1, <1>2

\* If an account is not the last administrator, another one is an administrator.
LEMMA OtherAdmin ==
  ASSUME TypeOK, NEW n \in Names, ~LastAdmin(n), Admins(users) # {}
  PROVE  \E m \in Admins(users) : m # n
<1>1. CASE n \notin Admins(users)
  BY <1>1
<1>2. CASE n \in Admins(users)
  <2>. SUFFICES ASSUME Admins(users) = {n} PROVE FALSE
    BY <1>2
  <2>1. Cardinality(Admins(users)) = 1
    BY FS_Singleton
  <2>. QED BY <1>2, <2>1 DEF LastAdmin
<1>. QED BY <1>1, <1>2

\* Two lists that agree on every name have the same administrators.
LEMMA SameAdmins ==
  ASSUME NEW r, NEW s, \A n \in Names : r[n] = s[n]
  PROVE  Admins(r) = Admins(s)
BY DEF Admins, Present

-----------------------------------------------------------------------------
LEMMA InitType == Init => TypeOK /\ HandlersNamed /\ Walking
<1>. SUFFICES ASSUME Init PROVE TypeOK /\ HandlersNamed /\ Walking
  OBVIOUS
<1>1. PICK saved \in Saved \cup {Nobody} : users = Merge(saved, mode)
  BY DEF Init
<1>2. Nobody \in Registry
  BY DEF Nobody, Registry
<1>3. users \in Registry
  BY <1>1, <1>2, SavedAssumption, MergeSafe DEF Init
<1>. QED BY <1>2, <1>3, IdleType DEF Init, TypeOK, Dumps, HandlersNamed, Walking, NoDump, Idle

\* Every step keeps the types.
LEMMA TypeStep == TypeOK /\ HandlersNamed /\ Walking /\ [Next]_vars => TypeOK'
<1>. SUFFICES ASSUME TypeOK, HandlersNamed, Walking, [Next]_vars PROVE TypeOK'
  OBVIOUS
<1>. USE DEF storeVars, loginVars
<1>1. CASE UNCHANGED vars
  BY <1>1 DEF vars, TypeOK
<1>2. CASE Tick
  BY <1>2 DEF Tick, TypeOK
<1>3. ASSUME NEW t \in Threads, NEW c \in Clients, LoginLimited(t, c) PROVE TypeOK'
  BY <1>3 DEF LoginLimited, LoginBegins, Recent, TypeOK
<1>4. ASSUME NEW t \in Threads, NEW c \in Clients, NEW n \in Names, LoginUnknown(t, c, n)
      PROVE  TypeOK'
  BY <1>4 DEF LoginUnknown, LoginBegins, Recent, TypeOK
<1>5. ASSUME NEW t \in Threads, NEW c \in Clients, NEW n \in Names, LoginKnown(t, c, n)
      PROVE  TypeOK'
  <2>1. [step |-> "verify", no |-> requests + 1, at |-> now,
         name |-> n, client |-> c, good |-> FALSE] \in Handlers
    BY DEF TypeOK, Handlers, Steps
  <2>2. handler' \in [Threads -> Handlers]
    BY <1>5, <2>1 DEF LoginKnown, TypeOK
  <2>. QED BY <1>5, <2>2 DEF LoginKnown, LoginBegins, Recent, TypeOK
<1>6. ASSUME NEW t \in Threads, Verify(t) PROVE TypeOK'
  <2>. DEFINE Turned(good) == [handler[t] EXCEPT !.step = "admit", !.good = good]
  <2>1. \A good \in BOOLEAN : Turned(good) \in Handlers
    <3>1. handler[t] \in Handlers
      BY DEF TypeOK
    <3>. QED BY <3>1 DEF Handlers, Steps
  <2>2. Verifiable(handler[t].name) \in BOOLEAN
    BY <1>6, AccessAssumption DEF Verifiable, HandlersNamed, TypeOK, Registry, User, Present
  <2>3. handler' \in [Threads -> Handlers]
    <3>1. \A good : [handler EXCEPT ![t].step = "admit", ![t].good = good]
                   = [handler EXCEPT ![t] = Turned(good)]
      BY DEF TypeOK, Handlers
    <3>2. \/ \E good \in {FALSE, Verifiable(handler[t].name)} :
               handler' = [handler EXCEPT ![t].step = "admit", ![t].good = good]
          \/ handler' = [handler EXCEPT ![t] = Idle]
      BY <1>6 DEF Verify
    <3>3. handler \in [Threads -> Handlers]
      BY DEF TypeOK
    <3>4. \E h \in Handlers : handler' = [handler EXCEPT ![t] = h]
      <4>. HIDE DEF Turned
      <4>. QED BY <2>1, <2>2, <3>1, <3>2, IdleType
    <3>. QED BY <3>3, <3>4
  <2>. QED BY <1>6, <2>3 DEF Verify, TypeOK
<1>7. ASSUME NEW t \in Threads, Reject(t) PROVE TypeOK'
  <2>1. handler[t] \in Handlers
    BY DEF TypeOK
  <2>2. [no |-> handler[t].no, at |-> handler[t].at] \in [no : Nat, at : Nat]
    BY <2>1 DEF Handlers
  <2>. QED BY <1>7, <2>2, IdleType DEF Reject, TypeOK
<1>8. ASSUME NEW t \in Threads, Admit(t) PROVE TypeOK'
  <2>1. handler[t] \in Handlers /\ handler[t].name \in Names
    BY <1>8 DEF TypeOK, HandlersNamed, Admit
  <2>2. [no |-> handler[t].no, user |-> handler[t].name, at |-> now]
          \in [no : Nat, user : Names, at : Nat]
    BY <2>1 DEF Handlers, TypeOK
  <2>3. sessions' \subseteq [no : Nat, user : Names, at : Nat]
    BY <1>8, <2>2 DEF Admit, Fresh, TypeOK
  <2>4. handler' \in [Threads -> Handlers]
    BY <1>8, IdleType DEF Admit, TypeOK
  <2>5. failures' \in [Clients -> SUBSET [no : Nat, at : Nat]]
    BY <1>8 DEF Admit, TypeOK
  <2>. QED BY <1>8, <2>3, <2>4, <2>5 DEF Admit, TypeOK
<1>9. ASSUME NEW t \in Threads, NEW s \in sessions, Authorise(t, s) PROVE TypeOK'
  <2>1. s.no \in Nat /\ s.user \in Names
    BY DEF TypeOK
  <2>2. [Idle EXCEPT !.step = "authorised", !.no = s.no, !.name = s.user,
                     !.good = users[s.user].role = "Administrator"] \in Handlers
    BY <2>1 DEF Idle, Handlers, Steps
  <2>3. handler' \in [Threads -> Handlers]
    BY <1>9, <2>2 DEF Authorise, TypeOK
  <2>. QED BY <1>9, <2>3 DEF Authorise, TypeOK
<1>10. ASSUME NEW t \in Threads, Logout(t) \/ Decline(t) \/ Save(t) \/ SaveFails(t)
       PROVE  TypeOK'
  <2>1. handler' \in [Threads -> Handlers]
    BY <1>10, IdleType DEF Logout, Decline, Save, SaveFails, TypeOK
  <2>2. CASE Logout(t)
    BY <2>1, <2>2 DEF Logout, TypeOK
  <2>3. CASE Decline(t)
    BY <2>1, <2>3 DEF Decline, TypeOK
  <2>4. CASE Save(t)
    BY <2>1, <2>4 DEF Save, TypeOK
  <2>5. CASE SaveFails(t)
    BY <2>1, <2>5 DEF SaveFails, TypeOK
  <2>. QED BY <1>10, <2>2, <2>3, <2>4, <2>5
<1>11. ASSUME NEW t \in Threads, NEW r \in Registry, Changes(t, r),
              dump' \in Dumps
       PROVE  TypeOK'
  <2>1. handler' \in [Threads -> Handlers]
    BY <1>11, IdleType DEF Changes, Steps, TypeOK
  <2>. QED BY <1>11, <2>1 DEF Changes, TypeOK
<1>12. ASSUME NEW t \in Threads, NEW n \in Names, NEW r \in Roles, NEW a \in BOOLEAN,
              CreateUser(t, n, r, a)
       PROVE  TypeOK'
  <2>1. [users EXCEPT ![n] = [role |-> r, active |-> a, password |-> Given(mode)]] \in Registry
    BY DEF TypeOK, Registry, User, Passwords, Given
  <2>2. dump' \in Dumps
    BY <1>12 DEF CreateUser, Appended, TypeOK, Dumps
  <2>. QED BY <1>11, <1>12, <2>1, <2>2 DEF CreateUser
<1>13. ASSUME NEW n \in Names, NEW r \in Roles, NEW a \in BOOLEAN, NEW p \in BOOLEAN,
              n \in Present(users)
       PROVE  Updated(n, r, a, p) \in Registry
  <2>1. [role |-> r, active |-> a, password |-> IF p THEN "set" ELSE users[n].password] \in User
    BY <1>13, AccessAssumption DEF TypeOK, Registry, User, Passwords, Present
  <2>. QED BY <2>1 DEF Updated, TypeOK, Registry
<1>22. NoDump \in Dumps
  BY DEF NoDump, Dumps, Nobody, Registry
<1>23. ASSUME NEW n \in Names, NEW r \in Roles, NEW a \in BOOLEAN, NEW p \in BOOLEAN,
              NEW met \in Met(n, r, a, p)
       PROVE  met \in Dumps
  <2>1. ASSUME NEW u \in User PROVE [dump EXCEPT !.seen = [dump.seen EXCEPT ![n] = u]] \in Dumps
    <3>1. [dump.seen EXCEPT ![n] = u] \in Registry
      BY DEF TypeOK, Dumps, Registry
    <3>. QED BY <3>1 DEF TypeOK, Dumps
  <2>. QED BY <1>22, <2>1, MetShape DEF TypeOK
<1>14. ASSUME NEW t \in Threads, NEW n \in Names, NEW r \in Roles, NEW a \in BOOLEAN,
              NEW p \in BOOLEAN, UpdateUser(t, n, r, a, p)
       PROVE  TypeOK'
  BY <1>11, <1>13, <1>14, <1>23 DEF UpdateUser, MayUpdate
<1>15. ASSUME NEW t \in Threads, NEW n \in Names, NEW r \in Roles, NEW a \in BOOLEAN,
              UpdateRejected(t, n, r, a)
       PROVE  TypeOK'
  <2>1. handler' \in [Threads -> Handlers]
    BY <1>15, IdleType DEF UpdateRejected, TypeOK
  <2>2. users' \in Registry
    BY <1>13, <1>15 DEF UpdateRejected, MayUpdate
  <2>3. dump' \in Dumps
    <3>1. PICK met \in Met(n, r, a, FALSE) : dump' = [met EXCEPT !.torn = @ \/ met.on]
      BY <1>15 DEF UpdateRejected
    <3>2. met \in Dumps
      BY <1>23
    <3>. QED BY <3>1, <3>2 DEF Dumps
  <2>4. /\ requests' \in Nat /\ ahead' \in BOOLEAN
        /\ UNCHANGED <<now, mode, file, lock, torn, sessions, failures, mishaps>>
    BY <1>15 DEF UpdateRejected, TypeOK
  <2>. QED BY <2>1, <2>2, <2>3, <2>4 DEF TypeOK
<1>16. ASSUME NEW t \in Threads, NEW n \in Names, DeleteUser(t, n) PROVE TypeOK'
  <2>1. [users EXCEPT ![n] = Absent] \in Registry
    BY DEF TypeOK, Registry
  <2>2. dump' \in Dumps
    <3>1. CASE \E skipped \in dump.left :
                 dump' = [dump EXCEPT !.left = @ \ {skipped}, !.torn = TRUE]
      BY <3>1 DEF TypeOK, Dumps
    <3>2. CASE dump' = [dump EXCEPT !.left = @ \ {n}]
      BY <3>2 DEF TypeOK, Dumps
    <3>. QED BY <1>16, <3>1, <3>2 DEF DeleteUser, Removed
  <2>. QED BY <1>11, <1>16, <2>1, <2>2 DEF DeleteUser
<1>17. ASSUME NEW s \in sessions, SessionEnds(s) PROVE TypeOK'
  BY <1>17 DEF SessionEnds, TypeOK
<1>18. CASE DumpBegins
  <2>1. Nobody \in Registry
    BY DEF Nobody, Registry
  <2>. QED BY <1>18, <2>1 DEF DumpBegins, NoDump, Present, TypeOK, Dumps
<1>19. ASSUME NEW n \in Names, DumpReads(n) PROVE TypeOK'
  <2>1. [dump.seen EXCEPT ![n] = users[n]] \in Registry
    BY DEF TypeOK, Dumps, Registry
  <2>2. dump' = [dump EXCEPT !.left = @ \ {n}, !.reading = n,
                             !.seen = [dump.seen EXCEPT ![n] = users[n]]]
    BY <1>19 DEF DumpReads, TypeOK, Dumps
  <2>3. dump' \in Dumps
    BY <2>1, <2>2 DEF TypeOK, Dumps
  <2>. QED BY <1>19, <2>3 DEF DumpReads, TypeOK
<1>20. CASE DumpWrites \/ DumpFails
  <2>1. dump' \in Dumps
    BY <1>20, <1>22 DEF DumpWrites, DumpFails
  <2>2. CASE DumpWrites
    BY <2>1, <2>2 DEF DumpWrites, TypeOK, Dumps
  <2>3. CASE DumpFails
    BY <2>1, <2>3 DEF DumpFails, TypeOK
  <2>. QED BY <1>20, <2>2, <2>3
<1>21. ASSUME NEW m \in Modes, Restart(m) PROVE TypeOK'
  <2>1. Merge(file, m) \in Registry
    BY MergeSafe DEF TypeOK
  <2>2. handler' \in [Threads -> Handlers]
    BY <1>21, IdleType DEF Restart
  <2>3. dump' \in Dumps
    BY <1>21, <1>22 DEF Restart
  <2>4. /\ mode' \in Modes /\ users' \in Registry /\ file' \in Registry
        /\ torn' \in [memory : BOOLEAN, file : BOOLEAN] /\ lock' = None /\ ahead' = FALSE
    BY <1>21, <2>1 DEF Restart, TypeOK
  <2>5. /\ sessions' = {} /\ failures' \in [Clients -> SUBSET [no : Nat, at : Nat]]
        /\ mishaps' \in Nat /\ UNCHANGED <<now, requests>>
    BY <1>21 DEF Restart, TypeOK
  <2>. QED BY <2>2, <2>3, <2>4, <2>5 DEF TypeOK
<1>. QED BY <1>1, <1>2, <1>3, <1>4, <1>5, <1>6, <1>7, <1>8, <1>9, <1>10, <1>12, <1>14, <1>15,
            <1>16, <1>17, <1>18, <1>19, <1>20, <1>21
     DEF Next, Request, Login, Administer, Dump

\* A login is about a name and a client until it ends.
LEMMA NamedStep == TypeOK /\ HandlersNamed /\ [Next]_vars => HandlersNamed'
<1>. SUFFICES ASSUME TypeOK, HandlersNamed, [Next]_vars PROVE HandlersNamed'
  OBVIOUS
<1>. USE DEF storeVars, loginVars
<1>1. CASE UNCHANGED handler
  BY <1>1 DEF HandlersNamed
<1>2. ASSUME NEW t \in Threads, NEW h, handler' = [handler EXCEPT ![t] = h],
             h.step \in {"verify", "admit"} => h.name \in Names /\ h.client \in Clients
      PROVE  HandlersNamed'
  BY <1>2 DEF HandlersNamed, TypeOK
<1>3. Idle.step = "idle" /\ [Idle EXCEPT !.step = "save"].step = "save"
  BY DEF Idle
<1>4. ASSUME NEW t \in Threads, NEW c \in Clients, NEW n \in Names, LoginKnown(t, c, n)
      PROVE  HandlersNamed'
  BY <1>2, <1>4 DEF LoginKnown
<1>5. ASSUME NEW t \in Threads, Verify(t) PROVE HandlersNamed'
  <2>1. handler[t].name \in Names /\ handler[t].client \in Clients /\ handler[t] \in Handlers
    BY <1>5 DEF Verify, HandlersNamed, TypeOK
  <2>2. \A good \in BOOLEAN :
          /\ [handler[t] EXCEPT !.step = "admit", !.good = good].name = handler[t].name
          /\ [handler[t] EXCEPT !.step = "admit", !.good = good].client = handler[t].client
    BY <2>1 DEF Handlers
  <2>3. Verifiable(handler[t].name) \in BOOLEAN
    BY <2>1, AccessAssumption DEF Verifiable, TypeOK, Registry, User, Present
  <2>4. CASE handler' = [handler EXCEPT ![t] = Idle]
    BY <1>2, <1>3, <2>4
  <2>5. ASSUME NEW good \in BOOLEAN,
               handler' = [handler EXCEPT ![t] = [handler[t] EXCEPT !.step = "admit", !.good = good]]
        PROVE  HandlersNamed'
    BY <1>2, <2>1, <2>2, <2>5
  <2>6. \/ handler' = [handler EXCEPT ![t] = Idle]
        \/ \E good \in BOOLEAN :
             handler' = [handler EXCEPT ![t] = [handler[t] EXCEPT !.step = "admit", !.good = good]]
    <3>1. \A good : [handler EXCEPT ![t].step = "admit", ![t].good = good]
                   = [handler EXCEPT ![t] = [handler[t] EXCEPT !.step = "admit", !.good = good]]
      BY <2>1 DEF TypeOK, Handlers
    <3>. QED BY <1>5, <2>3, <3>1 DEF Verify
  <2>. QED BY <2>4, <2>5, <2>6
<1>6. ASSUME NEW t \in Threads, NEW s \in sessions, Authorise(t, s) PROVE HandlersNamed'
  <2>. DEFINE h == [Idle EXCEPT !.step = "authorised", !.no = s.no, !.name = s.user,
                                !.good = users[s.user].role = "Administrator"]
  <2>1. h.step = "authorised"
    BY DEF Idle
  <2>2. handler' = [handler EXCEPT ![t] = h]
    BY <1>6 DEF Authorise
  <2>. HIDE DEF h
  <2>. QED BY <1>2, <2>1, <2>2
<1>7. ASSUME NEW t \in Threads, NEW s, handler' = [handler EXCEPT ![t] = s],
             s = Idle \/ s = [Idle EXCEPT !.step = "save"]
      PROVE  HandlersNamed'
  BY <1>2, <1>3, <1>7
<1>8. ASSUME NEW t \in Threads,
             Reject(t) \/ Admit(t) \/ Logout(t) \/ Decline(t) \/ Administer(t) \/ Save(t) \/ SaveFails(t)
      PROVE  HandlersNamed'
  <2>1. \/ handler' = [handler EXCEPT ![t] = Idle]
        \/ handler' = [handler EXCEPT ![t] = [Idle EXCEPT !.step = "save"]]
    <3>1. CASE Administer(t)
      BY <3>1, AdministerStep
    <3>2. CASE ~Administer(t)
      BY <1>8, <3>2 DEF Reject, Admit, Logout, Decline, Save, SaveFails
    <3>. QED BY <3>1, <3>2
  <2>. QED BY <1>7, <2>1
<1>9. ASSUME NEW m \in Modes, Restart(m) PROVE HandlersNamed'
  BY <1>3, <1>9 DEF Restart, HandlersNamed
<1>. QED BY <1>1, <1>4, <1>5, <1>6, <1>8, <1>9
     DEF Next, Request, Login, Dump, Tick, LoginLimited, LoginUnknown, SessionEnds, DumpBegins,
         DumpReads, DumpWrites, DumpFails, vars

\* A walk goes on to users who are there, and has a record of each it was at.
LEMMA WalkStep == TypeOK /\ Walking /\ [Next]_vars => Walking'
<1>. SUFFICES ASSUME TypeOK, Walking, [Next]_vars PROVE Walking'
  OBVIOUS
<1>1. ASSUME UNCHANGED <<users, dump>> PROVE Walking'
  BY <1>1 DEF Walking, Present
<1>2. ASSUME dump' = NoDump PROVE Walking'
  BY <1>2 DEF Walking, NoDump
<1>3. ASSUME NEW t \in Threads, NEW n \in Names, NEW r \in Roles, NEW a \in BOOLEAN,
             CreateUser(t, n, r, a)
      PROVE  Walking'
  <2>. DEFINE u == [role |-> r, active |-> a, password |-> Given(mode)]
  <2>1. u # Absent
    <3>1. u \in User
      BY DEF User, Passwords, Given
    <3>. QED BY <3>1, AccessAssumption
  <2>2. users' = [users EXCEPT ![n] = u]
    BY <1>3 DEF CreateUser, Changes
  <2>. HIDE DEF u
  <2>3. Present(users)' = Present(users) \cup {n}
    BY <2>1, <2>2 DEF Present, TypeOK, Registry
  <2>4. dump'.reading = dump.reading /\ dump'.seen = dump.seen /\ dump'.left \subseteq dump.left \cup {n}
    BY <1>3 DEF CreateUser, Appended, TypeOK, Dumps
  <2>. QED BY <2>3, <2>4 DEF Walking
<1>4. ASSUME NEW n \in Names, NEW r \in Roles, NEW a \in BOOLEAN, NEW p \in BOOLEAN,
             MayUpdate(n, r, a), users' = Updated(n, r, a, p), NEW met \in Met(n, r, a, p),
             dump'.left = met.left, dump'.reading = met.reading, dump'.seen = met.seen
      PROVE  Walking'
  <2>. DEFINE v == [role |-> r, active |-> a, password |-> IF p THEN "set" ELSE users[n].password]
  <2>1. v \in User
    BY <1>4, AccessAssumption DEF MayUpdate, TypeOK, Registry, User, Passwords, Present
  <2>2. v # Absent /\ users' = [users EXCEPT ![n] = v]
    BY <1>4, <2>1, AccessAssumption DEF Updated
  <2>. HIDE DEF v
  <2>3. Present(users)' = Present(users)
    BY <1>4, <2>2 DEF Present, MayUpdate, TypeOK, Registry
  <2>4. CASE met = NoDump
    BY <1>4, <2>4 DEF NoDump, Walking
  <2>5. CASE met = dump
    BY <1>4, <2>3, <2>5 DEF Walking
  <2>6. ASSUME NEW u \in User, met = [dump EXCEPT !.seen = [dump.seen EXCEPT ![n] = u]]
        PROVE  Walking'
    <3>1. dump'.left = dump.left /\ dump'.reading = dump.reading
          /\ dump'.seen = [dump.seen EXCEPT ![n] = u] /\ u # Absent
      BY <1>4, <2>6, AccessAssumption DEF TypeOK, Dumps
    <3>2. dump'.reading # None => dump'.seen[dump'.reading] # Absent
      BY <3>1 DEF Walking, TypeOK, Dumps, Registry
    <3>. QED BY <2>3, <3>1, <3>2 DEF Walking
  <2>. QED BY <2>4, <2>5, <2>6, MetShape
<1>5. ASSUME NEW t \in Threads, NEW n \in Names, NEW r \in Roles, NEW a \in BOOLEAN,
             NEW p \in BOOLEAN, UpdateUser(t, n, r, a, p)
      PROVE  Walking'
  BY <1>4, <1>5 DEF UpdateUser, Changes
<1>6. ASSUME NEW t \in Threads, NEW n \in Names, NEW r \in Roles, NEW a \in BOOLEAN,
             UpdateRejected(t, n, r, a)
      PROVE  Walking'
  <2>1. PICK met \in Met(n, r, a, FALSE) : dump' = [met EXCEPT !.torn = @ \/ met.on]
    BY <1>6 DEF UpdateRejected
  <2>2. dump'.left = met.left /\ dump'.reading = met.reading /\ dump'.seen = met.seen
    BY <2>1, MetShape DEF TypeOK, Dumps, NoDump
  <2>. QED BY <1>4, <1>6, <2>2 DEF UpdateRejected
<1>7. ASSUME NEW t \in Threads, NEW n \in Names, DeleteUser(t, n) PROVE Walking'
  <2>1. users' = [users EXCEPT ![n] = Absent]
    BY <1>7 DEF DeleteUser, Changes
  <2>2. Present(users)' = Present(users) \ {n}
    BY <2>1 DEF Present, TypeOK, Registry
  <2>3. dump'.reading = dump.reading /\ dump'.seen = dump.seen /\ dump'.left \subseteq dump.left \ {n}
    <3>1. CASE \E skipped \in dump.left :
                 dump' = [dump EXCEPT !.left = @ \ {skipped}, !.torn = TRUE] /\ n \notin dump.left
      BY <3>1 DEF TypeOK, Dumps
    <3>2. CASE dump' = [dump EXCEPT !.left = @ \ {n}]
      BY <3>2 DEF TypeOK, Dumps
    <3>. QED BY <1>7, <3>1, <3>2 DEF DeleteUser, Removed
  <2>. QED BY <2>2, <2>3 DEF Walking
<1>8. CASE DumpBegins
  BY <1>8 DEF DumpBegins, NoDump, Walking, Present
<1>9. ASSUME NEW n \in Names, DumpReads(n) PROVE Walking'
  <2>1. /\ n \in dump.left /\ dump'.left = dump.left \ {n} /\ dump'.reading = n
        /\ dump'.seen[n] = users[n] /\ users' = users
    BY <1>9 DEF DumpReads, TypeOK, Dumps, Registry
  <2>. QED BY <2>1 DEF Walking, Present
<1>10. DumpWrites \/ DumpFails => dump' = NoDump
  BY DEF DumpWrites, DumpFails
<1>11. ASSUME NEW m \in Modes, Restart(m) PROVE dump' = NoDump
  BY <1>11 DEF Restart
<1>12. ASSUME NEW t \in Threads, Login(t) \/ Verify(t) \/ Reject(t) \/ Admit(t) \/ Logout(t)
                                \/ Decline(t) \/ Save(t) \/ SaveFails(t)
       PROVE  UNCHANGED <<users, dump>>
  BY <1>12 DEF Login, LoginLimited, LoginUnknown, LoginKnown, LoginBegins, Verify, Reject, Admit,
               Logout, Decline, Save, SaveFails, storeVars
<1>13. ASSUME NEW s \in sessions, NEW t \in Threads, Authorise(t, s)
       PROVE  UNCHANGED <<users, dump>>
  BY <1>13 DEF Authorise, storeVars
<1>14. ASSUME NEW s \in sessions, SessionEnds(s) PROVE UNCHANGED <<users, dump>>
  BY <1>14 DEF SessionEnds, storeVars
<1>15. Tick \/ UNCHANGED vars => UNCHANGED <<users, dump>>
  BY DEF Tick, vars, storeVars
<1>. QED BY <1>1, <1>2, <1>3, <1>5, <1>6, <1>7, <1>8, <1>9, <1>10, <1>11, <1>12, <1>13, <1>14,
            <1>15
     DEF Next, Request, Administer, Dump

\* Every variable of access control keeps its type.
THEOREM TypeCorrect == Spec => []TypeOK
<1>1. TypeOK /\ HandlersNamed /\ Walking /\ [Next]_vars => (TypeOK /\ HandlersNamed /\ Walking)'
  BY TypeStep, NamedStep, WalkStep
<1>. QED BY <1>1, InitType, PTL DEF Spec

-----------------------------------------------------------------------------
\* A first start has an administrator in memory and on disk.
LEMMA InitStore == Init => StoreInv
<1>. SUFFICES ASSUME Init PROVE StoreInv
  OBVIOUS
<1>1. PICK saved \in Saved \cup {Nobody} : users = Merge(saved, mode)
  BY DEF Init
<1>2. Nobody \in Registry /\ Present(Nobody) = {}
  BY DEF Nobody, Registry, Present
<1>3. Admins(users) # {}
  BY <1>1, <1>2, SavedAssumption, MergeSafe DEF Init
<1>. QED BY <1>3 DEF Init, StoreInv, AdminRemains, AdminInFile, FileCurrent, DumpHonest, NoDump

\* One change of one name by a thread that keeps the lock: a walk that is not
\* torn will have the list before the change or the one after it.
LEMMA ChangeSafe ==
  ASSUME TypeOK, StoreInv, NEW t \in Threads, NEW n \in Names,
         dump'.left \subseteq Names, lock = None, lock' = t, UNCHANGED <<file, ahead, torn>>,
         \A m \in Names : m # n => users'[m] = users[m],
         Admins(users) # {} => Admins(users') # {},
         dump'.on => dump.on,
         dump'.on /\ ~dump'.torn =>
           /\ ~dump.torn /\ dump'.seen = dump.seen
           /\ \A m \in Names : m # n => (m \in dump'.left <=> m \in dump.left)
           /\ n \in dump'.left => n \in dump.left \/ users[n] = Absent
           /\ n \in dump.left /\ n \notin dump'.left => users'[n] = Absent,
         torn.memory /\ dump'.on => dump'.torn
  PROVE  StoreInv'
<1>1. AdminRemains' /\ AdminInFile'
  BY DEF StoreInv, AdminRemains, AdminInFile, Admins, Present
<1>2. FileCurrent'
  BY AccessAssumption DEF FileCurrent
<1>3. ASSUME dump'.on, ~dump'.torn
      PROVE  Admins(Result') # {} /\ \A m \in dump'.left : dump'.seen[m] = Absent
  <2>1. dump.on /\ ~dump.torn /\ ~torn.memory
    BY <1>3
  <2>2. \A m \in Names : Result[m] = users[m]
    BY <2>1 DEF StoreInv, DumpHonest
  <2>3. Admins(users) # {} /\ Admins(users') # {}
    BY <2>1 DEF StoreInv, AdminRemains
  <2>4. \A m \in dump.left : dump.seen[m] = Absent
    BY <2>1 DEF StoreInv, DumpHonest
  <2>5. \A m \in Names : m # n => Result'[m] = users'[m] /\ Result'[m] = users[m]
    BY <1>3, <2>2 DEF Result
  <2>6. Result'[n] = users'[n] \/ Result'[n] = users[n]
    BY <1>3, <2>2, <2>4 DEF Result
  <2>9. \A m \in dump'.left : dump'.seen[m] = Absent
    BY <1>3, <2>2, <2>4 DEF Result
  <2>7. CASE Result'[n] = users'[n]
    <3>1. \A m \in Names : Result'[m] = users'[m]
      BY <2>5, <2>7
    <3>2. Admins(Result') = Admins(users')
      BY <3>1, SameAdmins
    <3>. QED BY <2>3, <2>9, <3>2
  <2>8. CASE Result'[n] = users[n]
    <3>1. \A m \in Names : Result'[m] = users[m]
      BY <2>5, <2>8
    <3>2. Admins(Result') = Admins(users)
      BY <3>1, SameAdmins
    <3>. QED BY <2>3, <2>9, <3>2
  <2>. QED BY <2>6, <2>7, <2>8, <2>9
<1>4. DumpHonest'
  BY <1>3, AccessAssumption DEF DumpHonest
<1>. QED BY <1>1, <1>2, <1>4 DEF StoreInv

\* Every step keeps an administrator and the file in step with memory.
LEMMA StoreStep == TypeOK /\ Walking /\ StoreInv /\ [Next]_vars => StoreInv'
<1>. SUFFICES ASSUME TypeOK, Walking, StoreInv, [Next]_vars PROVE StoreInv'
  OBVIOUS
<1>1. CASE UNCHANGED storeVars
  BY <1>1 DEF storeVars, StoreInv, AdminRemains, AdminInFile, FileCurrent, DumpHonest, Result,
              Admins, Present
<1>2. ASSUME NEW t \in Threads, NEW n \in Names, NEW r \in Roles, NEW a \in BOOLEAN,
             CreateUser(t, n, r, a)
      PROVE  StoreInv'
  <2>. DEFINE u == [role |-> r, active |-> a, password |-> Given(mode)]
  <2>0. u \in User /\ u # Absent
    <3>1. u \in User
      BY DEF User, Passwords, Given
    <3>. QED BY <3>1, AccessAssumption
  <2>1. users' = [users EXCEPT ![n] = u] /\ n \notin Present(users)
    BY <1>2 DEF CreateUser, Changes
  <2>2. /\ \A m \in Names : m # n => users'[m] = users[m]
        /\ users[n] = Absent
    BY <2>1 DEF TypeOK, Registry, Present
  <2>3. Admins(users) # {} => Admins(users') # {}
    BY <2>2 DEF Admins, Present
  <2>4. lock = None /\ lock' = t /\ UNCHANGED <<file, ahead, torn>>
    BY <1>2 DEF CreateUser, MayAdminister, Changes
  <2>5. /\ UNCHANGED <<dump.on, dump.seen, dump.torn>>
        /\ dump'.left \subseteq Names
        /\ dump.on => dump'.left \in {dump.left, dump.left \cup {n}}
    BY <1>2 DEF CreateUser, Appended, TypeOK, Dumps
  <2>. QED BY <2>2, <2>3, <2>4, <2>5, ChangeSafe DEF StoreInv, DumpHonest
<1>3. ASSUME NEW t \in Threads, NEW n \in Names, NEW r \in Roles, NEW a \in BOOLEAN,
             NEW p \in BOOLEAN, MayUpdate(n, r, a), users' = Updated(n, r, a, p)
      PROVE  /\ \A m \in Names : m # n => users'[m] = users[m]
             /\ Admins(users) # {} => Admins(users') # {}
  <2>. DEFINE u == [role |-> r, active |-> a, password |-> IF p THEN "set" ELSE users[n].password]
  <2>1. users'[n] = u /\ \A m \in Names : m # n => users'[m] = users[m]
    BY <1>3 DEF Updated, TypeOK, Registry
  <2>2. u \in User
    BY <1>3, AccessAssumption DEF MayUpdate, Present, TypeOK, Registry, User, Passwords
  <2>3. u # Absent /\ u.role = r /\ u.active = a
    BY <2>2, AccessAssumption
  <2>. HIDE DEF u
  <2>4. ASSUME Admins(users) # {} PROVE Admins(users') # {}
    <3>1. CASE r = "Administrator" /\ a
      BY <2>1, <2>3, <3>1 DEF Admins, Present
    <3>2. CASE ~LastAdmin(n)
      BY <2>1, <2>4, <3>2, OtherAdmin DEF Admins, Present
    <3>. QED BY <1>3, <3>1, <3>2 DEF MayUpdate
  <2>. QED BY <2>1, <2>4
<1>4. ASSUME NEW t \in Threads, NEW n \in Names, NEW r \in Roles, NEW a \in BOOLEAN,
             NEW p \in BOOLEAN, UpdateUser(t, n, r, a, p)
      PROVE  StoreInv'
  <2>1. MayUpdate(n, r, a) /\ users' = Updated(n, r, a, p) /\ dump' \in Met(n, r, a, p)
    BY <1>4 DEF UpdateUser, Changes
  <2>2. lock = None /\ lock' = t /\ UNCHANGED <<file, ahead, torn>>
    BY <1>4 DEF UpdateUser, MayAdminister, Changes
  <2>3. CASE dump' = dump
    <3>1. dump'.left \subseteq Names
      BY <2>3 DEF TypeOK, Dumps
    <3>. QED BY <1>3, <2>1, <2>2, <2>3, <3>1, ChangeSafe DEF StoreInv, DumpHonest
  <2>4. CASE dump' = NoDump
    <3>1. dump'.left \subseteq Names /\ ~dump'.on
      BY <2>4 DEF NoDump
    <3>. QED BY <1>3, <2>1, <2>2, <3>1, ChangeSafe DEF StoreInv, DumpHonest
  <2>5. ASSUME dump.reading = n, NEW u \in User,
               u.role \in {dump.seen[n].role, r}, u.active \in {dump.seen[n].active, a},
               dump' = [dump EXCEPT !.seen = [dump.seen EXCEPT ![n] = u]]
        PROVE  StoreInv'
    <3>1. /\ UNCHANGED <<dump.on, dump.left, dump.torn>> /\ dump'.seen[n] = u
          /\ \A m \in Names : m # n => dump'.seen[m] = dump.seen[m]
      BY <2>5 DEF TypeOK, Dumps, Registry
    <3>2. AdminRemains' /\ AdminInFile'
      BY <1>3, <2>1, <2>2 DEF StoreInv, AdminRemains, AdminInFile, Admins, Present
    <3>3. FileCurrent'
      BY <2>2, AccessAssumption DEF FileCurrent
    <3>4. ASSUME dump.on, ~dump.torn
          PROVE  Admins(Result') # {} /\ \A m \in dump'.left : dump'.seen[m] = Absent
      <4>1. ~torn.memory /\ \A m \in Names : Result[m] = users[m]
        BY <2>2, <3>4 DEF StoreInv, DumpHonest
      <4>2. n \notin dump.left
        <5>1. n # None
          BY AccessAssumption
        <5>2. dump.seen[n] # Absent
          BY <2>5, <5>1 DEF Walking
        <5>. QED BY <3>4, <5>2 DEF StoreInv, DumpHonest
      <4>3. dump.seen[n] = users[n] /\ Result'[n] = u
            /\ \A m \in Names : m # n => Result'[m] = users[m]
        <5>1. \A m \in Names : m # n => users'[m] = users[m]
          BY <1>3, <2>1
        <5>. QED BY <3>1, <4>1, <4>2, <5>1 DEF Result
      <4>4. CASE u.role = "Administrator" /\ u.active
        <5>1. n \in Admins(Result')
          BY <4>3, <4>4, AccessAssumption DEF Admins, Present
        <5>. QED BY <3>1, <3>4, <4>2, <5>1 DEF StoreInv, DumpHonest, TypeOK, Dumps
      <4>5. CASE ~(u.role = "Administrator" /\ u.active)
        <5>1. Admins(users) # {}
          BY <4>1 DEF StoreInv, AdminRemains
        <5>2. ~(r = "Administrator" /\ a) \/ n \notin Admins(users)
          BY <2>5, <4>3, <4>5 DEF Admins
        <5>3. ~LastAdmin(n)
          BY <2>1, <5>2 DEF MayUpdate, LastAdmin
        <5>4. PICK m \in Admins(users) : m # n
          BY <5>1, <5>3, OtherAdmin
        <5>5. m \in Admins(Result')
          BY <4>3, <5>4 DEF Admins, Present
        <5>. QED BY <3>1, <3>4, <4>2, <5>5 DEF StoreInv, DumpHonest, TypeOK, Dumps
      <4>. QED BY <4>4, <4>5
    <3>5. DumpHonest'
      BY <2>2, <3>1, <3>4, AccessAssumption DEF StoreInv, DumpHonest
    <3>. QED BY <3>2, <3>3, <3>5 DEF StoreInv
  <2>. QED BY <2>1, <2>3, <2>4, <2>5, MetShape
<1>5. ASSUME NEW t \in Threads, NEW n \in Names, NEW r \in Roles, NEW a \in BOOLEAN,
             UpdateRejected(t, n, r, a)
      PROVE  StoreInv'
  <2>1. Admins(users) # {} => Admins(users') # {}
    BY <1>3, <1>5 DEF UpdateRejected
  <2>2. AdminRemains' /\ AdminInFile'
    BY <1>5, <2>1 DEF UpdateRejected, StoreInv, AdminRemains, AdminInFile, Admins, Present
  <2>3. ahead' /\ UNCHANGED torn
    BY <1>5 DEF UpdateRejected
  <2>4. FileCurrent'
    BY <2>3 DEF FileCurrent
  <2>5. dump'.on => dump'.torn
    <3>1. PICK met \in Met(n, r, a, FALSE) : dump' = [met EXCEPT !.torn = @ \/ met.on]
      BY <1>5 DEF UpdateRejected
    <3>2. dump'.on = met.on /\ dump'.torn = (met.torn \/ met.on)
      BY <3>1, MetShape DEF TypeOK, Dumps, NoDump
    <3>. QED BY <3>2
  <2>6. DumpHonest'
    BY <2>3, <2>5 DEF DumpHonest
  <2>. QED BY <2>2, <2>4, <2>6 DEF StoreInv
<1>6. ASSUME NEW t \in Threads, NEW n \in Names, DeleteUser(t, n) PROVE StoreInv'
  <2>1. users' = [users EXCEPT ![n] = Absent] /\ ~LastAdmin(n)
    BY <1>6 DEF DeleteUser, Changes
  <2>2. users'[n] = Absent /\ \A m \in Names : m # n => users'[m] = users[m]
    BY <2>1 DEF TypeOK, Registry
  <2>3. Admins(users) # {} => Admins(users') # {}
    BY <2>1, <2>2, OtherAdmin DEF Admins, Present
  <2>4. lock = None /\ lock' = t /\ UNCHANGED <<file, ahead, torn>>
    BY <1>6 DEF DeleteUser, MayAdminister, Changes
  <2>5. /\ UNCHANGED <<dump.on, dump.seen>> /\ dump'.left \subseteq Names
        /\ dump.torn => dump'.torn
        /\ ~dump'.torn => ~dump.torn /\ dump'.left = dump.left \ {n}
    <3>1. CASE \E skipped \in dump.left :
                 dump' = [dump EXCEPT !.left = @ \ {skipped}, !.torn = TRUE]
      BY <3>1 DEF TypeOK, Dumps
    <3>2. CASE dump' = [dump EXCEPT !.left = @ \ {n}]
      BY <3>2 DEF TypeOK, Dumps
    <3>. QED BY <1>6, <3>1, <3>2 DEF DeleteUser, Removed
  <2>. QED BY <2>2, <2>3, <2>4, <2>5, ChangeSafe DEF StoreInv, DumpHonest
<1>7. ASSUME NEW t \in Threads, Save(t) \/ SaveFails(t) PROVE StoreInv'
  <2>1. ~dump.on /\ dump' = dump /\ users' = users
    BY <1>7 DEF Save, SaveFails
  <2>2. CASE Save(t)
    BY <2>1, <2>2 DEF Save, StoreInv, AdminRemains, AdminInFile, FileCurrent, DumpHonest, TypeOK,
                      Admins, Present
  <2>3. CASE SaveFails(t)
    BY <2>1, <2>3 DEF SaveFails, StoreInv, AdminRemains, AdminInFile, FileCurrent, DumpHonest,
                      Admins, Present
  <2>. QED BY <1>7, <2>2, <2>3
<1>8. CASE DumpBegins
  <2>1. /\ ~dump.on /\ dump'.on /\ dump'.left = Present(users) /\ dump'.seen = Nobody
        /\ dump'.torn = torn.memory /\ UNCHANGED <<users, file, lock, ahead, torn>>
    BY <1>8 DEF DumpBegins, NoDump
  <2>2. \A n \in Names : Result'[n] = users[n] /\ Nobody[n] = Absent
    BY <2>1 DEF Result, Nobody, Present
  <2>3. Admins(Result') = Admins(users)
    BY <2>2, SameAdmins
  <2>4. DumpHonest'
    BY <2>1, <2>2, <2>3 DEF DumpHonest, StoreInv, AdminRemains, Admins, Present
  <2>. QED BY <2>1, <2>4 DEF StoreInv, AdminRemains, AdminInFile, FileCurrent, Admins, Present
<1>9. ASSUME NEW n \in Names, DumpReads(n) PROVE StoreInv'
  <2>1. /\ dump.on /\ n \in dump.left /\ dump'.on /\ dump'.left = dump.left \ {n}
        /\ dump'.seen[n] = users[n] /\ \A m \in Names : m # n => dump'.seen[m] = dump.seen[m]
        /\ dump'.torn = dump.torn /\ UNCHANGED <<users, file, lock, ahead, torn>>
    BY <1>9 DEF DumpReads, TypeOK, Dumps, Registry
  <2>2. \A m \in Names : Result'[m] = Result[m]
    BY <2>1 DEF Result
  <2>3. Admins(Result') = Admins(Result)
    BY <2>2, SameAdmins
  <2>4. \A m \in dump'.left : m \in Names /\ m # n /\ m \in dump.left
    BY <2>1 DEF TypeOK, Dumps
  <2>5. DumpHonest'
    BY <2>1, <2>2, <2>3, <2>4 DEF DumpHonest, StoreInv, Admins, Present
  <2>. QED BY <2>1, <2>5 DEF StoreInv, AdminRemains, AdminInFile, FileCurrent, Admins, Present
<1>10. CASE DumpWrites
  <2>1. /\ dump.on /\ dump.left = {} /\ file' = dump.seen /\ ~dump'.on
        /\ torn'.memory = torn.memory /\ torn'.file = dump.torn /\ UNCHANGED <<users, lock, ahead>>
    BY <1>10 DEF DumpWrites, NoDump, TypeOK
  <2>2. \A n \in Names : Result[n] = dump.seen[n]
    BY <2>1 DEF Result
  <2>3. Admins(Result) = Admins(dump.seen)
    BY <2>2, SameAdmins
  <2>4. AdminInFile'
    BY <2>1, <2>3 DEF AdminInFile, StoreInv, DumpHonest, Admins, Present
  <2>5. ASSUME lock = None, ~ahead PROVE file' = users
    <3>1. \A n \in Names : dump.seen[n] = users[n]
      BY <2>1, <2>2, <2>5 DEF StoreInv, DumpHonest
    <3>. QED BY <2>1, <3>1 DEF TypeOK, Dumps, Registry
  <2>6. AdminRemains' /\ FileCurrent' /\ DumpHonest'
    BY <2>1, <2>5 DEF AdminRemains, FileCurrent, DumpHonest, StoreInv, Admins, Present
  <2>. QED BY <2>4, <2>6 DEF StoreInv
<1>11. CASE DumpFails
  <2>1. ~dump'.on /\ UNCHANGED <<users, file, lock, ahead, torn>> /\ dump.on
    BY <1>11 DEF DumpFails, NoDump
  <2>. QED BY <2>1 DEF StoreInv, AdminRemains, AdminInFile, FileCurrent, DumpHonest, Admins, Present
<1>12. ASSUME NEW m \in Modes, Restart(m) PROVE StoreInv'
  <2>1. /\ users' = Merge(file, m) /\ file' = users' /\ ~dump'.on
        /\ torn'.memory = torn.file /\ torn'.file = torn.file
    BY <1>12 DEF Restart, NoDump
  <2>2. Admins(file) # {} => Admins(Merge(file, m)) # {}
    BY MergeSafe DEF TypeOK
  <2>. QED BY <2>1, <2>2
       DEF StoreInv, AdminRemains, AdminInFile, FileCurrent, DumpHonest, Admins, Present
<1>13. ASSUME NEW t \in Threads,
              Login(t) \/ Verify(t) \/ Reject(t) \/ Admit(t) \/ Logout(t) \/ Decline(t)
       PROVE  UNCHANGED storeVars
  BY <1>13 DEF Login, LoginLimited, LoginUnknown, LoginKnown, LoginBegins, Verify, Reject, Admit,
               Logout, Decline, storeVars
<1>14. ASSUME NEW s \in sessions, NEW t \in Threads, SessionEnds(s) \/ Authorise(t, s)
       PROVE  UNCHANGED storeVars
  BY <1>14 DEF SessionEnds, Authorise, storeVars
<1>15. ASSUME NEW s \in sessions, SessionEnds(s) PROVE UNCHANGED storeVars
  BY <1>15 DEF SessionEnds, storeVars
<1>16. Tick \/ UNCHANGED vars => UNCHANGED storeVars
  BY DEF Tick, vars, storeVars
<1>. QED BY <1>1, <1>2, <1>4, <1>5, <1>6, <1>7, <1>8, <1>9, <1>10, <1>11, <1>12, <1>13, <1>14,
            <1>15, <1>16
     DEF Next, Request, Administer, Dump

\* TypeOK, the names of logins and the invariant of the store, together.
LEMMA StoreCorrect == Spec => [](TypeOK /\ HandlersNamed /\ Walking /\ StoreInv)
<1>1. Init => TypeOK /\ HandlersNamed /\ Walking /\ StoreInv
  BY InitType, InitStore
<1>2. TypeOK /\ HandlersNamed /\ Walking /\ StoreInv /\ [Next]_vars
        => (TypeOK /\ HandlersNamed /\ Walking /\ StoreInv)'
  BY TypeStep, NamedStep, WalkStep, StoreStep
<1>. QED BY <1>1, <1>2, PTL DEF Spec

\* However administrators change each other, fail and restart, one is left in
\* memory, unless the process started from a torn list.
THEOREM AdminRemainsCorrect == Spec => []AdminRemains
<1>1. StoreInv => AdminRemains
  BY DEF StoreInv
<1>. QED BY <1>1, StoreCorrect, PTL

\* A start from the file, whenever the process dies, has an administrator who
\* can log in; the exceptions are those AdminOnDisk names: a torn list, and in
\* local mode an administrator with no password or with half of an old one.
THEOREM AdminOnDiskCorrect == Spec => []AdminOnDisk
<1>1. TypeOK /\ StoreInv => AdminOnDisk
  <2>. SUFFICES ASSUME TypeOK, StoreInv, ~torn.file, NEW m \in Modes
                PROVE  \/ CanLogIn(Merge(file, m), m) # {}
                       \/ m = "local" /\ \E n \in Admins(file) :
                            \/ file[n].password = "none"
                            \/ file[n].password = "torn"
                               /\ (lock # None \/ ahead \/ users[n] = file[n])
    BY DEF AdminOnDisk
  <2>1. PICK n \in Admins(file) : TRUE
    BY DEF StoreInv, AdminInFile
  <2>2. n \in Present(file) /\ file[n].password \in Passwords
    BY <2>1 DEF Admins, Present, TypeOK, Registry, User
  <2>3. CASE Merge(file, m) = file /\ (m = "local" => file[n].password = "set")
    BY <2>1, <2>3 DEF CanLogIn
  <2>4. CASE m = "local" /\ file[n].password = "none"
    BY <2>1, <2>4
  <2>5. CASE m = "local" /\ file[n].password = "torn"
    BY <2>1, <2>5 DEF StoreInv, FileCurrent
  <2>6. CASE Merge(file, m) # file /\ file[n].password = "set"
    BY <2>2, <2>6 DEF Merge
  <2>7. CASE Merge(file, m) # file /\ m # "local"
    BY <2>2, <2>7 DEF Merge
  <2>. QED BY <2>2, <2>3, <2>4, <2>5, <2>6, <2>7 DEF Passwords
<1>. QED BY <1>1, StoreCorrect, PTL

\* No save puts back an older list: the file is what memory is whenever no
\* request is about to save and none failed.
THEOREM FileCurrentCorrect == Spec => []FileCurrent
<1>1. StoreInv => FileCurrent
  BY DEF StoreInv
<1>. QED BY <1>1, StoreCorrect, PTL

-----------------------------------------------------------------------------
\* An account has one session, also if two logins verify at once.
THEOREM OneSessionCorrect == Spec => []OneSession
<1>1. Init => OneSession
  BY DEF Init, OneSession
<1>2. OneSession /\ [Next]_vars => OneSession'
  <2>. SUFFICES ASSUME OneSession, [Next]_vars PROVE OneSession'
    OBVIOUS
  <2>1. CASE sessions' \subseteq sessions
    BY <2>1 DEF OneSession
  <2>2. ASSUME NEW t \in Threads, Admit(t) PROVE OneSession'
    <3>. DEFINE new == [no |-> handler[t].no, user |-> handler[t].name, at |-> now]
    <3>1. Fresh \subseteq sessions
      BY DEF Fresh
    <3>2. CASE sessions' = Fresh
      BY <3>1, <3>2 DEF OneSession
    <3>3. CASE sessions' = Fresh \cup {new} /\ ~\E s \in Fresh : s.user = handler[t].name
      <4>1. new.user = handler[t].name
        OBVIOUS
      <4>. HIDE DEF new
      <4>. QED BY <3>1, <3>3, <4>1 DEF OneSession
    <3>. QED BY <2>2, <3>2, <3>3 DEF Admit
  <2>3. ASSUME NEW t \in Threads,
               Login(t) \/ Verify(t) \/ Reject(t) \/ Logout(t) \/ Decline(t) \/ Administer(t)
               \/ Save(t) \/ SaveFails(t)
        PROVE  sessions' \subseteq sessions
    <3>1. CASE Login(t)
      BY <3>1 DEF Login, LoginLimited, LoginUnknown, LoginKnown, LoginBegins
    <3>2. CASE Administer(t)
      BY <3>2, AdministerStep
    <3>3. CASE Verify(t) \/ Reject(t) \/ Logout(t) \/ Decline(t) \/ Save(t) \/ SaveFails(t)
      BY <3>3 DEF Verify, Reject, Logout, Decline, Save, SaveFails, loginVars
    <3>. QED BY <2>3, <3>1, <3>2, <3>3
  <2>4. ASSUME NEW s \in sessions, NEW t \in Threads, Authorise(t, s)
        PROVE  sessions' \subseteq sessions
    BY <2>4 DEF Authorise, loginVars
  <2>5. ASSUME NEW s \in sessions, SessionEnds(s) PROVE sessions' \subseteq sessions
    BY <2>5 DEF SessionEnds
  <2>6. Tick \/ Dump \/ UNCHANGED vars => sessions' \subseteq sessions
    BY DEF Tick, Dump, DumpBegins, DumpReads, DumpWrites, DumpFails, loginVars, vars
  <2>7. ASSUME NEW m \in Modes, Restart(m) PROVE sessions' \subseteq sessions
    BY <2>7 DEF Restart
  <2>. QED BY <2>1, <2>2, <2>3, <2>4, <2>5, <2>6, <2>7 DEF Next, Request
<1>. QED BY <1>1, <1>2, PTL DEF Spec

-----------------------------------------------------------------------------
\* Who looks at a password may still add a failure.
LEMMA PendingFinite ==
  ASSUME NEW c \in Clients
  PROVE  /\ IsFiniteSet(Pending(c)) /\ Cardinality(Pending(c)) \in Nat
         /\ Cardinality(Pending(c)) <= Cardinality(Threads)
         /\ Cardinality(Threads) \in Nat
<1>1. Pending(c) \subseteq Threads
  BY DEF Pending
<1>. QED BY <1>1, AccessAssumption, FS_Subset, FS_CardinalityType

\* Fewer failures and fewer logins keep the bound.
LEMMA Fewer ==
  ASSUME Attempts, NEW c \in Clients, failures'[c] \subseteq failures[c], Pending(c)' \subseteq Pending(c)
  PROVE  /\ IsFiniteSet(failures'[c])
         /\ Cardinality(failures'[c]) + Cardinality(Pending(c)') <= MaxAttempts - 1 + Cardinality(Threads)
<1>1. /\ IsFiniteSet(failures'[c]) /\ Cardinality(failures'[c]) <= Cardinality(failures[c])
      /\ Cardinality(failures'[c]) \in Nat /\ Cardinality(failures[c]) \in Nat
  BY FS_Subset, FS_CardinalityType DEF Attempts
<1>2. /\ Cardinality(Pending(c)') <= Cardinality(Pending(c))
      /\ Cardinality(Pending(c)') \in Nat /\ Cardinality(Pending(c)) \in Nat
  BY PendingFinite, FS_Subset, FS_CardinalityType
<1>3. Cardinality(failures[c]) + Cardinality(Pending(c)) <= MaxAttempts - 1 + Cardinality(Threads)
  BY DEF Attempts
<1>. QED BY <1>1, <1>2, <1>3, PendingFinite, AccessAssumption

\* Every step keeps the bound on attempts.
LEMMA AttemptsStep == TypeOK /\ HandlersNamed /\ Attempts /\ [Next]_vars => Attempts'
<1>. SUFFICES ASSUME TypeOK, HandlersNamed, Attempts, [Next]_vars PROVE Attempts'
  OBVIOUS
<1>1. ASSUME \A c \in Clients : failures'[c] \subseteq failures[c] /\ Pending(c)' \subseteq Pending(c)
      PROVE  Attempts'
  BY <1>1, Fewer DEF Attempts
<1>2. ASSUME NEW t \in Threads, NEW h, handler' = [handler EXCEPT ![t] = h],
             h.step \notin {"verify", "admit"}
      PROVE  /\ \A c \in Clients : Pending(c)' \subseteq Pending(c)
             /\ \A c \in Clients : t \notin Pending(c)'
  BY <1>2 DEF Pending, TypeOK
<1>3. Idle.step = "idle" /\ [Idle EXCEPT !.step = "save"].step = "save"
  BY DEF Idle
<1>4. UNCHANGED handler => \A c \in Clients : Pending(c)' = Pending(c)
  BY DEF Pending
<1>5. \A c \in Clients : Recent(c) \subseteq failures[c]
  BY DEF Recent
<1>6. ASSUME NEW t \in Threads, NEW c \in Clients, LoginLimited(t, c) PROVE Attempts'
  <2>1. UNCHANGED handler /\ failures' = [failures EXCEPT ![c] = Recent(c)]
    BY <1>6 DEF LoginLimited
  <2>. QED BY <1>1, <1>4, <1>5, <2>1 DEF TypeOK
<1>7. ASSUME NEW t \in Threads, NEW c \in Clients, NEW n \in Names, LoginUnknown(t, c, n)
      PROVE  Attempts'
  <2>. DEFINE f == [no |-> requests + 1, at |-> now]
  <2>1. /\ handler[t] = Idle /\ UNCHANGED handler
        /\ failures' = [failures EXCEPT ![c] = Recent(c) \cup {f}]
    BY <1>7 DEF LoginUnknown, LoginBegins
  <2>2. ~(Cardinality(Recent(c)) >= MaxAttempts)
    BY <1>7 DEF LoginUnknown, Limited
  <2>3. IsFiniteSet(Recent(c)) /\ Cardinality(Recent(c)) \in Nat
    BY <1>5, FS_Subset, FS_CardinalityType DEF Attempts
  <2>4. /\ IsFiniteSet(Recent(c) \cup {f}) /\ Cardinality(Recent(c) \cup {f}) <= MaxAttempts
        /\ Cardinality(Recent(c) \cup {f}) \in Nat
    <3>. HIDE DEF f
    <3>1. /\ IsFiniteSet(Recent(c) \cup {f})
          /\ Cardinality(Recent(c) \cup {f}) \in {Cardinality(Recent(c)), Cardinality(Recent(c)) + 1}
      BY <2>3, FS_AddElement
    <3>. QED BY <2>2, <2>3, <3>1, AccessAssumption
  <2>5. Cardinality(Pending(c)) <= Cardinality(Threads) - 1
    <3>1. Pending(c) \subseteq Threads \ {t}
      BY <1>3, <2>1 DEF Pending
    <3>2. /\ IsFiniteSet(Threads \ {t}) /\ Cardinality(Threads \ {t}) = Cardinality(Threads) - 1
      BY FS_RemoveElement, AccessAssumption
    <3>. QED BY <3>1, <3>2, FS_Subset
  <2>6. failures'[c] = Recent(c) \cup {f}
    BY <2>1 DEF TypeOK
  <2>7. Pending(c)' = Pending(c)
    BY <1>4, <2>1
  <2>8. /\ IsFiniteSet(failures'[c])
        /\ Cardinality(failures'[c]) + Cardinality(Pending(c)') <= MaxAttempts - 1 + Cardinality(Threads)
    <3>. HIDE DEF f
    <3>. QED BY <2>4, <2>5, <2>6, <2>7, PendingFinite, AccessAssumption
  <2>9. \A d \in Clients : d # c => failures'[d] = failures[d] /\ Pending(d)' = Pending(d)
    BY <1>4, <2>1 DEF TypeOK
  <2>. QED BY <2>8, <2>9 DEF Attempts
<1>8. ASSUME NEW t \in Threads, NEW c \in Clients, NEW n \in Names, LoginKnown(t, c, n)
      PROVE  Attempts'
  <2>1. /\ handler[t] = Idle
        /\ failures' = [failures EXCEPT ![c] = Recent(c)]
        /\ ~(Cardinality(Recent(c)) >= MaxAttempts)
    BY <1>8 DEF LoginKnown, LoginBegins, Limited
  <2>2. IsFiniteSet(Recent(c)) /\ Cardinality(Recent(c)) \in Nat
    BY <1>5, FS_Subset, FS_CardinalityType DEF Attempts
  <2>3. failures'[c] = Recent(c) /\ \A d \in Clients : d # c => failures'[d] = failures[d]
    BY <2>1 DEF TypeOK
  <2>4. \A d \in Clients : d # c => Pending(d)' \subseteq Pending(d)
    <3>. DEFINE h == [step |-> "verify", no |-> requests + 1, at |-> now,
                      name |-> n, client |-> c, good |-> FALSE]
    <3>1. h.client = c /\ handler' = [handler EXCEPT ![t] = h]
      BY <1>8 DEF LoginKnown
    <3>. HIDE DEF h
    <3>. QED BY <3>1 DEF Pending, TypeOK
  <2>5. IsFiniteSet(Pending(c)') /\ Cardinality(Pending(c)') \in Nat
        /\ Cardinality(Pending(c)') <= Cardinality(Threads)
    <3>1. Pending(c)' \subseteq Threads
      BY DEF Pending
    <3>. QED BY <3>1, AccessAssumption, FS_Subset, FS_CardinalityType
  <2>6. Cardinality(failures'[c]) + Cardinality(Pending(c)') <= MaxAttempts - 1 + Cardinality(Threads)
    BY <2>1, <2>2, <2>3, <2>5, PendingFinite, AccessAssumption
  <2>7. \A d \in Clients : d # c => failures'[d] \subseteq failures[d]
    BY <2>3
  <2>. QED BY <2>2, <2>3, <2>4, <2>6, <2>7, Fewer DEF Attempts
<1>9. ASSUME NEW t \in Threads, Verify(t) PROVE Attempts'
  <2>1. /\ handler[t].step = "verify" /\ failures' = failures /\ handler[t] \in Handlers
        /\ \/ handler' = [handler EXCEPT ![t] = Idle]
           \/ \E good : handler' = [handler EXCEPT ![t].step = "admit", ![t].good = good]
    BY <1>9 DEF Verify, loginVars, TypeOK
  <2>2. handler'[t].step \in {"verify", "admit"} => handler'[t].client = handler[t].client
    BY <1>3, <2>1 DEF TypeOK, Handlers
  <2>3. \A u \in Threads : u # t => handler'[u] = handler[u]
    BY <2>1 DEF TypeOK
  <2>4. \A c \in Clients : Pending(c)' \subseteq Pending(c)
    BY <2>1, <2>2, <2>3 DEF Pending
  <2>. QED BY <1>1, <2>1, <2>4
<1>10. ASSUME NEW t \in Threads, Reject(t) PROVE Attempts'
  <2>0. PICK c \in Clients : c = handler[t].client
    BY <1>10 DEF Reject, HandlersNamed
  <2>. DEFINE f == [no |-> handler[t].no, at |-> handler[t].at]
  <2>1. /\ handler[t].step = "admit" /\ c \in Clients
        /\ failures' = [failures EXCEPT ![c] = failures[c] \cup {f}]
        /\ handler' = [handler EXCEPT ![t] = Idle]
    BY <1>10, <2>0 DEF Reject, TypeOK
  <2>2. /\ \A d \in Clients : Pending(d)' \subseteq Pending(d)
        /\ t \notin Pending(c)' /\ t \in Pending(c)
    BY <1>2, <1>3, <2>0, <2>1 DEF Pending
  <2>3. /\ failures'[c] = failures[c] \cup {f}
        /\ \A d \in Clients : d # c => failures'[d] = failures[d]
    BY <2>1 DEF TypeOK
  <2>. HIDE DEF f
  <2>4. /\ IsFiniteSet(failures[c]) /\ Cardinality(failures[c]) \in Nat
        /\ Cardinality(failures[c]) + Cardinality(Pending(c)) <= MaxAttempts - 1 + Cardinality(Threads)
    BY <2>1, FS_CardinalityType DEF Attempts
  <2>5. /\ IsFiniteSet(failures'[c]) /\ Cardinality(failures'[c]) \in Nat
        /\ Cardinality(failures'[c]) <= Cardinality(failures[c]) + 1
    <3>1. /\ IsFiniteSet(failures[c] \cup {f})
          /\ Cardinality(failures[c] \cup {f}) \in {Cardinality(failures[c]), Cardinality(failures[c]) + 1}
      BY <2>4, FS_AddElement
    <3>. QED BY <2>3, <2>4, <3>1
  <2>6. /\ Cardinality(Pending(c)') <= Cardinality(Pending(c)) - 1
        /\ Cardinality(Pending(c)') \in Nat /\ Cardinality(Pending(c)) \in Nat
    <3>1. Pending(c)' \subseteq Pending(c) \ {t}
      BY <2>1, <2>2
    <3>2. IsFiniteSet(Pending(c))
      BY <2>1, PendingFinite
    <3>3. /\ IsFiniteSet(Pending(c) \ {t})
          /\ Cardinality(Pending(c) \ {t}) = Cardinality(Pending(c)) - 1
      BY <2>2, <3>2, FS_RemoveElement
    <3>. QED BY <3>1, <3>2, <3>3, FS_Subset, FS_CardinalityType
  <2>7. Cardinality(failures'[c]) + Cardinality(Pending(c)') <= MaxAttempts - 1 + Cardinality(Threads)
    BY <2>1, <2>4, <2>5, <2>6, PendingFinite, AccessAssumption
  <2>. QED BY <2>1, <2>2, <2>3, <2>5, <2>7, Fewer DEF Attempts
<1>11. ASSUME NEW t \in Threads, Admit(t) PROVE Attempts'
  <2>1. /\ failures' = [failures EXCEPT ![handler[t].client] = {}]
        /\ handler' = [handler EXCEPT ![t] = Idle]
    BY <1>11 DEF Admit
  <2>2. \A c \in Clients : failures'[c] \subseteq failures[c]
    BY <2>1 DEF TypeOK
  <2>. QED BY <1>1, <1>2, <1>3, <2>1, <2>2
<1>12. ASSUME NEW t \in Threads, NEW s \in sessions, Authorise(t, s) PROVE Attempts'
  <2>. DEFINE h == [Idle EXCEPT !.step = "authorised", !.no = s.no, !.name = s.user,
                                !.good = users[s.user].role = "Administrator"]
  <2>1. h.step = "authorised" /\ handler' = [handler EXCEPT ![t] = h] /\ failures' = failures
    BY <1>12 DEF Authorise, Idle, loginVars
  <2>. HIDE DEF h
  <2>. QED BY <1>1, <1>2, <2>1
<1>13. ASSUME NEW t \in Threads,
              Logout(t) \/ Decline(t) \/ Administer(t) \/ Save(t) \/ SaveFails(t)
       PROVE  Attempts'
  <2>1. /\ failures' = failures
        /\ \/ handler' = [handler EXCEPT ![t] = Idle]
           \/ handler' = [handler EXCEPT ![t] = [Idle EXCEPT !.step = "save"]]
    <3>1. CASE Administer(t)
      BY <3>1, AdministerStep
    <3>2. CASE ~Administer(t)
      BY <1>13, <3>2 DEF Logout, Decline, Save, SaveFails, loginVars
    <3>. QED BY <3>1, <3>2
  <2>. QED BY <1>1, <1>2, <1>3, <2>1
<1>14. ASSUME UNCHANGED <<failures, handler>> PROVE Attempts'
  BY <1>1, <1>4, <1>14
<1>15. Tick \/ Dump \/ UNCHANGED vars => UNCHANGED <<failures, handler>>
  BY DEF Tick, Dump, DumpBegins, DumpReads, DumpWrites, DumpFails, loginVars, vars
<1>16. ASSUME NEW s \in sessions, SessionEnds(s) PROVE UNCHANGED <<failures, handler>>
  BY <1>16 DEF SessionEnds
<1>17. ASSUME NEW m \in Modes, Restart(m) PROVE Attempts'
  <2>1. \A c \in Clients : failures'[c] = {} /\ Pending(c)' = {}
    BY <1>3, <1>17 DEF Restart, Pending
  <2>. QED BY <1>1, <2>1
<1>. QED BY <1>6, <1>7, <1>8, <1>9, <1>10, <1>11, <1>12, <1>13, <1>14, <1>15, <1>16, <1>17
     DEF Next, Request, Login

\* A client never has more failures than the limit and one for each further
\* thread that looked at it in the same moment.
THEOREM RateBoundedCorrect == Spec => []RateBounded
<1>1. Init => Attempts
  <2>. SUFFICES ASSUME Init, NEW c \in Clients
                PROVE  /\ IsFiniteSet(failures[c])
                       /\ Cardinality(failures[c]) + Cardinality(Pending(c))
                             <= MaxAttempts - 1 + Cardinality(Threads)
    BY DEF Attempts
  <2>1. failures[c] = {} /\ Pending(c) = {}
    BY DEF Init, Pending, Idle
  <2>. QED BY <2>1, FS_EmptySet, PendingFinite, AccessAssumption
<1>2. Attempts => RateBounded
  <2>. SUFFICES ASSUME Attempts, NEW c \in Clients
                PROVE  Cardinality(failures[c]) <= MaxAttempts - 1 + Cardinality(Threads)
    BY DEF RateBounded
  <2>1. Cardinality(failures[c]) \in Nat
    BY FS_CardinalityType DEF Attempts
  <2>. QED BY <2>1, PendingFinite, AccessAssumption DEF Attempts
<1>3. TypeOK /\ HandlersNamed /\ Walking /\ [Next]_vars => (TypeOK /\ HandlersNamed /\ Walking)'
  BY TypeStep, NamedStep, WalkStep
<1>. QED BY <1>1, <1>2, <1>3, InitType, AttemptsStep, PTL DEF Spec

-----------------------------------------------------------------------------
(***************************************************************************)
(* PanelSettings: what the file has of the settings, which agent runs and  *)
(* what the heartbeat waits with.                                          *)
(***************************************************************************)

\* The steps of a request that stops the agent and starts it again.
AgentSteps == {"close", "join", "forget", "check", "look", "clear", "launch"}
Unfinished == {"call", "save", "undo"}
Sections == {"snmp", "service", "layout"}

AgentThreads == [step : {"none", "started", "running", "ended"}, snmp : Snmp \cup {Nothing}]

\* What a request of a may be doing: the event loop has the service settings,
\* threads the rest; who saves has taken the SNMP settings with it.
Fits(a, h) ==
  \/ h = NoRequest
  \/ h.op = "service" /\ h.step = "save" /\ a = Loop /\ h.snmp \in Snmp
  \/ /\ h.op = "layout" /\ h.step \in Unfinished /\ a \in Workers
     /\ h.before \in Layouts
     /\ h.step = "save" => h.snmp \in Snmp
  \/ h.op = "snmp" /\ h.step \in AgentSteps \cup {"save"} /\ a \in Workers /\ h.snmp \in Snmp
RequestsFit == \A a \in Actors : Fits(a, caller[a])

\* A section is in the file unless its last change failed to be saved, or a
\* request that changed it has not saved it or put it back.
SectionFollows(s) ==
  s \notin unsaved /\ (\A a \in Actors : caller[a].op = s => caller[a].step \notin Unfinished)
    => stored[s] = memory[s]
SectionsFollow == \A s \in Sections : SectionFollows(s)

\* Nobody restarts the agent: it runs, or is about to read the settings, and
\* nothing stops it; or SNMP is disabled.
Serves ==
  IF memory.snmp = Off
  THEN \A i \in Ids : ~Alive(i)
  ELSE /\ ~stop /\ Alive(tracked)
       /\ agents[tracked].step = "running" => agents[tracked].snmp = memory.snmp

\* Where the request that restarts the agent is.
Restarts(a) ==
  /\ caller[a].snmp = memory.snmp
  /\ At(a, "join") => tracked # 0 /\ caller[a].agent = tracked
  /\ At(a, "forget") => tracked # 0
  /\ caller[a].step \in {"forget", "check", "look", "clear", "launch"} => \A i \in Ids : ~Alive(i)
  /\ caller[a].step \in {"check", "look", "clear", "launch"} => memory.snmp # Off
  /\ At(a, "launch") => ~stop

OneAgent == \A i \in Ids : Alive(i) => i = tracked
OneRestarts == \A a, b \in Actors : Restarting(a) /\ Restarting(b) => a = b
AgentInv ==
  ~apart =>
    /\ OneAgent
    /\ OneRestarts
    /\ \A a \in Actors : Restarting(a) => Restarts(a)
    /\ (\A a \in Actors : ~Restarting(a)) => Serves

-----------------------------------------------------------------------------
LEMMA NoRequestType ==
  /\ NoRequest \in SettingsHandlers
  /\ \A a : Fits(a, NoRequest)
  /\ NoRequest.op = "none" /\ NoRequest.step = "idle"
  /\ NoAgent \in AgentThreads
  /\ NoAgent.step = "none"
<1>1. NoRequest \in SettingsHandlers
  BY SettingsAssumption DEF NoRequest, SettingsHandlers
<1>2. \A a : Fits(a, NoRequest)
  BY DEF Fits
<1>3. NoRequest.op = "none" /\ NoRequest.step = "idle"
  BY DEF NoRequest
<1>. QED BY <1>1, <1>2, <1>3 DEF NoAgent, AgentThreads

\* A request changes what its own thread is doing to something that fits.
LEMMA CallerSet ==
  ASSUME SettingsTypeOK, RequestsFit, NEW a \in Actors, NEW h \in SettingsHandlers,
         Fits(a, h), caller' = [caller EXCEPT ![a] = h]
  PROVE  caller' \in [Actors -> SettingsHandlers] /\ RequestsFit'
<1>1. \A b \in Actors : caller'[b] = IF b = a THEN h ELSE caller[b]
  BY DEF SettingsTypeOK
<1>2. \A b \in Actors : Fits(b, caller'[b])
  BY <1>1 DEF RequestsFit
<1>. QED BY <1>2 DEF SettingsTypeOK, RequestsFit, Fits

\* A set of numbers that is not empty has a smallest one.
LEMMA Smallest ==
  ASSUME NEW T \in SUBSET Nat, T # {}
  PROVE  \E j \in T : \A k \in T : j <= k
<1>1. \E j \in T : \A k \in T : ~(<<k, j>> \in OpToRel(<, Nat))
  BY NatLessThanWellFounded, WFMin
<1>2. \E j \in T : \A k \in T : ~(k < j)
  BY <1>1 DEF OpToRel
<1>. QED BY <1>2

LEMMA SmallestUnused ==
  ASSUME Unused # {}
  PROVE  (CHOOSE j \in Unused : \A k \in Unused : j <= k) \in Unused
<1>1. Unused \subseteq Nat
  BY SettingsAssumption DEF Unused, Ids
<1>. QED BY <1>1, Smallest

\* A step of a request that closes or starts the agent is of one of the threads,
\* and changes neither the settings nor the heartbeat.
RestartStep(a) ==
  Close(a) \/ Join(a) \/ Forget(a) \/ CheckEnabled(a) \/ Look(a) \/ Clear(a) \/ Launch(a)
Later(a, h) ==
  /\ caller' = [caller EXCEPT ![a] = h]
  /\ Fits(a, h)
  /\ \/ h = NoRequest
     \/ h.op = "snmp" /\ h.step \in AgentSteps /\ h.snmp = caller[a].snmp
Moves(a) == \E h \in SettingsHandlers : Later(a, h)

LEMMA EndsLater == ASSUME NEW a \in Actors, Ends(a) PROVE Moves(a)
BY NoRequestType DEF Moves, Later, Ends

LEMMA GoesLater ==
  ASSUME SettingsTypeOK, RequestsFit, NEW a \in Actors, caller[a].step \in AgentSteps,
         NEW step \in AgentSteps, Goes(a, step)
  PROVE  Moves(a)
<1>. DEFINE h == [caller[a] EXCEPT !.step = step]
<1>1. caller[a] \in SettingsHandlers /\ Fits(a, caller[a])
  BY DEF SettingsTypeOK, RequestsFit
<1>2. caller[a].op = "snmp" /\ a \in Workers /\ caller[a].snmp \in Snmp
  BY <1>1, NoRequestType DEF Fits, AgentSteps, Unfinished
<1>3. h \in SettingsHandlers /\ h.op = "snmp" /\ h.step = step /\ h.snmp = caller[a].snmp
  BY <1>1, <1>2 DEF SettingsHandlers, AgentSteps
<1>4. Fits(a, h)
  BY <1>2, <1>3 DEF Fits
<1>5. caller' = [caller EXCEPT ![a] = h]
  BY DEF Goes, SettingsTypeOK
<1>. QED BY <1>3, <1>4, <1>5 DEF Moves, Later

LEMMA RestartFrame ==
  ASSUME SettingsTypeOK, RequestsFit, NEW a \in Actors, RestartStep(a)
  PROVE  /\ Restarting(a) /\ a \in Workers /\ caller[a].step \in AgentSteps
         /\ UNCHANGED <<saveVars, beatVars>>
         /\ Moves(a)
<1>1. caller[a] \in SettingsHandlers /\ Fits(a, caller[a])
  BY DEF SettingsTypeOK, RequestsFit
<1>2. caller[a].step \in AgentSteps
  BY DEF RestartStep, Close, Join, Forget, CheckEnabled, Look, Clear, Launch, At, AgentSteps
<1>3. Restarting(a) /\ a \in Workers
  BY <1>1, <1>2, NoRequestType DEF Fits, AgentSteps, Unfinished, Restarting
<1>4. UNCHANGED <<saveVars, beatVars>>
  BY DEF RestartStep, Close, Join, Forget, CheckEnabled, Look, Clear, Launch
<1>. SUFFICES Moves(a)
  BY <1>2, <1>3, <1>4
<1>5. \A step \in AgentSteps : Goes(a, step) => Moves(a)
  BY <1>2, GoesLater
<1>6. Ends(a) => Moves(a)
  BY EndsLater
<1>7. AfterClose(a) => Moves(a)
  BY <1>5, <1>6 DEF AfterClose, AgentSteps
<1>8. CASE Close(a) /\ tracked # 0
  <2>. DEFINE h == [caller[a] EXCEPT !.step = "join", !.agent = tracked]
  <2>1. h \in SettingsHandlers /\ h.op = "snmp" /\ h.step = "join" /\ h.snmp = caller[a].snmp
    BY <1>1, <1>3 DEF SettingsHandlers, SettingsTypeOK, Restarting
  <2>2. Fits(a, h)
    BY <1>1, <1>2, <1>3, <2>1, NoRequestType DEF Fits, AgentSteps, Restarting
  <2>3. caller' = [caller EXCEPT ![a] = h]
    BY <1>8 DEF Close, SettingsTypeOK
  <2>4. Later(a, h)
    BY <2>1, <2>2, <2>3 DEF Later, AgentSteps
  <2>. QED BY <2>1, <2>4 DEF Moves
<1>9. CASE Close(a) /\ tracked = 0
  BY <1>7, <1>9 DEF Close
<1>10. CASE Join(a) \/ Forget(a) \/ CheckEnabled(a)
  BY <1>5, <1>6, <1>7, <1>10 DEF Join, Forget, CheckEnabled, AgentSteps
<1>11. CASE Look(a) \/ Clear(a) \/ Launch(a)
  BY <1>5, <1>6, <1>11 DEF Look, Clear, Launch, AgentSteps
<1>. QED BY <1>8, <1>9, <1>10, <1>11 DEF RestartStep

\* A request that saves, or fails to: it ends, restarts the agent or puts the
\* layout back.
LEMMA RequestSaves ==
  ASSUME SettingsTypeOK, RequestsFit, NEW a \in Actors, SaveSettings(a) \/ SaveSettingsFails(a)
  PROVE  /\ caller[a].op \in Sections /\ caller[a].snmp \in Snmp
         /\ caller[a].op = "service" => a = Loop
         /\ \/ Ends(a) /\ (caller[a].op = "snmp" => SaveSettingsFails(a))
            \/ caller[a].op = "snmp" /\ Goes(a, "close") /\ SaveSettings(a)
            \/ caller[a].op = "layout" /\ Goes(a, "undo") /\ SaveSettingsFails(a)
         /\ caller' \in [Actors -> SettingsHandlers] /\ RequestsFit'
<1>1. caller[a] \in SettingsHandlers /\ Fits(a, caller[a]) /\ caller[a].step = "save"
  BY DEF SettingsTypeOK, RequestsFit, SaveSettings, SaveSettingsFails, At
<1>2. /\ caller[a].op \in Sections /\ caller[a].snmp \in Snmp
      /\ caller[a].op = "service" => a = Loop
  BY <1>1, NoRequestType DEF Fits, Sections
<1>3. \/ Ends(a) /\ (caller[a].op = "snmp" => SaveSettingsFails(a))
      \/ caller[a].op = "snmp" /\ Goes(a, "close") /\ SaveSettings(a)
      \/ caller[a].op = "layout" /\ Goes(a, "undo") /\ SaveSettingsFails(a)
  <2>1. CASE SaveSettings(a)
    BY <1>2, <2>1 DEF SaveSettings, Sections
  <2>2. CASE SaveSettingsFails(a)
    BY <1>2, <2>2 DEF SaveSettingsFails, Sections
  <2>. QED BY <2>1, <2>2
<1>4. CASE Ends(a)
  <2>1. caller' \in [Actors -> SettingsHandlers] /\ RequestsFit'
    BY <1>4, NoRequestType, CallerSet DEF Ends
  <2>. QED BY <1>2, <1>3, <2>1
<1>5. ASSUME NEW step \in {"close", "undo"}, Goes(a, step),
             caller[a].op = IF step = "close" THEN "snmp" ELSE "layout"
      PROVE  caller' \in [Actors -> SettingsHandlers] /\ RequestsFit'
  <2>. DEFINE h == [caller[a] EXCEPT !.step = step]
  <2>1. h \in SettingsHandlers
    BY <1>1 DEF SettingsHandlers
  <2>2. Fits(a, h)
    BY <1>1, <1>5, NoRequestType DEF Fits, Unfinished, AgentSteps, SettingsHandlers
  <2>3. caller' = [caller EXCEPT ![a] = h]
    BY <1>5 DEF Goes, SettingsTypeOK
  <2>. QED BY <2>1, <2>2, <2>3, CallerSet
<1>. QED BY <1>2, <1>3, <1>4, <1>5

-----------------------------------------------------------------------------
LEMMA SettingsInitInv ==
  SettingsInit => SettingsTypeOK /\ RequestsFit /\ SectionsFollow /\ HeartbeatCurrent /\ AgentInv
<1>. SUFFICES ASSUME SettingsInit
     PROVE  SettingsTypeOK /\ RequestsFit /\ SectionsFollow /\ HeartbeatCurrent /\ AgentInv
  OBVIOUS
<1>. USE DEF SettingsInit
<1>1. SettingsTypeOK
  <2>1. \A i \in Ids : agents[i] \in AgentThreads
    BY NoRequestType DEF NoAgent, AgentThreads
  <2>2. agents \in [Ids -> AgentThreads]
    BY <2>1
  <2>3. caller \in [Actors -> SettingsHandlers]
    BY NoRequestType
  <2>4. tracked \in 0..MaxAgents
    BY SettingsAssumption
  <2>. QED BY <2>2, <2>3, <2>4 DEF SettingsTypeOK, Settings, AgentThreads
<1>2. RequestsFit
  BY NoRequestType DEF RequestsFit
<1>3. SectionsFollow
  BY DEF SectionsFollow, SectionFollows
<1>4. HeartbeatCurrent
  BY DEF HeartbeatCurrent
<1>5. AgentInv
  <2>1. \A a \in Actors : ~Restarting(a)
    BY NoRequestType DEF Restarting
  <2>2. 1 \in Ids
    BY SettingsAssumption DEF Ids
  <2>3. \A i \in Ids : agents[i].step = IF i = 1 /\ memory.snmp # Off THEN "started" ELSE "none"
    BY NoRequestType DEF NoAgent
  <2>4. \A i \in Ids : Alive(i) <=> i = 1 /\ memory.snmp # Off
    BY <2>3 DEF Alive
  <2>5. OneAgent
    BY <2>4 DEF OneAgent
  <2>6. Serves
    <3>1. CASE memory.snmp = Off
      BY <2>4, <3>1 DEF Serves
    <3>2. CASE memory.snmp # Off
      <4>1. ~stop /\ tracked = 1
        BY <3>2
      <4>2. Alive(tracked) /\ agents[tracked].step = "started"
        BY <2>2, <2>3, <2>4, <3>2, <4>1
      <4>. QED BY <3>2, <4>1, <4>2 DEF Serves
    <3>. QED BY <3>1, <3>2
  <2>. QED BY <2>1, <2>5, <2>6 DEF AgentInv, OneRestarts
<1>. QED BY <1>1, <1>2, <1>3, <1>4, <1>5

\* Every step keeps the types and lets every request fit.
LEMMA SettingsTypeStep ==
  SettingsTypeOK /\ RequestsFit /\ [SettingsNext]_settingsVars => SettingsTypeOK' /\ RequestsFit'
<1>. SUFFICES ASSUME SettingsTypeOK, RequestsFit, [SettingsNext]_settingsVars
     PROVE  SettingsTypeOK' /\ RequestsFit'
  OBVIOUS
<1>. USE DEF saveVars, agentVars, beatVars
<1>. DEFINE callerOK == caller' \in [Actors -> SettingsHandlers] /\ RequestsFit'
<1>0. \A a \in Actors : caller[a] \in SettingsHandlers /\ Fits(a, caller[a])
  BY DEF SettingsTypeOK, RequestsFit
<1>1. CASE UNCHANGED settingsVars
  BY <1>1 DEF settingsVars, SettingsTypeOK, RequestsFit
<1>2. ASSUME NEW a \in Actors, NEW s \in Snmp, PostSnmp(a, s) PROVE SettingsTypeOK' /\ RequestsFit'
  <2>. DEFINE h == [NoRequest EXCEPT !.step = "save", !.op = "snmp", !.snmp = s]
  <2>1. h \in SettingsHandlers /\ Fits(a, h)
    BY <1>2, NoRequestType DEF PostSnmp, Fits, SettingsHandlers
  <2>2. callerOK
    BY <1>2, <2>1, CallerSet DEF PostSnmp
  <2>3. memory' \in Settings
    BY <1>2 DEF PostSnmp, SettingsTypeOK, Settings
  <2>. QED BY <1>2, <2>2, <2>3 DEF PostSnmp, Begins, SettingsTypeOK
<1>3. ASSUME NEW s \in Intervals, PutService(s) PROVE SettingsTypeOK' /\ RequestsFit'
  <2>. DEFINE h == [NoRequest EXCEPT !.step = "save", !.op = "service", !.snmp = memory.snmp]
  <2>1. h \in SettingsHandlers /\ Fits(Loop, h) /\ Loop \in Actors
    BY NoRequestType DEF Fits, SettingsHandlers, SettingsTypeOK, Settings, Actors
  <2>2. callerOK
    BY <1>3, <2>1, CallerSet DEF PutService
  <2>3. memory' \in Settings
    BY <1>3 DEF PutService, SettingsTypeOK, Settings
  <2>. QED BY <1>3, <2>1, <2>2, <2>3 DEF PutService, Begins, SettingsTypeOK
<1>4. ASSUME NEW a \in Actors, NEW l \in Layouts, PutLayout(a, l)
      PROVE  SettingsTypeOK' /\ RequestsFit'
  <2>. DEFINE h == [NoRequest EXCEPT !.step = "call", !.op = "layout", !.before = memory.layout]
  <2>1. h \in SettingsHandlers /\ Fits(a, h)
    BY <1>4, NoRequestType DEF PutLayout, Fits, SettingsHandlers, SettingsTypeOK, Settings, Unfinished
  <2>2. callerOK
    BY <1>4, <2>1, CallerSet DEF PutLayout
  <2>3. memory' \in Settings
    BY <1>4 DEF PutLayout, SettingsTypeOK, Settings
  <2>. QED BY <1>4, <2>2, <2>3 DEF PutLayout, Begins, SettingsTypeOK
<1>5. ASSUME NEW a \in Actors, Call(a) PROVE SettingsTypeOK' /\ RequestsFit'
  <2>. DEFINE h == [caller[a] EXCEPT !.step = "save", !.snmp = memory.snmp]
  <2>1. h \in SettingsHandlers
    <3>1. memory.snmp \in Snmp
      BY <1>0 DEF SettingsTypeOK, Settings
    <3>. QED BY <1>0, <3>1 DEF SettingsHandlers
  <2>2. Fits(a, h)
    BY <1>0, <1>5, NoRequestType DEF Call, At, Fits, Unfinished, AgentSteps, SettingsHandlers,
       SettingsTypeOK, Settings
  <2>3. caller' = [caller EXCEPT ![a] = h]
    BY <1>5 DEF Call, SettingsTypeOK
  <2>4. callerOK
    BY <2>1, <2>2, <2>3, CallerSet
  <2>. QED BY <1>5, <2>4 DEF Call, SettingsTypeOK
<1>6. ASSUME NEW a \in Actors, SaveSettings(a) PROVE SettingsTypeOK' /\ RequestsFit'
  <2>1. callerOK
    BY <1>6, RequestSaves
  <2>2. stored' \in Settings
    BY <1>0, <1>6, RequestSaves DEF SaveSettings, Payload, SettingsTypeOK, Settings
  <2>3. woken' \in BOOLEAN
    BY <1>6, RequestSaves DEF SaveSettings, SettingsTypeOK, Sections
  <2>. QED BY <1>6, <2>1, <2>2, <2>3 DEF SaveSettings, SettingsTypeOK
<1>7. ASSUME NEW a \in Actors, SaveSettingsFails(a) PROVE SettingsTypeOK' /\ RequestsFit'
  <2>1. callerOK
    BY <1>7, RequestSaves
  <2>2. caller[a].op \in {"snmp", "service", "layout"}
    BY <1>7, RequestSaves DEF Sections
  <2>. QED BY <1>7, <2>1, <2>2 DEF SaveSettingsFails, SettingsTypeOK
<1>8. ASSUME NEW a \in Actors, Undo(a) PROVE SettingsTypeOK' /\ RequestsFit'
  <2>1. callerOK
    BY <1>8, NoRequestType, CallerSet DEF Undo, Ends
  <2>2. caller[a].before \in Layouts
    BY <1>0, <1>8, NoRequestType DEF Undo, At, Fits, AgentSteps
  <2>3. memory' \in Settings
    BY <1>8, <2>2 DEF Undo, SettingsTypeOK, Settings
  <2>. QED BY <1>8, <2>1, <2>3 DEF Undo, SettingsTypeOK
<1>9. ASSUME NEW a \in Actors, RestartStep(a) PROVE SettingsTypeOK' /\ RequestsFit'
  <2>1. UNCHANGED <<saveVars, beatVars>> /\ Moves(a)
    BY <1>9, RestartFrame
  <2>2. callerOK
    BY <2>1, CallerSet DEF Moves, Later
  <2>3. stop' \in BOOLEAN /\ apart' \in BOOLEAN
    BY <1>9 DEF RestartStep, Close, Join, Forget, CheckEnabled, Look, Clear, Launch, SettingsTypeOK
  <2>4. tracked' \in 0..MaxAgents /\ agents' \in [Ids -> AgentThreads]
    <3>1. CASE Launch(a)
      <4>. DEFINE i == CHOOSE j \in Unused : \A k \in Unused : j <= k
      <4>1. i \in Ids
        BY <3>1, SmallestUnused DEF Launch, Unused
      <4>2. tracked' = i /\ agents' = [agents EXCEPT ![i].step = "started"]
        BY <3>1 DEF Launch
      <4>. HIDE DEF i
      <4>3. tracked' \in 0..MaxAgents
        BY <4>1, <4>2, SettingsAssumption DEF Ids
      <4>4. [agents[i] EXCEPT !.step = "started"] \in AgentThreads
        BY <4>1 DEF SettingsTypeOK, AgentThreads
      <4>. QED BY <4>2, <4>3, <4>4 DEF SettingsTypeOK, AgentThreads
    <3>2. CASE Forget(a)
      <4>1. tracked' \in {tracked, 0} /\ agents' = agents
        BY <3>2 DEF Forget
      <4>. QED BY <4>1, SettingsAssumption DEF SettingsTypeOK, AgentThreads
    <3>. QED BY <1>9, <3>1, <3>2
         DEF RestartStep, Close, Join, CheckEnabled, Look, Clear, SettingsTypeOK, AgentThreads
  <2>5. count' \in [requests : Nat, failures : Nat, faults : Nat, restarts : Nat]
    BY <1>9 DEF RestartStep, Close, Join, Forget, CheckEnabled, Look, Clear, Launch, SettingsTypeOK
  <2>. QED BY <2>1, <2>2, <2>3, <2>4, <2>5 DEF SettingsTypeOK, AgentThreads
<1>10. ASSUME NEW i \in Ids, Agent(i) PROVE SettingsTypeOK' /\ RequestsFit'
  <2>1. agents' \in [Ids -> AgentThreads]
    BY <1>10, NoRequestType
       DEF Agent, AgentOpens, AgentStops, AgentRaises, SettingsTypeOK, Settings, AgentThreads
  <2>2. count' \in [requests : Nat, failures : Nat, faults : Nat, restarts : Nat]
    BY <1>10 DEF Agent, AgentOpens, AgentStops, AgentRaises, SettingsTypeOK
  <2>3. /\ UNCHANGED <<saveVars, caller, tracked, stop, beatVars>>
        /\ apart' \in BOOLEAN
    BY <1>10 DEF Agent, AgentOpens, AgentStops, AgentRaises, SettingsTypeOK
  <2>. QED BY <2>1, <2>2, <2>3 DEF SettingsTypeOK, RequestsFit, AgentThreads
<1>11. CASE Heartbeat
  BY <1>11 DEF Heartbeat, SettingsTypeOK, Settings, RequestsFit
<1>12. CASE PanelRestart
  <2>1. \A i \in Ids : agents'[i] \in AgentThreads
    BY <1>12, NoRequestType DEF PanelRestart, Started, NoAgent, AgentThreads
  <2>2. agents' \in [Ids -> AgentThreads]
    BY <1>12, <2>1 DEF PanelRestart, Started
  <2>3. callerOK
    BY <1>12, NoRequestType DEF PanelRestart, Started, RequestsFit
  <2>4. tracked' \in 0..MaxAgents
    BY <1>12, SettingsAssumption DEF PanelRestart, Started
  <2>5. /\ memory' \in Settings /\ stored' \in Settings /\ held' \in Actors \cup {Nothing}
        /\ stop' \in BOOLEAN /\ beat' \in Intervals /\ woken' \in BOOLEAN /\ deaf' \in BOOLEAN
        /\ unsaved' \subseteq {"snmp", "service", "layout"} /\ apart' \in BOOLEAN
    BY <1>12 DEF PanelRestart, Started, SettingsTypeOK, Settings
  <2>6. count' \in [requests : Nat, failures : Nat, faults : Nat, restarts : Nat]
    BY <1>12 DEF PanelRestart, SettingsTypeOK
  <2>. QED BY <2>2, <2>3, <2>4, <2>5, <2>6 DEF SettingsTypeOK, AgentThreads
<1>. QED
  BY <1>1, <1>2, <1>3, <1>4, <1>5, <1>6, <1>7, <1>8, <1>9, <1>10, <1>11, <1>12
     DEF SettingsNext, SettingsRequest, RestartStep

-----------------------------------------------------------------------------
\* The steps of a request that is not about the section leave the section in
\* memory alone; the others begin a request, save, give up or put back.
LEMMA SectionsStep ==
  SettingsTypeOK /\ RequestsFit /\ SectionsFollow /\ [SettingsNext]_settingsVars => SectionsFollow'
<1>. SUFFICES ASSUME SettingsTypeOK, RequestsFit, SectionsFollow, [SettingsNext]_settingsVars,
                     NEW s \in Sections, s \notin unsaved',
                     \A a \in Actors : caller'[a].op = s => caller'[a].step \notin Unfinished
              PROVE  stored'[s] = memory'[s]
  BY DEF SectionsFollow, SectionFollows
<1>. USE DEF saveVars, agentVars, beatVars
<1>. DEFINE kept == /\ stored' = stored /\ memory'[s] = memory[s] /\ s \notin unsaved
                    /\ \A a \in Actors : caller[a].op = s => caller[a].step \notin Unfinished
<1>0. kept => stored'[s] = memory'[s]
  BY DEF SectionsFollow, SectionFollows
<1>. HIDE DEF kept
<1>1. CASE UNCHANGED settingsVars
  <2>1. kept
    BY <1>1 DEF settingsVars, kept
  <2>. QED BY <1>0, <2>1
\* A request that begins at a: nothing else changes its op, and s is not its own.
<1>2. ASSUME NEW a \in Actors, NEW h \in SettingsHandlers, caller' = [caller EXCEPT ![a] = h],
             stored' = stored, unsaved' = unsaved,
             caller[a].op = s => caller[a].step \notin Unfinished,
             h.op # s => memory'[s] = memory[s],
             h.step \in Unfinished
      PROVE  kept
  <2>1. h.op # s
    BY <1>2 DEF SettingsTypeOK
  <2>2. ASSUME NEW b \in Actors, caller[b].op = s PROVE caller[b].step \notin Unfinished
    BY <1>2, <2>2 DEF SettingsTypeOK
  <2>. QED BY <1>2, <2>1, <2>2 DEF kept
<1>3. ASSUME NEW a \in Actors, NEW c \in Snmp, PostSnmp(a, c) PROVE kept
  <2>. DEFINE h == [NoRequest EXCEPT !.step = "save", !.op = "snmp", !.snmp = c]
  <2>1. h \in SettingsHandlers /\ h.step \in Unfinished
    BY NoRequestType DEF SettingsHandlers, Unfinished
  <2>2. h.op # s => memory'[s] = memory[s]
    BY <1>3, NoRequestType DEF PostSnmp, SettingsTypeOK, Settings, Sections, SettingsHandlers
  <2>3. caller[a].step \notin Unfinished
    BY <1>3, NoRequestType DEF PostSnmp, Begins, Unfinished
  <2>4. caller' = [caller EXCEPT ![a] = h] /\ stored' = stored /\ unsaved' = unsaved
    BY <1>3 DEF PostSnmp
  <2>. QED BY <1>2, <2>1, <2>2, <2>3, <2>4
<1>4. ASSUME NEW c \in Intervals, PutService(c) PROVE kept
  <2>. DEFINE h == [NoRequest EXCEPT !.step = "save", !.op = "service", !.snmp = memory.snmp]
  <2>1. h \in SettingsHandlers /\ h.step \in Unfinished /\ Loop \in Actors
    BY NoRequestType DEF SettingsHandlers, Unfinished, Actors, SettingsTypeOK, Settings
  <2>2. h.op # s => memory'[s] = memory[s]
    BY <1>4, NoRequestType DEF PutService, SettingsTypeOK, Settings, Sections, SettingsHandlers
  <2>3. caller[Loop].step \notin Unfinished
    BY <1>4, NoRequestType DEF PutService, Begins, Unfinished
  <2>4. caller' = [caller EXCEPT ![Loop] = h] /\ stored' = stored /\ unsaved' = unsaved
    BY <1>4 DEF PutService
  <2>. QED BY <1>2, <2>1, <2>2, <2>3, <2>4
<1>5. ASSUME NEW a \in Actors, NEW l \in Layouts, PutLayout(a, l) PROVE kept
  <2>. DEFINE h == [NoRequest EXCEPT !.step = "call", !.op = "layout", !.before = memory.layout]
  <2>1. h \in SettingsHandlers /\ h.step \in Unfinished
    BY NoRequestType DEF SettingsHandlers, Unfinished, SettingsTypeOK, Settings
  <2>2. h.op # s => memory'[s] = memory[s]
    BY <1>5, NoRequestType DEF PutLayout, SettingsTypeOK, Settings, Sections, SettingsHandlers
  <2>3. caller[a].step \notin Unfinished
    BY <1>5, NoRequestType DEF PutLayout, Begins, Unfinished
  <2>4. caller' = [caller EXCEPT ![a] = h] /\ stored' = stored /\ unsaved' = unsaved
    BY <1>5 DEF PutLayout
  <2>. QED BY <1>2, <2>1, <2>2, <2>3, <2>4
<1>6. ASSUME NEW a \in Actors, Call(a) PROVE kept
  <2>1. caller'[a].op = caller[a].op /\ caller'[a].step = "save"
    BY <1>6 DEF Call, SettingsTypeOK, SettingsHandlers
  <2>2. \A b \in Actors : b # a => caller'[b] = caller[b]
    BY <1>6 DEF Call, SettingsTypeOK
  <2>3. \A b \in Actors : caller[b].op = s => caller[b].step \notin Unfinished
    BY <2>1, <2>2 DEF Unfinished
  <2>. QED BY <1>6, <2>3 DEF Call, kept
\* What is written is memory, except for older SNMP settings: they are not saved.
<1>7. ASSUME NEW a \in Actors, SaveSettings(a) PROVE stored'[s] = memory'[s]
  <2>1. s = "snmp" => caller[a].snmp = memory.snmp
    BY <1>7 DEF SaveSettings
  <2>2. memory' = memory /\ stored' = [memory EXCEPT !.snmp = caller[a].snmp]
    BY <1>7 DEF SaveSettings, Payload
  <2>. QED BY <2>1, <2>2 DEF SettingsTypeOK, Settings, Sections
<1>8. ASSUME NEW a \in Actors, SaveSettingsFails(a) PROVE kept
  <2>1. s # caller[a].op /\ s \notin unsaved /\ stored' = stored /\ memory' = memory
    BY <1>8 DEF SaveSettingsFails
  <2>2. \A b \in Actors : b # a => caller'[b] = caller[b]
    BY <1>8 DEF SaveSettingsFails, Goes, Ends, SettingsTypeOK
  <2>. QED BY <2>1, <2>2 DEF kept
<1>9. ASSUME NEW a \in Actors, Undo(a) PROVE kept
  <2>1. /\ s # "layout" /\ s \notin unsaved /\ stored' = stored
        /\ memory' = [memory EXCEPT !.layout = caller[a].before]
    BY <1>9 DEF Undo
  <2>2. caller[a].op = "layout"
    BY <1>9, NoRequestType DEF Undo, At, RequestsFit, Fits, AgentSteps
  <2>3. \A b \in Actors : b # a => caller'[b] = caller[b]
    BY <1>9 DEF Undo, Ends, SettingsTypeOK
  <2>4. memory'[s] = memory[s]
    BY <2>1 DEF SettingsTypeOK, Settings, Sections
  <2>. QED BY <2>1, <2>2, <2>3, <2>4 DEF kept
<1>10. ASSUME NEW a \in Actors, RestartStep(a) PROVE kept
  <2>1. caller[a].step \in AgentSteps /\ UNCHANGED saveVars /\ Moves(a)
    BY <1>10, RestartFrame
  <2>2. \A b \in Actors : b # a => caller'[b] = caller[b]
    BY <2>1 DEF Moves, Later, SettingsTypeOK
  <2>3. caller[a].step \notin Unfinished
    BY <2>1 DEF AgentSteps, Unfinished
  <2>. QED BY <2>1, <2>2, <2>3 DEF kept
<1>11. ASSUME NEW i \in Ids, Agent(i) PROVE kept
  BY <1>11 DEF Agent, AgentOpens, AgentStops, AgentRaises, kept
<1>12. CASE Heartbeat
  <2>1. kept
    BY <1>12 DEF Heartbeat, kept
  <2>. QED BY <1>0, <2>1
<1>13. CASE PanelRestart
  BY <1>13 DEF PanelRestart, Started
<1>. QED
  BY <1>0, <1>1, <1>3, <1>4, <1>5, <1>6, <1>7, <1>8, <1>9, <1>10, <1>11, <1>12, <1>13
     DEF SettingsNext, SettingsRequest, RestartStep

\* Only the event loop changes the service settings, and it wakes the heartbeat.
LEMMA HeartbeatStep ==
  SettingsTypeOK /\ RequestsFit /\ HeartbeatCurrent /\ [SettingsNext]_settingsVars
    => HeartbeatCurrent'
<1>. SUFFICES ASSUME SettingsTypeOK, RequestsFit, HeartbeatCurrent, [SettingsNext]_settingsVars,
                     caller'[Loop] = NoRequest, ~deaf'
              PROVE  woken' \/ beat' = memory'.service
  BY DEF HeartbeatCurrent
<1>. USE DEF saveVars, agentVars, beatVars
<1>. DEFINE kept == /\ caller[Loop] = NoRequest /\ ~deaf /\ (woken' \/ ~woken)
                    /\ beat' = beat /\ memory'.service = memory.service
            goal == woken' \/ beat' = memory'.service
<1>0. kept => goal
  BY DEF HeartbeatCurrent
<1>. HIDE DEF kept
<1>a. Loop \in Actors /\ Loop \notin Workers /\ memory \in Settings
  BY SettingsAssumption DEF Actors, SettingsTypeOK
<1>1. CASE UNCHANGED settingsVars
  <2>1. kept
    BY <1>1 DEF settingsVars, kept
  <2>. QED BY <1>0, <2>1
<1>2. ASSUME NEW a \in Actors, NEW c \in Snmp, PostSnmp(a, c) PROVE kept
  BY <1>a, <1>2 DEF PostSnmp, Begins, Settings, SettingsTypeOK, kept
<1>3. ASSUME NEW c \in Intervals, PutService(c) PROVE goal
  <2>1. caller'[Loop] = [NoRequest EXCEPT !.step = "save", !.op = "service", !.snmp = memory.snmp]
    BY <1>a, <1>3 DEF PutService, SettingsTypeOK
  <2>2. caller'[Loop].step = "save"
    BY <2>1, NoRequestType DEF SettingsHandlers
  <2>. QED BY <2>2, NoRequestType
<1>4. ASSUME NEW a \in Actors, NEW l \in Layouts, PutLayout(a, l) PROVE kept
  BY <1>a, <1>4 DEF PutLayout, Begins, Settings, SettingsTypeOK, kept
<1>5. ASSUME NEW a \in Actors, Call(a) PROVE kept
  <2>1. a # Loop
    BY <1>a, <1>5, NoRequestType DEF Call, At, RequestsFit, Fits, AgentSteps
  <2>. QED BY <1>a, <1>5, <2>1 DEF Call, SettingsTypeOK, kept
<1>6. ASSUME NEW a \in Actors, SaveSettings(a) PROVE goal
  <2>1. CASE caller[a].op = "service"
    BY <1>6, <2>1 DEF SaveSettings
  <2>2. CASE caller[a].op # "service"
    <3>1. a # Loop
      BY <1>a, <1>6, <2>2, NoRequestType DEF SaveSettings, At, RequestsFit, Fits
    <3>2. caller'[Loop] = caller[Loop] /\ woken' = woken
      BY <1>a, <1>6, <2>2, <3>1, RequestSaves DEF SaveSettings, Sections, Ends, Goes, SettingsTypeOK
    <3>3. kept
      BY <1>6, <3>2 DEF SaveSettings, kept
    <3>. QED BY <1>0, <3>3
  <2>. QED BY <2>1, <2>2
<1>7. ASSUME NEW a \in Actors, SaveSettingsFails(a) PROVE kept
  <2>1. caller[a].op # "service" /\ ~deaf
    BY <1>7 DEF SaveSettingsFails
  <2>2. a # Loop
    BY <1>a, <1>7, <2>1, NoRequestType DEF SaveSettingsFails, At, RequestsFit, Fits
  <2>3. caller'[Loop] = caller[Loop]
    BY <1>a, <1>7, <2>2 DEF SaveSettingsFails, Ends, Goes, SettingsTypeOK
  <2>. QED BY <1>7, <2>1, <2>3 DEF SaveSettingsFails, kept
<1>8. ASSUME NEW a \in Actors, Undo(a) PROVE kept
  <2>1. a # Loop
    BY <1>a, <1>8, NoRequestType DEF Undo, At, RequestsFit, Fits, AgentSteps
  <2>. QED BY <1>a, <1>8, <2>1 DEF Undo, Ends, SettingsTypeOK, Settings, kept
<1>9. ASSUME NEW a \in Actors, RestartStep(a) PROVE kept
  <2>1. a \in Workers /\ UNCHANGED <<saveVars, beatVars>> /\ Moves(a)
    BY <1>9, RestartFrame
  <2>2. caller'[Loop] = caller[Loop]
    BY <1>a, <2>1 DEF Moves, Later, SettingsTypeOK
  <2>. QED BY <2>1, <2>2 DEF kept
<1>10. ASSUME NEW i \in Ids, Agent(i) PROVE kept
  BY <1>10 DEF Agent, AgentOpens, AgentStops, AgentRaises, kept
<1>11. CASE Heartbeat
  BY <1>11 DEF Heartbeat
<1>12. CASE PanelRestart
  BY <1>12 DEF PanelRestart, Started
<1>. QED
  BY <1>0, <1>1, <1>2, <1>3, <1>4, <1>5, <1>6, <1>7, <1>8, <1>9, <1>10, <1>11, <1>12
     DEF SettingsNext, SettingsRequest, RestartStep

-----------------------------------------------------------------------------
\* A step that leaves the agents, the SNMP settings and the requests that restart
\* the agent alone keeps what is between them.
LEMMA AgentFrame ==
  ASSUME AgentInv, apart => apart', UNCHANGED agentVars, memory'.snmp = memory.snmp,
         \A b \in Actors : Restarting(b) \/ caller'[b].op = "snmp" => caller'[b] = caller[b]
  PROVE  AgentInv'
<1>. SUFFICES ASSUME ~apart' PROVE OneAgent' /\ OneRestarts'
        /\ (\A a \in Actors : Restarting(a)' => Restarts(a)')
        /\ ((\A a \in Actors : ~Restarting(a)') => Serves')
  BY DEF AgentInv
<1>1. \A i : Alive(i)' <=> Alive(i)
  BY DEF agentVars, Alive
<1>2. \A b \in Actors : Restarting(b)' <=> Restarting(b)
  BY DEF Restarting
<1>3. OneAgent /\ OneRestarts /\ (\A a \in Actors : Restarting(a) => Restarts(a))
  BY DEF AgentInv
<1>4. OneAgent' /\ OneRestarts'
  BY <1>1, <1>2, <1>3 DEF OneAgent, OneRestarts, agentVars
<1>5. ASSUME NEW a \in Actors, Restarting(a)' PROVE Restarts(a)'
  <2>1. Restarts(a) /\ caller'[a] = caller[a]
    BY <1>2, <1>3, <1>5
  <2>. QED BY <1>1, <2>1 DEF Restarts, At, agentVars
<1>6. ASSUME \A a \in Actors : ~Restarting(a)' PROVE Serves'
  <2>1. Serves
    BY <1>2, <1>6 DEF AgentInv
  <2>. QED BY <1>1, <2>1 DEF Serves, agentVars
<1>. QED BY <1>4, <1>5, <1>6

\* A request restarts the agent: no other does, and while it goes on what it
\* has to know of the agents is what is to be shown.
LEMMA RestartGoes ==
  ASSUME SettingsTypeOK, AgentInv, NEW a \in Actors, Restarting(a), ~apart,
         \A b \in Actors : b # a => caller'[b] = caller[b],
         Restarting(a)' => Restarts(a)',
         ~Restarting(a)' => Serves',
         OneAgent'
  PROVE  AgentInv'
<1>1. \A b \in Actors : Restarting(b) => b = a
  BY DEF AgentInv, OneRestarts
<1>2. \A b \in Actors : Restarting(b)' => b = a
  BY <1>1 DEF Restarting
<1>. QED BY <1>2 DEF AgentInv, OneRestarts

\* close_snmp and init_snmp, step by step.
LEMMA RestartStepKeeps ==
  ASSUME SettingsTypeOK, RequestsFit, AgentInv, ~apart', NEW a \in Actors, RestartStep(a)
  PROVE  AgentInv'
<1>. USE DEF saveVars, agentVars, beatVars
<1>1. /\ Restarting(a) /\ caller[a].step \in AgentSteps /\ memory' = memory
      /\ \A b \in Actors : b # a => caller'[b] = caller[b]
  BY RestartFrame DEF Moves, Later, SettingsTypeOK
<1>2. ~apart
  BY DEF RestartStep, Close, Join, Forget, CheckEnabled, Look, Clear, Launch
<1>3. OneAgent /\ Restarts(a)
  BY <1>1, <1>2 DEF AgentInv
<1>. SUFFICES (Restarting(a)' => Restarts(a)') /\ (~Restarting(a)' => Serves') /\ OneAgent'
  BY <1>1, <1>2, RestartGoes
<1>4. Ends(a) => ~Restarting(a)'
  BY NoRequestType DEF Ends, Restarting, SettingsTypeOK
<1>5. \A step : Goes(a, step) =>
        /\ caller'[a].step = step /\ Restarting(a)'
        /\ caller'[a].snmp = caller[a].snmp /\ caller'[a].agent = caller[a].agent
  BY <1>1 DEF Goes, Restarting, SettingsTypeOK, SettingsHandlers
<1>6. CASE Close(a)
  <2>1. \A i : Alive(i)' <=> Alive(i)
    BY <1>6 DEF Close, Alive
  <2>2. OneAgent'
    BY <1>3, <1>6, <2>1 DEF OneAgent, Close
  <2>3. CASE tracked = 0
    <3>1. \A i \in Ids : ~Alive(i)
      BY <1>3, <2>3, SettingsAssumption DEF OneAgent, Ids
    <3>2. CASE caller[a].snmp = Off
      BY <1>1, <1>3, <1>4, <1>6, <2>1, <2>2, <2>3, <3>1, <3>2
         DEF Close, AfterClose, Restarts, Serves
    <3>3. CASE caller[a].snmp # Off
      <4>1. Goes(a, "check")
        BY <1>6, <2>3, <3>3 DEF Close, AfterClose
      <4>2. Restarting(a)' /\ Restarts(a)'
        BY <1>1, <1>3, <1>5, <2>1, <3>1, <3>3, <4>1 DEF Restarts, At
      <4>. QED BY <2>2, <4>2
    <3>. QED BY <3>2, <3>3
  <2>4. CASE tracked # 0
    <3>1. caller' = [caller EXCEPT ![a].step = "join", ![a].agent = tracked]
      BY <1>6, <2>4 DEF Close
    <3>2. /\ caller'[a].step = "join" /\ caller'[a].agent = tracked
          /\ caller'[a].snmp = caller[a].snmp /\ caller'[a].op = caller[a].op
      BY <3>1 DEF SettingsTypeOK, SettingsHandlers
    <3>3. Restarting(a)' /\ Restarts(a)'
      BY <1>1, <1>3, <1>6, <2>4, <3>2 DEF Restarts, Restarting, At, Close
    <3>. QED BY <2>2, <3>3
  <2>. QED BY <2>3, <2>4
<1>7. CASE Join(a)
  <2>1. \A i : Alive(i)' <=> Alive(i)
    BY <1>7 DEF Join, Alive
  <2>2. tracked # 0 /\ ~Alive(tracked) /\ tracked' = tracked
    BY <1>3, <1>7 DEF Join, Restarts
  <2>3. OneAgent' /\ \A i \in Ids : ~Alive(i)'
    BY <1>3, <2>1, <2>2 DEF OneAgent
  <2>4. Goes(a, "forget")
    BY <1>7 DEF Join
  <2>5. Restarting(a)' /\ Restarts(a)'
    BY <1>1, <1>3, <1>5, <2>2, <2>3, <2>4 DEF Restarts, At
  <2>. QED BY <2>3, <2>5
<1>8. CASE Forget(a)
  <2>1. tracked # 0 /\ AfterClose(a) /\ \A i \in Ids : ~Alive(i)
    BY <1>3, <1>8 DEF Forget, Restarts, At
  <2>2. \A i \in Ids : ~Alive(i)'
    BY <1>8, <2>1 DEF Forget, Alive
  <2>3. OneAgent'
    BY <2>2 DEF OneAgent
  <2>4. CASE caller[a].snmp = Off
    BY <1>1, <1>3, <1>4, <2>1, <2>2, <2>3, <2>4 DEF AfterClose, Restarts, Serves
  <2>5. CASE caller[a].snmp # Off
    <3>1. Goes(a, "check")
      BY <2>1, <2>5 DEF AfterClose
    <3>2. Restarting(a)' /\ Restarts(a)'
      BY <1>1, <1>3, <1>5, <2>2, <2>5, <3>1 DEF Restarts, At
    <3>. QED BY <2>3, <3>2
  <2>. QED BY <2>4, <2>5
<1>9. CASE CheckEnabled(a) \/ Look(a) \/ Clear(a)
  <2>1. memory.snmp # Off /\ \A i \in Ids : ~Alive(i)
    BY <1>3, <1>9 DEF CheckEnabled, Look, Clear, Restarts, At
  <2>2. \A i \in Ids : ~Alive(i)'
    BY <1>9, <2>1 DEF CheckEnabled, Look, Clear, Alive
  <2>3. OneAgent'
    BY <2>2 DEF OneAgent
  <2>4. ~Alive(tracked)
    BY <2>1 DEF Alive
  <2>5. \/ Goes(a, "look") \/ Goes(a, "clear")
        \/ Goes(a, "launch") /\ ~stop'
    BY <1>9, <2>1, <2>4 DEF CheckEnabled, Look, Clear
  <2>6. Restarting(a)' /\ Restarts(a)'
    BY <1>1, <1>3, <1>5, <2>1, <2>2, <2>5 DEF Restarts, At
  <2>. QED BY <2>3, <2>6
<1>10. CASE Launch(a)
  <2>. DEFINE i == CHOOSE j \in Unused : \A k \in Unused : j <= k
  <2>1. i \in Ids
    BY <1>10, SmallestUnused DEF Launch, Unused
  <2>2. tracked' = i /\ agents' = [agents EXCEPT ![i].step = "started"] /\ stop' = stop /\ Ends(a)
    BY <1>10 DEF Launch
  <2>. HIDE DEF i
  <2>3. ~stop /\ \A j \in Ids : ~Alive(j)
    BY <1>3, <1>10 DEF Launch, Restarts, At
  <2>4. \A j \in Ids : agents'[j].step = IF j = i THEN "started" ELSE agents[j].step
    BY <2>1, <2>2 DEF SettingsTypeOK
  <2>5. \A j \in Ids : Alive(j)' <=> j = i
    BY <2>3, <2>4 DEF Alive
  <2>6. OneAgent'
    BY <2>2, <2>5 DEF OneAgent
  <2>7. Alive(tracked)' /\ agents'[tracked'].step = "started"
    BY <2>1, <2>2, <2>4, <2>5
  <2>8. memory.snmp # Off
    BY <1>3, <1>10 DEF Launch, Restarts, At
  <2>9. Serves'
    BY <1>1, <2>2, <2>3, <2>7, <2>8 DEF Serves
  <2>. QED BY <1>4, <2>2, <2>6, <2>9
<1>. QED BY <1>6, <1>7, <1>8, <1>9, <1>10 DEF RestartStep

\* The thread of an agent reads the settings, or ends.
LEMMA AgentThreadStep ==
  ASSUME SettingsTypeOK, AgentInv, ~apart', NEW i \in Ids, Agent(i)
  PROVE  AgentInv'
<1>. USE DEF saveVars, beatVars
<1>1. AgentOpens(i) \/ AgentStops(i)
  BY DEF Agent, AgentRaises
<1>2. UNCHANGED <<memory, caller, tracked, stop, apart>>
  BY <1>1 DEF AgentOpens, AgentStops
<1>3. /\ OneAgent /\ OneRestarts /\ \A a \in Actors : Restarting(a) => Restarts(a)
      /\ (\A a \in Actors : ~Restarting(a)) => Serves
  BY <1>2 DEF AgentInv
<1>4. Alive(i) /\ i = tracked
  BY <1>1, <1>3 DEF AgentOpens, AgentStops, Alive, OneAgent
<1>5. \A j \in Ids : j # i => agents'[j] = agents[j]
  BY <1>1 DEF AgentOpens, AgentStops, SettingsTypeOK
<1>6. \A j \in Ids : Alive(j)' => Alive(j)
  BY <1>4, <1>5 DEF Alive
<1>7. OneAgent' /\ OneRestarts'
  BY <1>2, <1>3, <1>6 DEF OneAgent, OneRestarts, Restarting
<1>8. \A a \in Actors : Restarting(a)' => Restarts(a)'
  BY <1>2, <1>3, <1>6 DEF Restarts, Restarting, At
<1>9. ASSUME \A a \in Actors : ~Restarting(a)' PROVE Serves'
  <2>1. Serves
    BY <1>2, <1>3, <1>9 DEF Restarting
  <2>2. memory.snmp # Off /\ ~stop
    BY <1>4, <2>1 DEF Serves
  <2>3. ~\E j \in Ids : agents[j].step = "running" /\ agents[i].step = "started"
    BY <1>3, <1>4 DEF OneAgent, Alive
  <2>4. agents' = [agents EXCEPT ![i] = [step |-> "running", snmp |-> memory.snmp]]
    BY <1>1, <2>2, <2>3 DEF AgentOpens, AgentStops
  <2>5. agents'[i].step = "running" /\ agents'[i].snmp = memory.snmp
    BY <2>4 DEF SettingsTypeOK
  <2>. QED BY <1>2, <1>4, <2>2, <2>5 DEF Serves, Alive
<1>. QED BY <1>7, <1>8, <1>9 DEF AgentInv

LEMMA AgentStep ==
  SettingsTypeOK /\ RequestsFit /\ AgentInv /\ [SettingsNext]_settingsVars => AgentInv'
<1>. SUFFICES ASSUME SettingsTypeOK, RequestsFit, AgentInv, [SettingsNext]_settingsVars, ~apart'
              PROVE  AgentInv'
  BY DEF AgentInv
<1>. USE DEF saveVars, agentVars, beatVars
<1>1. CASE UNCHANGED settingsVars
  BY <1>1, AgentFrame DEF settingsVars
<1>2. ASSUME NEW a \in Actors, NEW c \in Snmp, PostSnmp(a, c) PROVE AgentInv'
  <2>. DEFINE h == [NoRequest EXCEPT !.step = "save", !.op = "snmp", !.snmp = c]
  <2>1. OneAgent /\ \A b \in Actors : ~Restarting(b)
    BY <1>2 DEF PostSnmp, OneAgent
  <2>2. \A b \in Actors : b # a => caller'[b] = caller[b]
    BY <1>2 DEF PostSnmp, SettingsTypeOK
  <2>3. caller'[a] = h /\ h.step = "save" /\ h.snmp = c
    BY <1>2, NoRequestType DEF PostSnmp, SettingsTypeOK, SettingsHandlers
  <2>4. memory'.snmp = c
    BY <1>2 DEF PostSnmp, SettingsTypeOK, Settings
  <2>5. caller'[a].op = "snmp"
    BY <2>3, NoRequestType DEF SettingsHandlers
  <2>6. OneAgent' /\ OneRestarts'
    BY <1>2, <2>1, <2>2 DEF PostSnmp, OneAgent, OneRestarts, Restarting, Alive
  <2>7. Restarts(a)'
    BY <2>3, <2>4 DEF Restarts, At
  <2>. QED BY <2>1, <2>2, <2>5, <2>6, <2>7 DEF AgentInv, Restarting
<1>3. ASSUME NEW s \in Intervals, PutService(s) PROVE AgentInv'
  <2>1. caller' = [caller EXCEPT ![Loop] =
                     [NoRequest EXCEPT !.step = "save", !.op = "service", !.snmp = memory.snmp]]
    BY <1>3 DEF PutService
  <2>2. Loop \in Actors /\ caller'[Loop].op = "service" /\ caller[Loop].op = "none"
    BY <1>3, <2>1, NoRequestType DEF PutService, Begins, Actors, SettingsTypeOK, SettingsHandlers
  <2>3. memory'.snmp = memory.snmp
    BY <1>3 DEF PutService, SettingsTypeOK, Settings
  <2>. QED BY <1>3, <2>1, <2>2, <2>3, AgentFrame DEF PutService, Restarting, SettingsTypeOK
<1>4. ASSUME NEW a \in Actors, NEW l \in Layouts, PutLayout(a, l) PROVE AgentInv'
  <2>1. caller' = [caller EXCEPT ![a] =
                     [NoRequest EXCEPT !.step = "call", !.op = "layout", !.before = memory.layout]]
    BY <1>4 DEF PutLayout
  <2>2. caller'[a].op = "layout" /\ caller[a].op = "none"
    BY <1>4, <2>1, NoRequestType DEF PutLayout, Begins, SettingsTypeOK, SettingsHandlers
  <2>3. memory'.snmp = memory.snmp
    BY <1>4 DEF PutLayout, SettingsTypeOK, Settings
  <2>. QED BY <1>4, <2>1, <2>2, <2>3, AgentFrame DEF PutLayout, Restarting, SettingsTypeOK
<1>5. ASSUME NEW a \in Actors, Call(a) PROVE AgentInv'
  <2>1. caller[a].op = "layout"
    BY <1>5, NoRequestType DEF Call, At, RequestsFit, Fits, AgentSteps
  <2>2. caller'[a].op = "layout" /\ \A b \in Actors : b # a => caller'[b] = caller[b]
    BY <1>5, <2>1 DEF Call, SettingsTypeOK, SettingsHandlers
  <2>. QED BY <1>5, <2>1, <2>2, AgentFrame DEF Call, Restarting
<1>6. ASSUME NEW a \in Actors, SaveSettings(a) PROVE AgentInv'
  <2>1. /\ caller[a].op \in Sections
        /\ caller[a].op # "snmp" => Ends(a)
        /\ UNCHANGED <<memory, agentVars, apart>>
    BY <1>6, RequestSaves DEF SaveSettings
  <2>2. CASE caller[a].op = "snmp"
    <3>1. Goes(a, "close")
      BY <1>6, <2>2 DEF SaveSettings
    <3>2. /\ caller'[a].step = "close" /\ caller'[a].snmp = caller[a].snmp
          /\ caller'[a].op = "snmp"
          /\ \A b \in Actors : b # a => caller'[b] = caller[b]
      BY <2>2, <3>1 DEF Goes, SettingsTypeOK, SettingsHandlers
    <3>3. ~apart /\ Restarting(a) /\ Restarts(a) /\ OneAgent
      BY <2>1, <2>2 DEF AgentInv, Restarting
    <3>4. OneAgent' /\ Restarts(a)' /\ Restarting(a)'
      BY <2>1, <3>2, <3>3 DEF OneAgent, Restarts, Restarting, At, Alive
    <3>. QED BY <3>2, <3>3, <3>4, RestartGoes
  <2>3. CASE caller[a].op # "snmp"
    <3>1. caller'[a].op = "none" /\ \A b \in Actors : b # a => caller'[b] = caller[b]
      BY <2>1, <2>3, NoRequestType DEF Ends, SettingsTypeOK
    <3>. QED BY <2>1, <2>3, <3>1, AgentFrame DEF Restarting
  <2>. QED BY <2>2, <2>3
<1>7. ASSUME NEW a \in Actors, SaveSettingsFails(a) PROVE AgentInv'
  <2>1. caller[a].op # "snmp" /\ ~apart /\ UNCHANGED <<memory, agentVars>>
    BY <1>7 DEF SaveSettingsFails
  <2>2. caller'[a].op # "snmp" /\ \A b \in Actors : b # a => caller'[b] = caller[b]
    BY <1>7, <2>1, NoRequestType DEF SaveSettingsFails, Ends, Goes, SettingsTypeOK, SettingsHandlers
  <2>. QED BY <2>1, <2>2, AgentFrame DEF Restarting
<1>8. ASSUME NEW a \in Actors, Undo(a) PROVE AgentInv'
  <2>1. caller[a].op = "layout"
    BY <1>8, NoRequestType DEF Undo, At, RequestsFit, Fits, AgentSteps
  <2>2. caller'[a].op = "none" /\ \A b \in Actors : b # a => caller'[b] = caller[b]
    BY <1>8, NoRequestType DEF Undo, Ends, SettingsTypeOK
  <2>3. memory'.snmp = memory.snmp
    BY <1>8 DEF Undo, SettingsTypeOK, Settings
  <2>. QED BY <1>8, <2>1, <2>2, <2>3, AgentFrame DEF Undo, Restarting
<1>9. ASSUME NEW a \in Actors, RestartStep(a) PROVE AgentInv'
  BY <1>9, RestartStepKeeps
<1>10. ASSUME NEW i \in Ids, Agent(i) PROVE AgentInv'
  BY <1>10, AgentThreadStep
<1>11. CASE Heartbeat
  BY <1>11, AgentFrame DEF Heartbeat
<1>12. CASE PanelRestart
  <2>1. \A a \in Actors : ~Restarting(a)'
    BY <1>12, NoRequestType DEF PanelRestart, Started, Restarting
  <2>2. \A i \in Ids : agents'[i].step = IF i = 1 /\ memory'.snmp # Off THEN "started" ELSE "none"
    BY <1>12, NoRequestType DEF PanelRestart, Started, NoAgent, AgentThreads
  <2>3. \A i \in Ids : Alive(i)' <=> i = 1 /\ memory'.snmp # Off
    BY <2>2 DEF Alive
  <2>4. ~stop' /\ tracked' = IF memory'.snmp # Off THEN 1 ELSE 0
    BY <1>12 DEF PanelRestart, Started
  <2>5. OneAgent'
    BY <2>3, <2>4 DEF OneAgent
  <2>6. Serves'
    <3>1. 1 \in Ids
      BY SettingsAssumption DEF Ids
    <3>2. CASE memory'.snmp = Off
      BY <2>3, <3>2 DEF Serves
    <3>3. CASE memory'.snmp # Off
      <4>1. Alive(tracked)' /\ agents'[tracked'].step = "started"
        BY <2>2, <2>3, <2>4, <3>1, <3>3
      <4>. QED BY <2>4, <3>3, <4>1 DEF Serves
    <3>. QED BY <3>2, <3>3
  <2>. QED BY <2>1, <2>5, <2>6 DEF AgentInv, OneRestarts
<1>. QED
  BY <1>1, <1>2, <1>3, <1>4, <1>5, <1>6, <1>7, <1>8, <1>9, <1>10, <1>11, <1>12
     DEF SettingsNext, SettingsRequest, RestartStep

-----------------------------------------------------------------------------
\* Every variable of the settings, the agent and the heartbeat keeps its type,
\* and every request is of the thread that may make it.
THEOREM SettingsTypeCorrect == SettingsSpec => [](SettingsTypeOK /\ RequestsFit)
<1>1. SettingsInit => SettingsTypeOK /\ RequestsFit
  BY SettingsInitInv
<1>. QED BY <1>1, SettingsTypeStep, PTL DEF SettingsSpec

\* Whatever requests meet, fail or put back, between requests a section the
\* file does not have is one that was refused to its caller, or undone.
THEOREM FileFollowsCorrect == SettingsSpec => []FileFollows
<1>1. SettingsInit => SectionsFollow
  BY SettingsInitInv
<1>2. SettingsTypeOK /\ SectionsFollow => FileFollows
  BY NoRequestType DEF FileFollows, Quiet, SectionsFollow, SectionFollows, Sections
<1>. QED BY <1>1, <1>2, SectionsStep, SettingsTypeCorrect, PTL DEF SettingsSpec

\* One agent runs with the settings in force, or none if it is disabled, whatever
\* the agents before it were doing when the last request stopped them.
THEOREM AgentFollowsCorrect == SettingsSpec => []AgentFollows
<1>1. SettingsInit => AgentInv
  BY SettingsInitInv
<1>2. SettingsTypeOK /\ AgentInv => AgentFollows
  <2>. SUFFICES ASSUME SettingsTypeOK, AgentInv, Settled, ~apart
       PROVE  IF memory.snmp = Off
              THEN \A i \in Ids : ~Alive(i)
              ELSE /\ Alive(tracked) /\ agents[tracked].snmp = memory.snmp
                   /\ \A i \in Ids : Alive(i) => i = tracked
    BY DEF AgentFollows
  <2>1. Serves /\ OneAgent
    BY NoRequestType DEF AgentInv, Settled, Quiet, Restarting
  <2>2. Alive(tracked) => agents[tracked].step = "running"
    BY DEF Alive, Settled
  <2>. QED BY <2>1, <2>2 DEF Serves, OneAgent
<1>. QED BY <1>1, <1>2, AgentStep, SettingsTypeCorrect, PTL DEF SettingsSpec

\* The heartbeat knows the interval in force or is about to look at it.
THEOREM HeartbeatCurrentCorrect == SettingsSpec => []HeartbeatCurrent
<1>1. SettingsInit => HeartbeatCurrent
  BY SettingsInitInv
<1>. QED BY <1>1, HeartbeatStep, SettingsTypeCorrect, PTL DEF SettingsSpec
=============================================================================

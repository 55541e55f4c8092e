---------------------------- MODULE AccountsProofs ----------------------------
(*****************************************************************************)
(* Proofs about Accounts for any number of accounts, names, addresses, keys  *)
(* and workers.  The properties rest on what a request that no other one has *)
(* overtaken still knows of the tables (Knows below), which is the inductive *)
(* part; what an overtaken one writes is only known to be noted.             *)
(*****************************************************************************)
EXTENDS Accounts, FiniteSetTheorems, TLAPS

\* What the fields of a request are by what it is about.
Formed(r) ==
  /\ r.op = "create" => r.new \in Account /\ r.old = None
  /\ r.op = "update" => r.new \in Account /\ r.old \in Account /\ r.user \in Ids
  /\ r.op = "email" => r.user \in Ids /\ r.typed \in Emails
  /\ r.op = "ask" => /\ r.typed \in Names \cup Emails
                     /\ r.asked = None => r.old = None /\ r.typed \in Names
                     /\ r.asked # None => r.asked \in Ids /\ r.old \in Account
  /\ r.op = "save" => /\ r.typed \in Names \cup Emails /\ r.new \in Account
                      /\ r.user = None => r.old = None
                      /\ r.user # None => r.user \in Ids /\ r.old \in Account
  /\ r.op = "open" => r.user \in Ids /\ r.typed \in Names \cup Emails
  /\ r.op = "reset" => r.user \in Ids /\ r.typed \in Emails
  /\ r.op = "key" => r.user \in Ids /\ r.typed \in Fingerprints

\* The lookup of a login that the directory is to decide.
Found(r) ==
  /\ r.asked = None => Named(r.typed) = {}
  /\ r.asked # None =>
       /\ r.asked \in Users /\ r.old = users[r.asked] /\ r.old.source = "external"
       /\ Typed(r.typed) = {r.asked}

\* What is entered is looked up again, but for what nobody has checked.
Entered(r) == IF r.typed \in Emails THEN r.typed ELSE Lower[r.typed]

\* What a request knows of the tables until another one commits.
Knows(r) ==
  /\ r.op = "create" => NameFree(r.new.name) /\ EmailFree(r.new.email)
  /\ r.op = "update" =>
       /\ r.user \in Users /\ r.old = users[r.user]
       /\ r.new.name # r.old.name => Named(r.new.name) \subseteq {r.user}
       /\ r.new.email # r.old.email => EmailFree(r.new.email)
  /\ r.op = "email" => EmailFree(r.typed)
  /\ r.op = "ask" => Found(r)
  /\ r.op = "save" =>
       /\ Found(r) /\ r.user = r.asked
       /\ Named(r.new.name) \subseteq {r.user}
       /\ r.asked = None => Lower[r.new.name] = Lower[r.typed] /\ r.typed \in Names
       /\ r.asked # None => /\ Lower[r.new.name] = Lower[r.old.name]
                            /\ r.new.active = r.old.active
  /\ r.op \in {"open", "reset"} /\ Entered(r) \notin unchecked => Typed(r.typed) \subseteq {r.user}
  /\ r.op = "replace" => r.lines = ActiveKeys

\* Workers that are adding a key: each has a request of its own, so key ids stay
\* within the bound of the model.
Adding == {w \in Workers : workers[w].op = "key"}
KeysCounted == IsFiniteSet(Adding) /\ lastKey + Cardinality(Adding) <= requests

Types ==
  /\ users \in [Ids -> Row]
  /\ extra \subseteq ExtraEmail
  /\ keys \subseteq Key /\ file \subseteq Key
  /\ lastKey \in Nat
  /\ tokens \subseteq Token
  /\ workers \in [Workers -> Request]
  /\ requests \in 0 .. MaxRequests
  /\ unchecked \subseteq {Lower[n] : n \in Names} \cup Emails
  /\ behind \in BOOLEAN
  /\ \A w \in Workers : Formed(workers[w])

WorkersKnow == \A w \in Workers : workers[w].overtaken \/ Knows(workers[w])

\* Keys go with their account.
KeysOwned == \A k \in keys : k.user \in Users

Inv == Types /\ KeysCounted /\ WorkersKnow /\ KeysOwned /\ AccountsDistinct /\ FileFollowsKeys

-----------------------------------------------------------------------------
(* Constants, rows and counts                                              *)

\* What the constants are.
LEMMA Distinctions ==
  /\ \A n \in Names : n \notin Emails
  /\ None \notin Names /\ None \notin Emails /\ None \notin Ids /\ None \notin Fingerprints
  /\ None \notin Account /\ Gone \notin Account
  /\ \A u \in Ids : u \in Nat
  /\ MaxRequests \in Nat /\ AutoActive \in BOOLEAN
BY AccountsAssumption DEF Account, Sources

\* An account is a row that is there.
LEMMA LiveRows ==
  ASSUME Types, NEW u \in Ids
  PROVE  u \in Users <=> users[u] \in Account
BY Distinctions DEF Types, Users, Row

\* An ORM object writes the columns that it changed over those it finds.
LEMMA WrittenColumns ==
  ASSUME NEW row \in Account, NEW old \in Account, NEW new \in Account
  PROVE  /\ Written(row, old, new) \in Account
         /\ Written(row, old, new).name = IF new.name = old.name THEN row.name ELSE new.name
         /\ Written(row, old, new).email = IF new.email = old.email THEN row.email ELSE new.email
         /\ Written(row, old, new).active = IF new.active = old.active THEN row.active ELSE new.active
<1> DEFINE z == Written(row, old, new)
<1>1. DOMAIN row = {"name", "email", "active", "source"}
  BY DEF Account
<1>2. z = [c \in {"name", "email", "active", "source"} |-> IF new[c] = old[c] THEN row[c] ELSE new[c]]
  BY <1>1 DEF Written
<1>3. z = [name |-> IF new.name = old.name THEN row.name ELSE new.name,
           email |-> IF new.email = old.email THEN row.email ELSE new.email,
           active |-> IF new.active = old.active THEN row.active ELSE new.active,
           source |-> IF new.source = old.source THEN row.source ELSE new.source]
  BY <1>2
<1> HIDE DEF z
<1>4. z \in Account
  BY <1>3 DEF Account
<1> QED
  BY <1>3, <1>4 DEF z

\* Fewer workers adding keys count no more.
LEMMA FewerAdding ==
  ASSUME Types, KeysCounted, Adding' \subseteq Adding, lastKey' = lastKey,
         requests' \in Nat, requests <= requests'
  PROVE  KeysCounted'
<1>1. IsFiniteSet(Adding') /\ Cardinality(Adding') <= Cardinality(Adding)
  BY FS_Subset DEF KeysCounted
<1>2. Cardinality(Adding') \in Nat /\ Cardinality(Adding) \in Nat
  BY <1>1, FS_CardinalityType DEF KeysCounted
<1>3. lastKey \in Nat /\ requests \in Nat
  BY DEF Types
<1> QED
  BY <1>1, <1>2, <1>3 DEF KeysCounted

-----------------------------------------------------------------------------
(* Requests and commits                                                    *)

\* What is known stays known while the tables stay.
LEMMA SameKnowledge ==
  ASSUME UNCHANGED <<users, extra, keys, unchecked>>, NEW q, Knows(q)
  PROVE  Knows(q)'
BY DEF Knows, Found, Entered, NameFree, EmailFree, Named, ByEmail, Typed, Users, ActiveKeys

\* A worker goes on with what it knows, and nobody else is concerned.
LEMMA StepAlone ==
  ASSUME Types, WorkersKnow, NEW w \in Workers, NEW r \in Request,
         workers' = [workers EXCEPT ![w] = r],
         UNCHANGED <<users, extra, keys, unchecked>>,
         Formed(r), r.overtaken \/ Knows(r)
  PROVE  /\ workers' \in [Workers -> Request]
         /\ (\A v \in Workers : Formed(workers[v]))'
         /\ WorkersKnow'
<1>1. workers' \in [Workers -> Request] /\ workers'[w] = r
      /\ \A v \in Workers : v # w => workers'[v] = workers[v]
  BY DEF Types
<1>2. (\A v \in Workers : Formed(workers[v]))'
  BY <1>1 DEF Types, Formed
<1>3. ASSUME NEW v \in Workers PROVE (workers[v].overtaken \/ Knows(workers[v]))'
  <2>1. CASE v = w
    BY <1>1, <2>1, SameKnowledge
  <2>2. CASE v # w
    <3>1. workers[v].overtaken \/ Knows(workers[v])
      BY DEF WorkersKnow
    <3>2. workers'[v] = workers[v]
      BY <1>1, <2>2
    <3> QED
      BY <3>1, <3>2, SameKnowledge
  <2> QED
    BY <2>1, <2>2
<1>4. WorkersKnow'
  BY <1>3 DEF WorkersKnow
<1> QED
  BY <1>1, <1>2, <1>4

\* A request that begins takes what it has just looked up.
LEMMA BeginKeeps ==
  ASSUME Inv, NEW w \in Workers, NEW r \in Request, Begin(w, r),
         UNCHANGED <<tables, file, unchecked, behind>>,
         r.op \notin {"idle", "replace"}, Formed(r), Knows(r)
  PROVE  Inv'
<1>1. UNCHANGED <<users, extra, keys, lastKey, tokens, file, unchecked, behind>>
  BY DEF tables
<1>2. /\ workers' = [workers EXCEPT ![w] = r] /\ workers[w] = Idle
      /\ requests' = requests + 1 /\ requests < MaxRequests
  BY DEF Begin
<1>3. Types /\ WorkersKnow /\ KeysCounted
  BY DEF Inv
<1>4. /\ workers' \in [Workers -> Request]
      /\ (\A v \in Workers : Formed(workers[v]))'
      /\ WorkersKnow'
  BY <1>1, <1>2, <1>3, StepAlone
<1>5. requests \in Nat /\ requests' \in 0 .. MaxRequests /\ requests' \in Nat
  BY <1>2, <1>3, Distinctions DEF Types
<1>6. Types'
  BY <1>1, <1>3, <1>4, <1>5 DEF Types
<1>7. KeysCounted'
  <2>1. Adding' \subseteq Adding \cup {w}
    BY <1>2, <1>3 DEF Adding, Types
  <2>2. IsFiniteSet(Adding \cup {w}) /\ Cardinality(Adding \cup {w}) <= Cardinality(Adding) + 1
        /\ Cardinality(Adding) \in Nat
    <3>1. IsFiniteSet(Adding) /\ Cardinality(Adding) \in Nat
      BY <1>3, FS_CardinalityType DEF KeysCounted
    <3>2. /\ IsFiniteSet(Adding \cup {w})
          /\ \/ Cardinality(Adding \cup {w}) = Cardinality(Adding)
             \/ Cardinality(Adding \cup {w}) = Cardinality(Adding) + 1
      BY <3>1, FS_AddElement
    <3> QED
      BY <3>1, <3>2
  <2>3. IsFiniteSet(Adding') /\ Cardinality(Adding') <= Cardinality(Adding \cup {w})
    BY <2>1, <2>2, FS_Subset
  <2>4. Cardinality(Adding') \in Nat /\ Cardinality(Adding \cup {w}) \in Nat
    BY <2>2, <2>3, FS_CardinalityType
  <2>5. lastKey \in Nat /\ lastKey + Cardinality(Adding) <= requests
    BY <1>3 DEF Types, KeysCounted
  <2> QED
    BY <1>1, <1>2, <1>5, <2>2, <2>3, <2>4, <2>5 DEF KeysCounted
<1>8. KeysOwned' /\ AccountsDistinct'
  BY <1>1 DEF Inv, KeysOwned, AccountsDistinct, Users, Named
<1>9. FileFollowsKeys'
  <2>1. \A v \in Workers : workers'[v].op \notin {"write", "replace"}
                             => workers[v].op \notin {"write", "replace"}
    BY <1>2, <1>3 DEF Idle, Types
  <2>2. ActiveKeys' = ActiveKeys
    BY <1>1 DEF ActiveKeys
  <2> QED
    BY <1>1, <2>1, <2>2 DEF Inv, FileFollowsKeys
<1> QED
  BY <1>4, <1>6, <1>7, <1>8, <1>9 DEF Inv

\* A worker goes on, alone, and neither adds a key nor ends a writing.
LEMMA GoOnKeeps ==
  ASSUME Inv, NEW w \in Workers, NEW r \in Request, workers' = [workers EXCEPT ![w] = r],
         UNCHANGED <<users, extra, keys, lastKey, file, requests, unchecked, behind>>,
         tokens' \subseteq Token, r.op # "key",
         workers[w].op \in {"write", "replace"} => r.op \in {"write", "replace"},
         Formed(r), r.overtaken \/ Knows(r)
  PROVE  Inv'
<1>1. Types /\ WorkersKnow /\ KeysCounted
  BY DEF Inv
<1>2. /\ workers' \in [Workers -> Request]
      /\ (\A v \in Workers : Formed(workers[v]))'
      /\ WorkersKnow'
  BY <1>1, StepAlone
<1>3. Types'
  BY <1>1, <1>2 DEF Types
<1>4. KeysCounted'
  <2>1. Adding' \subseteq Adding
    BY <1>1 DEF Adding, Types
  <2>2. requests \in Nat /\ requests' = requests
    BY <1>1, Distinctions DEF Types
  <2> QED
    BY <1>1, <2>1, <2>2, FewerAdding
<1>5. KeysOwned' /\ AccountsDistinct'
  BY DEF Inv, KeysOwned, AccountsDistinct, Users, Named
<1>6. FileFollowsKeys'
  <2>1. \A v \in Workers : workers'[v].op \notin {"write", "replace"}
                             => workers[v].op \notin {"write", "replace"}
    BY <1>1 DEF Types
  <2>2. ActiveKeys' = ActiveKeys
    BY DEF ActiveKeys
  <2> QED
    BY <2>1, <2>2 DEF Inv, FileFollowsKeys
<1> QED
  BY <1>2, <1>3, <1>4, <1>5, <1>6 DEF Inv

\* After a commit the others know nothing for certain.
LEMMA ContinueKeeps ==
  ASSUME Types, WorkersKnow, KeysCounted, NEW w \in Workers, NEW r \in Request,
         Continue(w, r), r.op # "key", Formed(r), r.overtaken \/ Knows(r)'
  PROVE  /\ workers' \in [Workers -> Request] /\ workers'[w] = r
         /\ \A v \in Workers : v # w => workers'[v].op = workers[v].op
         /\ (\A v \in Workers : Formed(workers[v]))'
         /\ WorkersKnow'
         /\ Adding' = Adding \ {w}
<1> DEFINE late(v) == [workers[v] EXCEPT !.overtaken = workers[v].op # "idle"]
<1>1. \A v \in Workers : /\ workers[v] \in Request /\ late(v) \in Request
                         /\ late(v).op = workers[v].op
                         /\ late(v).overtaken = (workers[v].op # "idle")
  BY DEF Types, Request
<1>2. \A v \in Workers : Formed(late(v))
  BY DEF Types, Formed, Request
<1>3. workers' = [v \in Workers |-> IF v = w THEN r ELSE late(v)]
  BY DEF Continue
<1> HIDE DEF late
<1>4. /\ workers' \in [Workers -> Request] /\ workers'[w] = r
      /\ \A v \in Workers : v # w => workers'[v] = late(v)
  BY <1>1, <1>3
<1>5. (\A v \in Workers : Formed(workers[v]))'
  BY <1>2, <1>4
<1>6. ASSUME NEW v \in Workers PROVE (workers[v].overtaken \/ Knows(workers[v]))'
  <2>1. CASE v = w
    BY <1>4, <2>1
  <2>2. CASE v # w /\ workers[v].op # "idle"
    BY <1>1, <1>4, <2>2
  <2>3. CASE v # w /\ workers[v].op = "idle"
    <3>1. workers'[v].op = "idle"
      BY <1>1, <1>4, <2>3
    <3> QED
      BY <3>1 DEF Knows
  <2> QED
    BY <2>1, <2>2, <2>3
<1>7. Adding' = Adding \ {w}
  BY <1>1, <1>4 DEF Adding
<1> QED
  BY <1>1, <1>4, <1>5, <1>6, <1>7 DEF WorkersKnow

-----------------------------------------------------------------------------
(* Looking up                                                              *)

\* A request for a new account knows that its name and address are free.
LEMMA BeginCreateKeeps ==
  ASSUME Inv, NEW w \in Workers, NEW new \in Account, NameFree(new.name), EmailFree(new.email),
         Begin(w, [Idle EXCEPT !.op = "create", !.new = new]),
         UNCHANGED <<tables, file, unchecked, behind>>
  PROVE  Inv'
<1> DEFINE r == [Idle EXCEPT !.op = "create", !.new = new]
<1>1. r \in Request /\ r.op = "create" /\ r.new = new /\ r.old = None
  BY DEF Idle, Request, Ops
<1> HIDE DEF r
<1>2. Formed(r) /\ Knows(r)
  BY <1>1 DEF Formed, Knows
<1> QED
  BY <1>1, <1>2, BeginKeeps DEF r

\* A request to change an account knows the row that it loaded, and that the name
\* and the address are free that it is to have instead.
LEMMA BeginUpdateKeeps ==
  ASSUME Inv, NEW w \in Workers, NEW u \in Users, NEW new \in Account, NEW secret \in BOOLEAN,
         new.name # users[u].name => Named(new.name) \subseteq {u},
         new.email # users[u].email => EmailFree(new.email),
         Begin(w, [Idle EXCEPT !.op = "update", !.user = u, !.old = users[u],
                               !.new = new, !.secret = secret]),
         UNCHANGED <<tables, file, unchecked, behind>>
  PROVE  Inv'
<1> DEFINE r == [Idle EXCEPT !.op = "update", !.user = u, !.old = users[u],
                             !.new = new, !.secret = secret]
<1>1. u \in Ids /\ users[u] \in Account
  BY LiveRows DEF Inv, Users
<1>2. r \in Request /\ r.op = "update" /\ r.new = new /\ r.old = users[u] /\ r.user = u
  BY <1>1 DEF Idle, Request, Ops
<1> HIDE DEF r
<1>3. Formed(r) /\ Knows(r)
  BY <1>1, <1>2 DEF Formed, Knows
<1> QED
  BY <1>2, <1>3, BeginKeeps DEF r

\* The forms and the API ask for a free name and a free address.
LEMMA CheckCreateKeeps ==
  ASSUME Inv, NEW w \in Workers, CheckCreate(w) \/ Register(w)
  PROVE  Inv'
<1>1. PICK n \in Names, e \in Emails, active \in BOOLEAN : BeginCreate(w, n, e, active)
  BY Distinctions DEF CheckCreate, Register
<1> DEFINE new == [name |-> n, email |-> e, active |-> active, source |-> "internal"]
<1>2. new \in Account /\ new.name = n /\ new.email = e
  BY DEF Account, Sources
<1>3. /\ NameFree(n) /\ EmailFree(e)
      /\ Begin(w, [Idle EXCEPT !.op = "create", !.new = new])
      /\ UNCHANGED <<tables, file, unchecked, behind>>
  BY <1>1 DEF BeginCreate, MayBecome
<1> HIDE DEF new
<1> QED
  BY <1>2, <1>3, BeginCreateKeeps

\* create_or_update rewrites the account whose name differs in case only.
LEMMA CheckCreateViaApiKeeps ==
  ASSUME Inv, NEW w \in Workers, CheckCreateViaApi(w)
  PROVE  Inv'
<1>1. PICK new \in [name : Names, email : Emails, active : BOOLEAN, source : Sources] :
        /\ EmailFree(new.email)
        /\ \/ /\ Named(new.name) = {}
              /\ Begin(w, [Idle EXCEPT !.op = "create", !.new = new])
           \/ \E u \in Ids :
                /\ Named(new.name) = {u}
                /\ Begin(w, [Idle EXCEPT !.op = "update", !.user = u, !.old = users[u],
                                         !.new = new, !.secret = TRUE])
        /\ UNCHANGED <<tables, file, unchecked, behind>>
  BY DEF CheckCreateViaApi
<1>2. new \in Account
  BY DEF Account
<1>3. CASE /\ Named(new.name) = {}
           /\ Begin(w, [Idle EXCEPT !.op = "create", !.new = new])
  BY <1>1, <1>2, <1>3, BeginCreateKeeps DEF NameFree
<1>4. ASSUME NEW u \in Ids, Named(new.name) = {u},
             Begin(w, [Idle EXCEPT !.op = "update", !.user = u, !.old = users[u],
                                   !.new = new, !.secret = TRUE])
      PROVE  Inv'
  <2>1. u \in Users
    BY <1>4 DEF Named
  <2> QED
    BY <1>1, <1>2, <1>4, <2>1, BeginUpdateKeeps
<1> QED
  BY <1>1, <1>3, <1>4

\* A form changes an account as it may become.
LEMMA UpdateFormKeeps ==
  ASSUME Inv, NEW w \in Workers, NEW u \in Users, NEW n \in Names, NEW e \in Emails,
         NEW active \in BOOLEAN, NEW secret \in BOOLEAN,
         BeginUpdate(w, u, n, e, active, secret)
  PROVE  Inv'
<1> DEFINE name == IF Managed(users[u]) THEN users[u].name ELSE n
           new == [users[u] EXCEPT !.name = name, !.email = e, !.active = active]
           given == secret /\ ~Managed(users[u])
<1>1. users[u] \in Account
  BY LiveRows DEF Inv, Users
<1>2. name \in Names
  BY <1>1 DEF Account
<1> HIDE DEF name
<1>3. new \in Account /\ new.name = name /\ new.email = e
  BY <1>1, <1>2 DEF Account
<1>4. /\ MayBecome(users[u], n, e)
      /\ Begin(w, [Idle EXCEPT !.op = "update", !.user = u, !.old = users[u],
                               !.new = new, !.secret = given])
      /\ UNCHANGED <<tables, file, unchecked, behind>>
  BY DEF BeginUpdate, name
<1>5. users[u] # None
  BY <1>1, Distinctions
<1>6. new.name # users[u].name => Named(new.name) \subseteq {u}
  BY <1>3, <1>4, <1>5 DEF MayBecome, NameFree, name
<1>7. new.email # users[u].email => EmailFree(new.email)
  BY <1>3, <1>4, <1>5 DEF MayBecome
<1>8. given \in BOOLEAN
  OBVIOUS
<1> HIDE DEF new, given
<1> QED
  BY <1>3, <1>4, <1>6, <1>7, <1>8, BeginUpdateKeeps

\* The forms of an account.
LEMMA CheckUpdateKeeps ==
  ASSUME Inv, NEW w \in Workers, CheckUpdate(w) \/ MyAccount(w) \/ MyPassword(w)
  PROVE  Inv'
<1>1. CASE CheckUpdate(w) \/ MyAccount(w)
  BY <1>1, UpdateFormKeeps DEF CheckUpdate, MyAccount
<1>2. CASE MyPassword(w)
  <2>1. PICK u \in Users :
          /\ Begin(w, [Idle EXCEPT !.op = "update", !.user = u, !.old = users[u],
                                   !.new = users[u], !.secret = TRUE])
          /\ UNCHANGED <<tables, file, unchecked, behind>>
    BY <1>2 DEF MyPassword
  <2>2. users[u] \in Account
    BY LiveRows DEF Inv, Users
  <2> QED
    BY <2>1, <2>2, BeginUpdateKeeps
<1> QED
  BY <1>1, <1>2

\* add_extra_email asks for a free address.
LEMMA CheckEmailKeeps ==
  ASSUME Inv, NEW w \in Workers, CheckEmail(w)
  PROVE  Inv'
<1>1. PICK u \in Users, e \in Emails :
        /\ EmailFree(e)
        /\ Begin(w, [Idle EXCEPT !.op = "email", !.user = u, !.typed = e])
        /\ UNCHANGED <<tables, file, unchecked, behind>>
  BY DEF CheckEmail
<1> DEFINE r == [Idle EXCEPT !.op = "email", !.user = u, !.typed = e]
<1>2. r \in Request /\ r.op = "email" /\ r.user = u /\ r.user \in Ids /\ r.typed = e
  BY DEF Idle, Request, Ops, Users
<1>3. Begin(w, r)
  BY <1>1
<1> HIDE DEF r
<1>4. Formed(r) /\ Knows(r)
  BY <1>1, <1>2 DEF Formed, Knows
<1> QED
  BY <1>1, <1>2, <1>3, <1>4, BeginKeeps

\* A login finds one account, or none, by what was entered.
LEMMA LookUpKeeps ==
  ASSUME Inv, NEW w \in Workers, LookUp(w)
  PROVE  Inv'
<1>1. PICK t \in Names \cup Emails :
        /\ \/ \E u \in Users :
                /\ Typed(t) = {u}
                /\ users[u].active
                /\ Begin(w, [Idle EXCEPT !.op = AcceptedBy(users[u].source), !.user = u,
                                         !.asked = u, !.old = users[u], !.typed = t])
           \/ /\ t \in Names
              /\ Typed(t) = {}
              /\ Begin(w, [Idle EXCEPT !.op = "ask", !.typed = t])
        /\ UNCHANGED <<tables, file, unchecked, behind>>
  BY DEF LookUp
<1>2. ASSUME NEW u \in Users, Typed(t) = {u},
             Begin(w, [Idle EXCEPT !.op = AcceptedBy(users[u].source), !.user = u,
                                   !.asked = u, !.old = users[u], !.typed = t])
      PROVE  Inv'
  <2> DEFINE r == [Idle EXCEPT !.op = AcceptedBy(users[u].source), !.user = u,
                               !.asked = u, !.old = users[u], !.typed = t]
  <2>1. u \in Ids /\ users[u] \in Account /\ u # None
    BY LiveRows, Distinctions DEF Inv, Users
  <2>2. /\ AcceptedBy(users[u].source) \in {"open", "ask"}
        /\ AcceptedBy(users[u].source) = "ask" => users[u].source = "external"
    BY <2>1 DEF AcceptedBy, Account, Sources
  <2>3. /\ r \in Request /\ r.op = AcceptedBy(users[u].source) /\ r.user = u /\ r.asked = u
        /\ r.old = users[u] /\ r.typed = t
    BY <2>1, <2>2 DEF Idle, Request, Ops
  <2>4. Begin(w, r)
    BY <1>2
  <2> HIDE DEF r
  <2>5. Formed(r)
    BY <2>1, <2>2, <2>3 DEF Formed
  <2>6. Knows(r)
    BY <1>2, <2>1, <2>2, <2>3 DEF Knows, Found
  <2> QED
    BY <1>1, <2>2, <2>3, <2>4, <2>5, <2>6, BeginKeeps
<1>3. ASSUME t \in Names, Typed(t) = {}, Begin(w, [Idle EXCEPT !.op = "ask", !.typed = t])
      PROVE  Inv'
  <2> DEFINE r == [Idle EXCEPT !.op = "ask", !.typed = t]
  <2>1. /\ r \in Request /\ r.op = "ask" /\ r.asked = None /\ r.old = None /\ r.typed = t
    BY DEF Idle, Request, Ops
  <2>2. Begin(w, r)
    BY <1>3
  <2> HIDE DEF r
  <2>3. Formed(r)
    BY <1>3, <2>1 DEF Formed
  <2>4. Named(t) = {}
    BY <1>3, Distinctions DEF Typed
  <2>5. Knows(r)
    BY <2>1, <2>4 DEF Knows, Found
  <2> QED
    BY <1>1, <2>1, <2>2, <2>3, <2>5, BeginKeeps
<1> QED
  BY <1>1, <1>2, <1>3

\* A token is verified for the account that its address finds.
LEMMA VerifyTokenKeeps ==
  ASSUME Inv, NEW w \in Workers, VerifyToken(w)
  PROVE  Inv'
<1>1. PICK e \in Emails, u \in Users :
        /\ ByEmail(e) = {u}
        /\ Begin(w, [Idle EXCEPT !.op = "reset", !.user = u, !.typed = e])
        /\ UNCHANGED <<tables, file, unchecked, behind>>
  BY DEF VerifyToken
<1> DEFINE r == [Idle EXCEPT !.op = "reset", !.user = u, !.typed = e]
<1>2. r \in Request /\ r.op = "reset" /\ r.user = u /\ r.user \in Ids /\ r.typed = e
  BY DEF Idle, Request, Ops, Users
<1>3. Begin(w, r)
  BY <1>1
<1> HIDE DEF r
<1>4. Formed(r) /\ Knows(r)
  BY <1>1, <1>2 DEF Formed, Knows, Typed
<1> QED
  BY <1>1, <1>2, <1>3, <1>4, BeginKeeps

\* A key is entered; the file is to be written.
LEMMA CheckKeyKeeps ==
  ASSUME Inv, NEW w \in Workers, CheckKey(w) \/ UpdateKeyFile(w)
  PROVE  Inv'
<1>1. CASE CheckKey(w)
  <2>1. PICK u \in Users, f \in Fingerprints :
          /\ Begin(w, [Idle EXCEPT !.op = "key", !.user = u, !.typed = f])
          /\ UNCHANGED <<tables, file, unchecked, behind>>
    BY <1>1 DEF CheckKey
  <2> DEFINE r == [Idle EXCEPT !.op = "key", !.user = u, !.typed = f]
  <2>2. r \in Request /\ r.op = "key" /\ r.user = u /\ r.user \in Ids /\ r.typed = f
    BY DEF Idle, Request, Ops, Users
  <2>3. Begin(w, r)
    BY <2>1
  <2> HIDE DEF r
  <2>4. Formed(r) /\ Knows(r)
    BY <2>2 DEF Formed, Knows
  <2> QED
    BY <2>1, <2>2, <2>3, <2>4, BeginKeeps
<1>2. CASE UpdateKeyFile(w)
  <2> DEFINE r == [Idle EXCEPT !.op = "write"]
  <2>1. r \in Request /\ r.op = "write"
    BY DEF Idle, Request, Ops
  <2>2. Begin(w, r) /\ UNCHANGED <<tables, file, unchecked, behind>>
    BY <1>2 DEF UpdateKeyFile
  <2> HIDE DEF r
  <2>3. Formed(r) /\ Knows(r)
    BY <2>1 DEF Formed, Knows
  <2> QED
    BY <2>1, <2>2, <2>3, BeginKeeps
<1> QED
  BY <1>1, <1>2

-----------------------------------------------------------------------------
(* Going on without a commit                                               *)

\* A worker that waits for nothing knows nothing.
LEMMA IdleKnows ==
  Idle \in Request /\ Idle.op = "idle" /\ Formed(Idle) /\ Knows(Idle) /\ Knows(Idle)'
BY DEF Idle, Request, Ops, Formed, Knows

\* The directory answers with a name that differs in case only; so the account
\* that is found again is the one that was found first.
LEMMA AnswerKeeps ==
  ASSUME Inv, NEW w \in Workers, Answer(w)
  PROVE  Inv'
<1> DEFINE r == workers[w]
<1>1. r \in Request /\ r.op = "ask" /\ Formed(r) /\ (r.overtaken \/ Knows(r))
  BY DEF Answer, Inv, Types, WorkersKnow
<1>2. /\ r.typed \in Names \cup Emails
      /\ r.asked = None => r.old = None /\ r.typed \in Names
      /\ r.asked # None => r.asked \in Ids /\ r.old \in Account
  BY <1>1 DEF Formed
<1>3. UNCHANGED <<users, extra, keys, lastKey, tokens, file, requests, unchecked, behind>>
  BY DEF Answer, tables
<1>4. PICK new \in Answers(r) :
        \/ /\ Named(new.name) = {}
           /\ workers' = [workers EXCEPT ![w] =
                [r EXCEPT !.op = "save", !.user = None, !.old = None, !.new = new]]
        \/ \E u \in Ids :
             /\ Named(new.name) = {u}
             /\ workers' = [workers EXCEPT ![w] =
                  [r EXCEPT !.op = "save", !.user = u, !.new = new,
                            !.old = IF u = r.asked THEN @ ELSE users[u]]]
  BY DEF Answer
<1>5. tokens' \subseteq Token
  BY <1>3 DEF Inv, Types
<1> HIDE DEF r
<1>6. AskedFor(r) \in Names
  BY <1>2 DEF AskedFor, Known, Account
<1>7. /\ new \in Account
      /\ Lower[new.name] = Lower[AskedFor(r)]
      /\ r.asked # None => new.active = r.old.active
  BY <1>2, <1>6 DEF Answers, LdapNames, CrowdNames, PamEmails, ContainerEmails, EmailKnown,
                    Known, Account, Sources
<1>8. new.name \in Names
  BY <1>7 DEF Account
<1>9. ~r.overtaken => Found(r)
  BY <1>1 DEF Knows
<1>10. ~r.overtaken /\ r.asked = None =>
         /\ Lower[new.name] = Lower[r.typed] /\ r.typed \in Names
         /\ Named(new.name) = {}
  BY <1>2, <1>7, <1>9 DEF AskedFor, Known, Found, Named
<1>11. ~r.overtaken /\ r.asked # None =>
         /\ Lower[new.name] = Lower[r.old.name] /\ r.asked \in Named(new.name)
         /\ new.active = r.old.active
  BY <1>7, <1>9 DEF AskedFor, Known, Found, Named
<1>12. CASE /\ Named(new.name) = {}
            /\ workers' = [workers EXCEPT ![w] =
                 [r EXCEPT !.op = "save", !.user = None, !.old = None, !.new = new]]
  <2> DEFINE q == [r EXCEPT !.op = "save", !.user = None, !.old = None, !.new = new]
  <2>1. /\ q \in Request /\ q.op = "save" /\ q.user = None /\ q.old = None /\ q.new = new
        /\ q.asked = r.asked /\ q.typed = r.typed /\ q.overtaken = r.overtaken
    BY <1>1, <1>7 DEF Request, Ops
  <2>2. workers' = [workers EXCEPT ![w] = q]
    BY <1>12
  <2> HIDE DEF q
  <2>3. Formed(q)
    BY <1>2, <1>7, <2>1 DEF Formed
  <2>4. ~q.overtaken => Knows(q)
    <3>1. SUFFICES ASSUME ~r.overtaken PROVE Knows(q)
      BY <2>1
    <3>2. r.asked = None
      BY <1>11, <1>12, <3>1
    <3>3. Found(q)
      BY <1>9, <2>1, <3>1, <3>2 DEF Found
    <3> QED
      BY <1>10, <1>12, <2>1, <3>1, <3>2, <3>3 DEF Knows
  <2>5. workers[w].op \notin {"write", "replace"}
    BY <1>1 DEF r
  <2> QED
    BY <1>3, <1>5, <2>1, <2>2, <2>3, <2>4, <2>5, GoOnKeeps
<1>13. ASSUME NEW u \in Ids, Named(new.name) = {u},
              workers' = [workers EXCEPT ![w] =
                [r EXCEPT !.op = "save", !.user = u, !.new = new,
                          !.old = IF u = r.asked THEN @ ELSE users[u]]]
       PROVE  Inv'
  <2> DEFINE old == IF u = r.asked THEN r.old ELSE users[u]
             q == [r EXCEPT !.op = "save", !.user = u, !.new = new, !.old = old]
  <2>1. users[u] \in Account /\ u # None
    BY <1>13, LiveRows, Distinctions DEF Inv, Named
  <2>2. old \in Account
    BY <1>2, <2>1
  <2>3. workers' = [workers EXCEPT ![w] = q]
    BY <1>1, <1>13 DEF Request
  <2> HIDE DEF old
  <2>4. /\ q \in Request /\ q.op = "save" /\ q.user = u /\ q.old = old /\ q.new = new
        /\ q.asked = r.asked /\ q.typed = r.typed /\ q.overtaken = r.overtaken
    BY <1>1, <1>7, <2>2 DEF Request, Ops
  <2> HIDE DEF q
  <2>5. Formed(q)
    BY <1>2, <1>7, <2>1, <2>2, <2>4 DEF Formed
  <2>6. ~q.overtaken => Knows(q)
    <3>1. SUFFICES ASSUME ~r.overtaken PROVE Knows(q)
      BY <2>4
    <3>2. r.asked # None /\ u = r.asked
      BY <1>10, <1>11, <1>13, <3>1
    <3>3. old = r.old
      BY <3>2 DEF old
    <3>4. Found(q)
      BY <1>9, <2>4, <3>1, <3>3 DEF Found
    <3> QED
      BY <1>11, <1>13, <2>4, <3>1, <3>2, <3>3, <3>4 DEF Knows
  <2>7. workers[w].op \notin {"write", "replace"}
    BY <1>1 DEF r
  <2> QED
    BY <1>3, <1>5, <2>3, <2>4, <2>5, <2>6, <2>7, GoOnKeeps
<1> QED
  BY <1>4, <1>12, <1>13

\* A session is opened, or a password reset, and the worker is free again.
LEMMA EndKeeps ==
  ASSUME Inv, NEW w \in Workers,
         OpenSession(w) \/ OpenContainerSession(w) \/ AuthorizeClient(w) \/ Reset(w)
  PROVE  Inv'
<1>1. /\ workers' = [workers EXCEPT ![w] = Idle] /\ workers[w].op \in {"open", "reset"}
      /\ UNCHANGED <<users, extra, keys, lastKey, file, requests, unchecked, behind>>
      /\ tokens' \subseteq tokens
  BY DEF OpenSession, OpenContainerSession, AuthorizeClient, LogIn, Reset, Forget, tables
<1>2. tokens' \subseteq Token
  BY <1>1 DEF Inv, Types
<1> QED
  BY <1>1, <1>2, IdleKnows, GoOnKeeps

\* The rows of the file are read.
LEMMA ReadKeysKeeps ==
  ASSUME Inv, NEW w \in Workers, ReadKeys(w)
  PROVE  Inv'
<1> DEFINE r == [Idle EXCEPT !.op = "replace", !.lines = ActiveKeys]
<1>1. ActiveKeys \in SUBSET Key
  BY DEF Inv, Types, ActiveKeys
<1>2. r \in Request /\ r.op = "replace" /\ r.lines = ActiveKeys
  BY <1>1 DEF Idle, Request, Ops
<1>3. /\ workers' = [workers EXCEPT ![w] = r]
      /\ UNCHANGED <<users, extra, keys, lastKey, tokens, file, requests, unchecked, behind>>
  BY DEF ReadKeys, tables
<1> HIDE DEF r
<1>4. Formed(r) /\ Knows(r)
  BY <1>2 DEF Formed, Knows
<1>5. tokens' \subseteq Token
  BY <1>3 DEF Inv, Types
<1> QED
  BY <1>2, <1>3, <1>4, <1>5, GoOnKeeps

\* The file takes the place of the old one, and a worker ends.  A file that no
\* commit has overtaken is the list of the active keys.
LEMMA ReplaceFileKeeps ==
  ASSUME Inv, NEW w \in Workers, ReplaceFile(w) \/ Fail(w)
  PROVE  Inv'
<1>1. Types /\ WorkersKnow /\ KeysCounted
  BY DEF Inv
<1>2. /\ workers' = [workers EXCEPT ![w] = Idle]
      /\ UNCHANGED <<users, extra, keys, lastKey, tokens, requests, unchecked>>
  BY DEF ReplaceFile, Fail, tables
<1>3. /\ workers' \in [Workers -> Request]
      /\ (\A v \in Workers : Formed(workers[v]))'
      /\ WorkersKnow'
  BY <1>1, <1>2, IdleKnows, StepAlone
<1>4. workers[w] \in Request
  BY <1>1 DEF Types
<1>5. file' \subseteq Key /\ behind' \in BOOLEAN
  BY <1>1, <1>4 DEF ReplaceFile, Fail, Types, Request
<1>6. Types'
  BY <1>1, <1>2, <1>3, <1>5 DEF Types
<1>7. KeysCounted'
  <2>1. Adding' \subseteq Adding
    BY <1>1, <1>2, IdleKnows DEF Adding, Types
  <2>2. requests \in Nat /\ requests' = requests
    BY <1>1, <1>2, Distinctions DEF Types
  <2> QED
    BY <1>1, <1>2, <2>1, <2>2, FewerAdding
<1>8. KeysOwned' /\ AccountsDistinct'
  BY <1>2 DEF Inv, KeysOwned, AccountsDistinct, Users, Named
<1>9. FileFollowsKeys'
  <2>1. ActiveKeys' = ActiveKeys
    BY <1>2 DEF ActiveKeys
  <2>2. CASE ReplaceFile(w)
    <3>1. ~workers[w].overtaken => workers[w].lines = ActiveKeys
      BY <1>1, <2>2 DEF ReplaceFile, WorkersKnow, Knows
    <3> QED
      BY <2>1, <2>2, <3>1 DEF ReplaceFile, FileFollowsKeys
  <2>3. CASE Fail(w)
    <3>1. \A v \in Workers : v # w => workers'[v] = workers[v]
      BY <1>1, <1>2 DEF Types
    <3>2. workers[w].op \in {"write", "replace"} => behind'
      BY <2>3 DEF Fail
    <3>3. ~behind' => ~behind
      BY <2>3 DEF Fail
    <3>4. file' = file
      BY <2>3 DEF Fail
    <3> QED
      BY <2>1, <3>1, <3>2, <3>3, <3>4 DEF Inv, FileFollowsKeys
  <2> QED
    BY <2>2, <2>3
<1> QED
  BY <1>3, <1>6, <1>7, <1>8, <1>9 DEF Inv

\* A token is given for an account of its own with a main address; it expires.
LEMMA TokensKeep ==
  ASSUME Inv, (\E w \in Workers : RequestReset(w)) \/ ExpireToken
  PROVE  Inv'
<1>1. /\ UNCHANGED <<users, extra, keys, lastKey, file, workers, unchecked, behind>>
      /\ requests' = requests \/ (requests < MaxRequests /\ requests' = requests + 1)
  BY DEF RequestReset, ExpireToken
<1>2. tokens' \subseteq Token
  <2>1. CASE ExpireToken
    BY <2>1 DEF ExpireToken, Inv, Types
  <2>2. ASSUME NEW w \in Workers, RequestReset(w) PROVE tokens' \subseteq Token
    <3>1. PICK u \in Users : /\ users[u].email # None
                             /\ tokens' = tokens \cup {[user |-> u, email |-> users[u].email]}
      BY <2>2 DEF RequestReset
    <3>2. u \in Ids /\ users[u] \in Account
      BY LiveRows DEF Inv, Users
    <3>3. users[u].email \in Emails
      BY <3>1, <3>2 DEF Account
    <3> QED
      BY <3>1, <3>2, <3>3 DEF Inv, Types, Token
  <2> QED
    BY <2>1, <2>2
<1>3. requests \in Nat /\ requests' \in 0 .. MaxRequests /\ requests' \in Nat
      /\ requests <= requests'
  BY <1>1, Distinctions DEF Inv, Types
<1>4. Types'
  BY <1>1, <1>2, <1>3 DEF Inv, Types, Formed
<1>5. KeysCounted'
  BY <1>1, <1>3, FewerAdding DEF Inv, Adding
<1>6. WorkersKnow'
  BY <1>1, SameKnowledge DEF Inv, WorkersKnow
<1>7. KeysOwned' /\ AccountsDistinct' /\ FileFollowsKeys'
  BY <1>1 DEF Inv, KeysOwned, AccountsDistinct, FileFollowsKeys, ActiveKeys, Users, Named
<1> QED
  BY <1>4, <1>5, <1>6, <1>7 DEF Inv

-----------------------------------------------------------------------------
(* Commits                                                                 *)

\* Row u becomes row: its name and address are those it had, or noted as
\* unchecked, or free.
Allowed(u, row) ==
  /\ \/ u \in Users /\ row.name = users[u].name
     \/ Lower[row.name] \in unchecked'
     \/ Named(row.name) \subseteq {u}
  /\ \/ u \in Users /\ row.email = users[u].email
     \/ row.email \in unchecked' \cup {None}
     \/ EmailFree(row.email)

RowChanged(u, row) ==
  /\ users' = [users EXCEPT ![u] = row]
  /\ extra' = extra
  /\ unchecked \subseteq unchecked'

\* What another row is after the change.
LEMMA OtherRows ==
  ASSUME Types, NEW u \in Ids, NEW row \in Account, users' = [users EXCEPT ![u] = row]
  PROVE  /\ users'[u] = row /\ users' \in [Ids -> Row]
         /\ \A v \in Ids : v # u => users'[v] = users[v]
         /\ Users' = Users \cup {u}
         /\ row # None /\ row # Gone
<1>1. row # None /\ row # Gone
  BY Distinctions
<1>2. users'[u] = row /\ users' \in [Ids -> Row] /\ \A v \in Ids : v # u => users'[v] = users[v]
  BY DEF Types, Row
<1>3. Users' = Users \cup {u}
  BY <1>1, <1>2 DEF Users
<1> QED
  BY <1>1, <1>2, <1>3

\* A row that is allowed keeps accounts distinct, but for what is noted.
LEMMA AllowedKeepsDistinct ==
  ASSUME Types, AccountsDistinct, NEW u \in Ids, NEW row \in Account,
         RowChanged(u, row), Allowed(u, row)
  PROVE  AccountsDistinct'
<1>1. /\ users'[u] = row
      /\ \A v \in Ids : v # u => users'[v] = users[v]
      /\ Users' = Users \cup {u} /\ Users \subseteq Ids
      /\ extra' = extra /\ unchecked \subseteq unchecked'
  BY OtherRows DEF RowChanged, Users
<1>2. ASSUME NEW v \in Users, v # u, Lower[users[v].name] = Lower[row.name]
      PROVE  Lower[row.name] \in unchecked'
  <2>1. CASE u \in Users /\ row.name = users[u].name
    BY <1>1, <1>2, <2>1 DEF AccountsDistinct, Named
  <2>2. CASE Named(row.name) \subseteq {u}
    BY <1>2, <2>2 DEF Named
  <2> QED
    BY <2>1, <2>2 DEF Allowed
<1>3. ASSUME NEW x \in extra, row.email = x.email
      PROVE  x.email \in unchecked'
  <2>1. CASE u \in Users /\ row.email = users[u].email
    BY <1>1, <1>3, <2>1 DEF AccountsDistinct
  <2>2. CASE row.email \in unchecked' \cup {None}
    BY <1>3, <2>2, Distinctions DEF Types, ExtraEmail
  <2>3. CASE EmailFree(row.email)
    BY <1>3, <2>3 DEF EmailFree, ByEmail
  <2> QED
    BY <2>1, <2>2, <2>3 DEF Allowed
<1>4. ASSUME NEW v \in Users', NEW z \in Users', z # v,
             Lower[users'[z].name] = Lower[users'[v].name]
      PROVE  Lower[users'[v].name] \in unchecked'
  <2>1. CASE v = u
    BY <1>1, <1>2, <1>4, <2>1
  <2>2. CASE z = u
    BY <1>1, <1>2, <1>4, <2>2
  <2>3. CASE v # u /\ z # u
    BY <1>1, <1>4, <2>3 DEF AccountsDistinct, Named
  <2> QED
    BY <2>1, <2>2, <2>3
<1>5. ASSUME NEW v \in Users', NEW x \in extra', users'[v].email = x.email
      PROVE  x.email \in unchecked'
  BY <1>1, <1>3, <1>5 DEF AccountsDistinct
<1> QED
  BY <1>4, <1>5 DEF AccountsDistinct, Named

\* A commit of a row that is allowed keeps the invariant.
LEMMA RowKeeps ==
  ASSUME Inv, NEW w \in Workers, NEW r \in Request, Continue(w, r),
         workers[w].op \notin {"write", "replace"}, r.op \in {"idle", "open"},
         Formed(r), r.overtaken \/ Knows(r)',
         NEW u \in Ids, NEW row \in Account, RowChanged(u, row), Allowed(u, row),
         UNCHANGED <<keys, file, lastKey>>, tokens' \subseteq Token,
         requests' \in 0 .. MaxRequests, requests <= requests',
         unchecked' \subseteq {Lower[n] : n \in Names} \cup Emails,
         behind' \in BOOLEAN, ~behind' => ~behind /\ ActiveKeys' = ActiveKeys
  PROVE  Inv'
<1>1. Types /\ WorkersKnow /\ KeysCounted
  BY DEF Inv
<1>2. /\ workers' \in [Workers -> Request]
      /\ \A v \in Workers : v # w => workers'[v].op = workers[v].op
      /\ (\A v \in Workers : Formed(workers[v]))'
      /\ WorkersKnow'
      /\ Adding' = Adding \ {w}
  BY <1>1, ContinueKeeps
<1>3. users' \in [Ids -> Row] /\ Users' = Users \cup {u}
  BY <1>1, OtherRows DEF RowChanged
<1>4. Types'
  BY <1>1, <1>2, <1>3 DEF Types, RowChanged
<1>5. KeysCounted'
  BY <1>1, <1>2, FewerAdding, Distinctions
<1>6. KeysOwned'
  BY <1>3 DEF Inv, KeysOwned
<1>7. AccountsDistinct'
  BY <1>1, AllowedKeepsDistinct DEF Inv
<1>8. FileFollowsKeys'
  BY <1>2 DEF Inv, FileFollowsKeys
<1> QED
  BY <1>2, <1>4, <1>5, <1>6, <1>7, <1>8 DEF Inv

\* An account that is created has no key yet.
LEMMA NewHasNoKeys ==
  ASSUME Inv, NEW u \in Ids, u \notin Users, NEW row \in Account,
         users' = [users EXCEPT ![u] = row], keys' = keys
  PROVE  ActiveKeys' = ActiveKeys
<1>1. \A k \in keys : k.user \in Ids /\ k.user # u
  BY DEF Inv, KeysOwned, Users
<1>2. \A k \in keys : users'[k.user] = users[k.user]
  BY <1>1, OtherRows DEF Inv
<1> QED
  BY <1>2 DEF ActiveKeys

\* What is noted are names and addresses.
LEMMA NotedNames ==
  ASSUME NEW old, NEW new \in Account
  PROVE  NameOf(old, new) \cup EmailOf(old, new) \subseteq {Lower[n] : n \in Names} \cup Emails
BY DEF NameOf, EmailOf, Account

\* What a request that looked itself up writes is free or noted, and so is what an
\* overtaken request writes.
LEMMA WrittenIsAllowed ==
  ASSUME Types, NEW u \in Users, NEW old \in Account, NEW new \in Account, NEW late \in BOOLEAN,
         late => NameOf(old, new) \cup EmailOf(old, new) \subseteq unchecked',
         ~late => /\ new.name # old.name => Named(new.name) \subseteq {u}
                  /\ new.email # old.email => \/ EmailFree(new.email)
                                              \/ EmailOf(old, new) \subseteq unchecked'
  PROVE  Written(users[u], old, new) \in Account /\ Allowed(u, Written(users[u], old, new))
<1>1. u \in Ids /\ users[u] \in Account
  BY LiveRows DEF Users
<1> DEFINE row == Written(users[u], old, new)
<1>2. /\ row \in Account
      /\ row.name = IF new.name = old.name THEN users[u].name ELSE new.name
      /\ row.email = IF new.email = old.email THEN users[u].email ELSE new.email
  BY <1>1, WrittenColumns
<1> HIDE DEF row
<1>3. old # None
  BY Distinctions
<1>4. \/ row.name = users[u].name
      \/ Lower[row.name] \in unchecked'
      \/ Named(row.name) \subseteq {u}
  BY <1>2, <1>3 DEF NameOf
<1>5. \/ row.email = users[u].email
      \/ row.email \in unchecked' \cup {None}
      \/ EmailFree(row.email)
  BY <1>2, <1>3 DEF EmailOf
<1>6. Allowed(u, row)
  BY <1>4, <1>5 DEF Allowed
<1> QED
  BY <1>2, <1>6 DEF row

\* The id of a new account is one that no account has.
LEMMA NextIsNew ==
  ASSUME NEW u \in NextIds
  PROVE  u \in Ids /\ u \notin Users
BY DEF NextIds, Users

\* A new account that nobody overtook has a name and an address that are free.
LEMMA CommitCreateKeeps ==
  ASSUME Inv, NEW w \in Workers, CommitCreate(w)
  PROVE  Inv'
<1> DEFINE r == workers[w]
<1>1. /\ r \in Request /\ r.op = "create" /\ Formed(r) /\ (r.overtaken \/ Knows(r))
      /\ r.overtaken \in BOOLEAN
  BY DEF CommitCreate, Inv, Types, WorkersKnow, Request
<1>2. PICK u \in NextIds : users' = [users EXCEPT ![u] = r.new]
  BY DEF CommitCreate, WriteRows
<1>3. u \in Ids /\ u \notin Users
  BY NextIsNew
<1>4. /\ Continue(w, Idle) /\ NoteUnchecked(r)
      /\ UNCHANGED <<extra, keys, file, lastKey, tokens, requests, behind>>
  BY DEF CommitCreate
<1> HIDE DEF r
<1>5. r.new \in Account
  BY <1>1 DEF Formed
<1>6. /\ unchecked \subseteq unchecked'
      /\ unchecked' \subseteq {Lower[n] : n \in Names} \cup Emails
      /\ r.overtaken => NameOf(r.old, r.new) \cup EmailOf(r.old, r.new) \subseteq unchecked'
  BY <1>4, <1>5, NotedNames DEF NoteUnchecked, Inv, Types
<1>7. Allowed(u, r.new)
  <2>1. CASE r.overtaken
    <3>1. r.old = None
      BY <1>1 DEF Formed
    <3>2. Lower[r.new.name] \in unchecked' /\ r.new.email \in unchecked' \cup {None}
      BY <1>6, <2>1, <3>1 DEF NameOf, EmailOf
    <3> QED
      BY <3>2 DEF Allowed
  <2>2. CASE ~r.overtaken
    <3>1. Named(r.new.name) = {} /\ EmailFree(r.new.email)
      BY <1>1, <2>2 DEF Knows, NameFree
    <3> QED
      BY <3>1 DEF Allowed
  <2> QED
    BY <2>1, <2>2
<1>8. RowChanged(u, r.new)
  BY <1>2, <1>4, <1>6 DEF RowChanged
<1>9. ActiveKeys' = ActiveKeys
  BY <1>2, <1>3, <1>4, <1>5, NewHasNoKeys
<1>10. /\ tokens' \subseteq Token /\ requests' \in 0 .. MaxRequests /\ requests <= requests'
       /\ behind' \in BOOLEAN
  BY <1>4, Distinctions DEF Inv, Types
<1>11. workers[w].op \notin {"write", "replace"}
  BY <1>1 DEF r
<1> QED
  BY <1>3, <1>4, <1>5, <1>6, <1>7, <1>8, <1>9, <1>10, <1>11, IdleKnows, RowKeeps

\* A change of the active keys that no writing follows is noted.
LEMMA NotedKeys ==
  ASSUME Inv, NoteKeys
  PROVE  behind' \in BOOLEAN /\ (~behind' => ~behind /\ ActiveKeys' = ActiveKeys)
<1>1. behind \in BOOLEAN
  BY DEF Inv, Types
<1> QED
  BY <1>1, Zenon DEF NoteKeys

\* A change of an account that nobody overtook is of the row that it loaded.
LEMMA CommitUpdateKeeps ==
  ASSUME Inv, NEW w \in Workers, CommitUpdate(w)
  PROVE  Inv'
<1> DEFINE r == workers[w]
           u == r.user
           row == Written(users[u], r.old, r.new)
<1>1. /\ r \in Request /\ r.op = "update" /\ Formed(r) /\ (r.overtaken \/ Knows(r))
      /\ r.overtaken \in BOOLEAN
  BY DEF CommitUpdate, Inv, Types, WorkersKnow, Request
<1>2. /\ u \in Users /\ users' = [users EXCEPT ![u] = row]
      /\ Continue(w, Idle) /\ NoteUnchecked(r) /\ NoteKeys
      /\ UNCHANGED <<extra, keys, file, lastKey, requests>>
      /\ tokens' \subseteq tokens
  BY DEF CommitUpdate, WriteRows, Forget
<1> HIDE DEF r
<1>3. r.new \in Account /\ r.old \in Account
  BY <1>1 DEF Formed
<1>4. /\ unchecked \subseteq unchecked'
      /\ unchecked' \subseteq {Lower[n] : n \in Names} \cup Emails
      /\ r.overtaken => NameOf(r.old, r.new) \cup EmailOf(r.old, r.new) \subseteq unchecked'
  BY <1>2, <1>3, NotedNames DEF NoteUnchecked, Inv, Types
<1>5. ~r.overtaken => /\ r.new.name # r.old.name => Named(r.new.name) \subseteq {u}
                      /\ r.new.email # r.old.email => EmailFree(r.new.email)
  BY <1>1 DEF Knows
<1>6. row \in Account /\ Allowed(u, row)
  BY <1>1, <1>2, <1>3, <1>4, <1>5, WrittenIsAllowed DEF Inv
<1>7. u \in Ids
  BY <1>2 DEF Users
<1> HIDE DEF row, u
<1>8. RowChanged(u, row)
  BY <1>2, <1>4 DEF RowChanged
<1>9. /\ tokens' \subseteq Token /\ requests' \in 0 .. MaxRequests /\ requests <= requests'
  BY <1>2, Distinctions DEF Inv, Types
<1>11. behind' \in BOOLEAN /\ (~behind' => ~behind /\ ActiveKeys' = ActiveKeys)
  BY <1>2, NotedKeys
<1>10. workers[w].op \notin {"write", "replace"}
  BY <1>1 DEF r
<1> QED
  BY <1>2, <1>4, <1>6, <1>7, <1>8, <1>9, <1>10, <1>11, IdleKnows, RowKeeps

\* The API changes an account without looking, which is noted.
LEMMA UpdateViaApiKeeps ==
  ASSUME Inv, NEW w \in Workers, UpdateViaApi(w)
  PROVE  Inv'
<1>1. PICK u \in Users, new \in Account :
        /\ users' = [users EXCEPT ![u] = new]
        /\ AtOnce(w, Idle)
        /\ unchecked' = unchecked \cup NameOf(users[u], new) \cup EmailOf(users[u], new)
        /\ tokens' \subseteq tokens
        /\ UNCHANGED <<extra, keys, file, lastKey>>
        /\ NoteKeys
  BY DEF UpdateViaApi, WriteRows, Forget
<1>2. u \in Ids /\ users[u] # None
  BY DEF Users
<1>3. /\ unchecked \subseteq unchecked'
      /\ unchecked' \subseteq {Lower[n] : n \in Names} \cup Emails
  BY <1>1, NotedNames DEF Inv, Types
<1>4. Allowed(u, new)
  BY <1>1, <1>2 DEF Allowed, NameOf, EmailOf
<1>5. RowChanged(u, new)
  BY <1>1, <1>3 DEF RowChanged
<1>6. /\ Continue(w, Idle) /\ workers[w] = Idle
      /\ requests < MaxRequests /\ requests' = requests + 1
  BY <1>1 DEF AtOnce
<1>7. requests \in 0 .. MaxRequests
  BY DEF Inv, Types
<1>8. /\ tokens' \subseteq Token /\ requests' \in 0 .. MaxRequests /\ requests <= requests'
  BY <1>1, <1>6, <1>7, Distinctions DEF Inv, Types
<1>9. behind' \in BOOLEAN /\ (~behind' => ~behind /\ ActiveKeys' = ActiveKeys)
  BY <1>1, NotedKeys
<1>10. workers[w].op \notin {"write", "replace"}
  BY <1>6, IdleKnows
<1> QED
  BY <1>1, <1>2, <1>3, <1>4, <1>5, <1>6, <1>8, <1>9, <1>10, IdleKnows, RowKeeps

\* A name or address that led to account u, or to none, leads to no other one
\* after a change of row u: unless it is noted.
LEMMA TypedAfterRow ==
  ASSUME Types, AccountsDistinct, NEW u \in Ids, NEW row \in Account, RowChanged(u, row),
         NEW t \in Names \cup Emails, Typed(t) \subseteq {u},
         (IF t \in Emails THEN t ELSE Lower[t]) \notin unchecked'
  PROVE  Typed(t)' \subseteq {u}
<1>1. /\ \A v \in Ids : v # u => users'[v] = users[v]
      /\ Users' = Users \cup {u} /\ Users \subseteq Ids
      /\ extra' = extra /\ unchecked \subseteq unchecked'
  BY OtherRows DEF RowChanged, Users
<1>2. CASE t \notin Emails
  <2>1. Named(t) \subseteq {u}
    BY <1>2 DEF Typed
  <2>2. Named(t)' \subseteq {u}
    BY <1>1, <2>1 DEF Named
  <2> QED
    BY <1>2, <2>2 DEF Typed
<1>3. CASE t \in Emails
  <2>1. ByEmail(t) \subseteq {u} /\ t \notin unchecked'
    BY <1>3 DEF Typed
  <2>2. ASSUME NEW v \in Users', users'[v].email = t, v # u PROVE FALSE
    <3>1. v \in Users /\ users[v].email = t
      BY <1>1, <2>2
    <3>2. v \in ByEmail(t)
      BY <3>1 DEF ByEmail
    <3> QED
      BY <2>1, <2>2, <3>2
  <2>3. ASSUME NEW x \in extra', x.email = t, x.user # u PROVE FALSE
    <3>1. x \in extra
      BY <1>1
    <3>2. PICK v \in Users : users[v].email = t
      BY <2>1, <2>3, <3>1 DEF ByEmail
    <3>3. t \in unchecked
      BY <2>3, <3>1, <3>2 DEF AccountsDistinct
    <3> QED
      BY <1>1, <2>1, <3>3
  <2>4. ByEmail(t)' \subseteq {u}
    BY <2>2, <2>3 DEF ByEmail
  <2> QED
    BY <1>3, <2>4 DEF Typed
<1> QED
  BY <1>2, <1>3

\* A login writes the account that it found, or a new one, and notes its address;
\* the account is the one to which the lookup still to come will lead.
LEMMA SaveLoginKeeps ==
  ASSUME Inv, NEW w \in Workers, SaveLogin(w)
  PROVE  Inv'
<1> DEFINE r == workers[w]
<1>1. /\ r \in Request /\ r.op = "save" /\ Formed(r) /\ (r.overtaken \/ Knows(r))
      /\ r.overtaken \in BOOLEAN
  BY DEF SaveLogin, Inv, Types, WorkersKnow, Request
<1>2. PICK u \in IF r.user = None THEN NextIds ELSE {r.user} \cap Users :
        /\ users' = [users EXCEPT ![u] =
                       IF r.user = None THEN r.new ELSE Written(users[u], r.old, r.new)]
        /\ tokens' \subseteq tokens
        /\ \E typed \in {r.typed, r.new.name} :
             Continue(w, [Idle EXCEPT !.op = "open", !.user = u, !.typed = typed,
                                      !.overtaken = r.overtaken])
  BY DEF SaveLogin, WriteRows, Forget
<1>3. PICK typed \in {r.typed, r.new.name} :
        Continue(w, [Idle EXCEPT !.op = "open", !.user = u, !.typed = typed,
                                 !.overtaken = r.overtaken])
  BY <1>2
<1>4. /\ unchecked' = unchecked \cup EmailOf(r.old, r.new)
                                \cup (IF r.overtaken THEN NameOf(r.old, r.new) ELSE {})
      /\ UNCHANGED <<extra, keys, file, lastKey, requests>>
      /\ NoteKeys
  BY DEF SaveLogin
<1> DEFINE row == IF r.user = None THEN r.new ELSE Written(users[u], r.old, r.new)
<1> HIDE DEF r
<1>5. r.new \in Account /\ r.new.name \in Names
  BY <1>1 DEF Formed, Account
<1>6. /\ unchecked \subseteq unchecked'
      /\ unchecked' \subseteq {Lower[n] : n \in Names} \cup Emails
      /\ EmailOf(r.old, r.new) \subseteq unchecked'
      /\ r.overtaken => NameOf(r.old, r.new) \cup EmailOf(r.old, r.new) \subseteq unchecked'
  BY <1>4, <1>5, NotedNames DEF Inv, Types
<1>7. ~r.overtaken => Named(r.new.name) \subseteq {u}
  <2>1. ~r.overtaken => Named(r.new.name) \subseteq {r.user}
    BY <1>1 DEF Knows
  <2>2. r.user = None => r.user \notin Named(r.new.name)
    BY Distinctions DEF Named, Users
  <2> QED
    BY <1>2, <2>1, <2>2
<1>8. u \in Ids /\ row \in Account /\ Allowed(u, row)
  <2>1. CASE r.user = None
    <3>1. r.old = None /\ row = r.new
      BY <1>1, <2>1 DEF Formed
    <3>2. r.new.email \in unchecked' \cup {None}
      BY <1>6, <3>1 DEF EmailOf
    <3>3. Lower[r.new.name] \in unchecked' \/ Named(r.new.name) \subseteq {u}
      BY <1>1, <1>6, <1>7, <3>1 DEF NameOf
    <3>4. u \in Ids
      BY <1>2, <2>1, NextIsNew
    <3> HIDE DEF row
    <3> QED
      BY <1>5, <3>1, <3>2, <3>3, <3>4 DEF Allowed
  <2>2. CASE r.user # None
    <3>1. u \in Users /\ u = r.user /\ r.old \in Account
      BY <1>1, <1>2, <2>2 DEF Formed
    <3>2. Written(users[u], r.old, r.new) \in Account
          /\ Allowed(u, Written(users[u], r.old, r.new))
      BY <1>1, <1>5, <1>6, <1>7, <3>1, WrittenIsAllowed DEF Inv
    <3> QED
      BY <2>2, <3>1, <3>2 DEF Users
  <2> QED
    BY <2>1, <2>2
<1>9. users' = [users EXCEPT ![u] = row]
  BY <1>2
<1> HIDE DEF row
<1>10. RowChanged(u, row)
  BY <1>4, <1>6, <1>9 DEF RowChanged
<1>11. typed \in Names \cup Emails
  BY <1>1, <1>5 DEF Formed
<1>12. PICK q \in Request : /\ Continue(w, q)
                           /\ q.op = "open" /\ q.user = u /\ q.typed = typed
                           /\ q.overtaken = r.overtaken
  <2> DEFINE z == [Idle EXCEPT !.op = "open", !.user = u, !.typed = typed,
                               !.overtaken = r.overtaken]
  <2>1. /\ z \in Request /\ z.op = "open" /\ z.user = u /\ z.typed = typed
        /\ z.overtaken = r.overtaken
    BY <1>1, <1>8, <1>11 DEF Idle, Request, Ops
  <2>2. Continue(w, z)
    BY <1>3
  <2> HIDE DEF z
  <2> QED
    BY <2>1, <2>2
<1>14. Formed(q)
  BY <1>8, <1>11, <1>12 DEF Formed
<1>15. ~r.overtaken => Typed(typed) \subseteq {u}
  <2>1. CASE typed = r.new.name
    BY <1>5, <1>7, <2>1, Distinctions DEF Typed
  <2>2. CASE typed = r.typed /\ ~r.overtaken
    <3>1. Found(r) /\ r.user = r.asked /\ (r.asked = None => r.typed \in Names)
      BY <1>1, <2>2 DEF Knows
    <3>2. CASE r.asked = None
      BY <2>2, <3>1, <3>2, Distinctions DEF Found, Typed
    <3>3. CASE r.asked # None
      BY <1>2, <2>2, <3>1, <3>3 DEF Found
    <3> QED
      BY <3>2, <3>3
  <2> QED
    BY <2>1, <2>2
<1>16. q.overtaken \/ Knows(q)'
  <2>1. CASE ~r.overtaken /\ (IF typed \in Emails THEN typed ELSE Lower[typed]) \notin unchecked'
    <3>1. Typed(typed)' \subseteq {u}
      BY <1>8, <1>10, <1>11, <1>15, <2>1, TypedAfterRow DEF Inv
    <3> QED
      BY <1>12, <3>1 DEF Knows
  <2>2. CASE (IF typed \in Emails THEN typed ELSE Lower[typed]) \in unchecked'
    BY <1>12, <2>2 DEF Knows, Entered
  <2> QED
    BY <1>12, <2>1, <2>2
<1>17. /\ tokens' \subseteq Token /\ requests' \in 0 .. MaxRequests /\ requests <= requests'
  BY <1>2, <1>4, Distinctions DEF Inv, Types
<1>18. behind' \in BOOLEAN /\ (~behind' => ~behind /\ ActiveKeys' = ActiveKeys)
  BY <1>4, NotedKeys
<1>19. workers[w].op \notin {"write", "replace"}
  BY <1>1 DEF r
<1>20. UNCHANGED <<keys, file, lastKey>>
  BY <1>4
<1> QED
  BY <1>6, <1>8, <1>10, <1>12, <1>14, <1>16, <1>17, <1>18, <1>19, <1>20, RowKeeps

\* What a worker does after a commit needs no knowledge.
LEMMA AfterCommit ==
  ASSUME NEW r \in {Idle, [Idle EXCEPT !.op = "write"]}
  PROVE  /\ r \in Request /\ r.op \in {"idle", "write"} /\ Formed(r)
         /\ Knows(r)'
<1>1. r \in Request /\ r.op \in {"idle", "write"}
  <2>1. Idle \in Request /\ Idle.op = "idle"
    BY IdleKnows
  <2>2. [Idle EXCEPT !.op = "write"] \in Request /\ [Idle EXCEPT !.op = "write"].op = "write"
    BY <2>1 DEF Request, Ops
  <2> QED
    BY <2>1, <2>2
<1>2. Formed(r)
  BY <1>1 DEF Formed
<1>3. Knows(r)'
  BY <1>1 DEF Knows
<1> QED
  BY <1>1, <1>2, <1>3

\* A commit that keeps accounts distinct, keys with their account, and notes a
\* change of the active keys, or ends in writing the file.
LEMMA CommitKeeps ==
  ASSUME Inv, NEW w \in Workers, NEW r \in {Idle, [Idle EXCEPT !.op = "write"]},
         Continue(w, r), workers[w].op \notin {"write", "replace"},
         users' \in [Ids -> Row], extra' \subseteq ExtraEmail, keys' \subseteq Key,
         tokens' \subseteq Token, lastKey' \in Nat, file' = file,
         requests' \in 0 .. MaxRequests, behind' \in BOOLEAN,
         unchecked' \subseteq {Lower[n] : n \in Names} \cup Emails,
         KeysCounted', KeysOwned', AccountsDistinct',
         r.op = "write" \/ (~behind' => ~behind /\ ActiveKeys' = ActiveKeys)
  PROVE  Inv'
<1>1. /\ r \in Request /\ r.op \in {"idle", "write"} /\ Formed(r) /\ Knows(r)'
  BY AfterCommit
<1>2. /\ workers' \in [Workers -> Request] /\ workers'[w] = r
      /\ \A v \in Workers : v # w => workers'[v].op = workers[v].op
      /\ (\A v \in Workers : Formed(workers[v]))'
      /\ WorkersKnow'
  BY <1>1, ContinueKeeps DEF Inv
<1>3. file' \subseteq Key
  BY DEF Inv, Types
<1>4. Types'
  BY <1>2, <1>3 DEF Types
<1>5. FileFollowsKeys'
  BY <1>1, <1>2 DEF Inv, FileFollowsKeys
<1> QED
  BY <1>2, <1>4, <1>5 DEF Inv

\* After a commit of a worker that was not adding a key the count is as it was.
LEMMA CommitCounts ==
  ASSUME Inv, NEW w \in Workers, NEW r \in {Idle, [Idle EXCEPT !.op = "write"]},
         Continue(w, r)
  PROVE  /\ Adding' = Adding \ {w}
         /\ lastKey' = lastKey /\ requests' \in Nat /\ requests <= requests' => KeysCounted'
<1>1. /\ r \in Request /\ r.op \in {"idle", "write"} /\ Formed(r) /\ Knows(r)'
  BY AfterCommit
<1>2. Adding' = Adding \ {w}
  BY <1>1, ContinueKeeps DEF Inv
<1>3. ASSUME lastKey' = lastKey, requests' \in Nat, requests <= requests' PROVE KeysCounted'
  BY <1>2, <1>3, FewerAdding DEF Inv
<1> QED
  BY <1>2, <1>3

\* With an account go its keys, and its addresses.
LEMMA DeleteUserKeeps ==
  ASSUME Inv, NEW w \in Workers, DeleteUser(w)
  PROVE  Inv'
<1>1. PICK u \in Users :
        /\ users' = [users EXCEPT ![u] = Gone]
        /\ extra' = {x \in extra : x.user # u}
        /\ keys' = {k \in keys : k.user # u}
        /\ tokens' \subseteq tokens
        /\ AtOnce(w, Idle)
        /\ UNCHANGED <<file, lastKey, unchecked>>
        /\ NoteKeys
  BY DEF DeleteUser, WriteRows, Forget
<1>2. u \in Ids
  BY DEF Users
<1>3. users' \in [Ids -> Row] /\ users'[u] = Gone /\ \A v \in Ids : v # u => users'[v] = users[v]
  BY <1>1, <1>2 DEF Inv, Types, Row
<1>4. Users' = Users \ {u}
  BY <1>3 DEF Users
<1>5. \A v \in Users' : v \in Users /\ users'[v] = users[v]
  BY <1>3, <1>4 DEF Users
<1>6. AccountsDistinct'
  BY <1>1, <1>5 DEF Inv, AccountsDistinct, Named
<1>7. KeysOwned'
  BY <1>1, <1>4 DEF Inv, KeysOwned
<1>8. /\ Continue(w, Idle) /\ workers[w] = Idle
      /\ requests < MaxRequests /\ requests' = requests + 1
  BY <1>1 DEF AtOnce
<1>9. requests \in 0 .. MaxRequests
  BY DEF Inv, Types
<1>10. /\ requests' \in 0 .. MaxRequests /\ requests' \in Nat /\ requests <= requests'
  BY <1>8, <1>9, Distinctions
<1>11. KeysCounted'
  BY <1>1, <1>8, <1>10, CommitCounts
<1>12. behind' \in BOOLEAN /\ (~behind' => ~behind /\ ActiveKeys' = ActiveKeys)
  BY <1>1, NotedKeys
<1>13. workers[w].op \notin {"write", "replace"}
  BY <1>8, IdleKnows
<1>14. /\ extra' \subseteq ExtraEmail /\ keys' \subseteq Key /\ tokens' \subseteq Token
       /\ lastKey' \in Nat
       /\ unchecked' \subseteq {Lower[n] : n \in Names} \cup Emails
  BY <1>1 DEF Inv, Types
<1> QED
  BY <1>1, <1>3, <1>6, <1>7, <1>8, <1>10, <1>11, <1>12, <1>13, <1>14, CommitKeeps

\* An address that is added was free, or is noted.
LEMMA CommitEmailKeeps ==
  ASSUME Inv, NEW w \in Workers, CommitEmail(w)
  PROVE  Inv'
<1> DEFINE r == workers[w]
<1>1. /\ r \in Request /\ r.op = "email" /\ Formed(r) /\ (r.overtaken \/ Knows(r))
      /\ r.overtaken \in BOOLEAN
  BY DEF CommitEmail, Inv, Types, WorkersKnow, Request
<1>2. /\ extra' = extra \cup {[user |-> r.user, email |-> r.typed]}
      /\ unchecked' = unchecked \cup (IF r.overtaken THEN {r.typed} ELSE {})
      /\ Continue(w, Idle)
      /\ UNCHANGED <<users, keys, file, lastKey, tokens, requests, behind>>
  BY DEF CommitEmail
<1> HIDE DEF r
<1>3. r.user \in Ids /\ r.typed \in Emails
  BY <1>1 DEF Formed
<1>4. /\ extra' \subseteq ExtraEmail
      /\ unchecked' \subseteq {Lower[n] : n \in Names} \cup Emails
  BY <1>2, <1>3 DEF Inv, Types, ExtraEmail
<1>5. Users' = Users /\ \A n : Named(n)' = Named(n)
  BY <1>2 DEF Users, Named
<1>6. \A u \in Users : users[u].email = r.typed => r.typed \in unchecked'
  BY <1>1, <1>2 DEF Knows, EmailFree, ByEmail
<1>7. AccountsDistinct'
  <2>1. \A x \in extra' : x \in extra \/ x.email = r.typed
    BY <1>2
  <2>2. unchecked \subseteq unchecked' /\ users' = users
    BY <1>2
  <2> QED
    BY <1>5, <1>6, <2>1, <2>2 DEF Inv, AccountsDistinct
<1>8. KeysOwned' /\ ActiveKeys' = ActiveKeys
  BY <1>2, <1>5 DEF Inv, KeysOwned, ActiveKeys
<1>9. /\ users' \in [Ids -> Row] /\ keys' \subseteq Key /\ tokens' \subseteq Token
      /\ lastKey' \in Nat /\ requests' \in 0 .. MaxRequests /\ behind' \in BOOLEAN
      /\ requests' \in Nat /\ requests <= requests'
  BY <1>2, Distinctions DEF Inv, Types
<1>10. KeysCounted'
  BY <1>2, <1>9, CommitCounts
<1>11. workers[w].op \notin {"write", "replace"}
  BY <1>1 DEF r
<1> QED
  BY <1>2, <1>4, <1>7, <1>8, <1>9, <1>10, <1>11, CommitKeeps

\* An address is removed.
LEMMA DeleteEmailKeeps ==
  ASSUME Inv, NEW w \in Workers, DeleteEmail(w)
  PROVE  Inv'
<1>1. /\ extra' \subseteq extra /\ AtOnce(w, Idle)
      /\ UNCHANGED <<users, keys, file, lastKey, tokens, unchecked, behind>>
  BY DEF DeleteEmail
<1>2. /\ Continue(w, Idle) /\ workers[w] = Idle
      /\ requests < MaxRequests /\ requests' = requests + 1
  BY <1>1 DEF AtOnce
<1>3. requests \in 0 .. MaxRequests
  BY DEF Inv, Types
<1>4. /\ requests' \in 0 .. MaxRequests /\ requests' \in Nat /\ requests <= requests'
  BY <1>2, <1>3, Distinctions
<1>5. KeysCounted'
  BY <1>1, <1>2, <1>4, CommitCounts
<1>6. KeysOwned' /\ ActiveKeys' = ActiveKeys /\ AccountsDistinct'
  BY <1>1 DEF Inv, KeysOwned, ActiveKeys, AccountsDistinct, Users, Named
<1>7. /\ users' \in [Ids -> Row] /\ extra' \subseteq ExtraEmail /\ keys' \subseteq Key
      /\ tokens' \subseteq Token /\ lastKey' \in Nat /\ behind' \in BOOLEAN
      /\ unchecked' \subseteq {Lower[n] : n \in Names} \cup Emails
  BY <1>1 DEF Inv, Types
<1>8. workers[w].op \notin {"write", "replace"}
  BY <1>2, IdleKnows
<1> QED
  BY <1>1, <1>2, <1>4, <1>5, <1>6, <1>7, <1>8, CommitKeeps

\* A key is added, and its worker goes on to write the file.
LEMMA CommitKeyKeeps ==
  ASSUME Inv, NEW w \in Workers, CommitKey(w)
  PROVE  Inv'
<1> DEFINE r == workers[w]
<1>1. r.op = "key" /\ r.user \in Users /\ Formed(r) /\ w \in Adding
  BY DEF CommitKey, Inv, Types, Adding
<1>2. /\ lastKey' = lastKey + 1
      /\ keys' = keys \cup {[id |-> lastKey', user |-> r.user, key |-> r.typed]}
      /\ Continue(w, [Idle EXCEPT !.op = "write"])
      /\ UNCHANGED <<users, extra, file, tokens, requests, unchecked, behind>>
  BY DEF CommitKey
<1> HIDE DEF r
<1>3. r.user \in Ids /\ r.typed \in Fingerprints
  BY <1>1 DEF Formed
<1>4. /\ lastKey \in Nat /\ requests \in Nat /\ requests <= MaxRequests /\ MaxRequests \in Nat
  BY Distinctions DEF Inv, Types
<1>5. /\ IsFiniteSet(Adding) /\ Cardinality(Adding) \in Nat
      /\ lastKey + Cardinality(Adding) <= requests
  BY FS_CardinalityType DEF Inv, KeysCounted
<1>6. Adding' = Adding \ {w}
  BY <1>2, CommitCounts
<1>7. IsFiniteSet(Adding') /\ Cardinality(Adding') = Cardinality(Adding) - 1
      /\ Cardinality(Adding') \in Nat
  <2>1. IsFiniteSet(Adding') /\ Cardinality(Adding') = Cardinality(Adding) - 1
    BY <1>1, <1>5, <1>6, FS_RemoveElement
  <2> QED
    BY <2>1, FS_CardinalityType
<1>8. KeysCounted'
  BY <1>2, <1>4, <1>5, <1>7 DEF KeysCounted
<1>9. lastKey' \in Nat /\ lastKey' \in 1 .. MaxRequests
  BY <1>2, <1>4, <1>5, <1>7
<1>10. keys' \subseteq Key
  BY <1>2, <1>3, <1>9 DEF Inv, Types, Key
<1>11. KeysOwned' /\ AccountsDistinct'
  BY <1>1, <1>2 DEF Inv, KeysOwned, AccountsDistinct, Users, Named
<1>12. /\ users' \in [Ids -> Row] /\ extra' \subseteq ExtraEmail /\ tokens' \subseteq Token
       /\ behind' \in BOOLEAN /\ requests' \in 0 .. MaxRequests
       /\ unchecked' \subseteq {Lower[n] : n \in Names} \cup Emails
  BY <1>2 DEF Inv, Types
<1>13. [Idle EXCEPT !.op = "write"].op = "write"
  BY DEF Idle
<1>14. workers[w].op \notin {"write", "replace"}
  BY <1>1 DEF r
<1> QED
  BY <1>2, <1>8, <1>9, <1>10, <1>11, <1>12, <1>13, <1>14, CommitKeeps

\* A key is removed, and its worker goes on to write the file.
LEMMA DeleteKeyKeeps ==
  ASSUME Inv, NEW w \in Workers, DeleteKey(w)
  PROVE  Inv'
<1>1. /\ keys' \subseteq keys /\ AtOnce(w, [Idle EXCEPT !.op = "write"])
      /\ UNCHANGED <<users, extra, file, lastKey, tokens, unchecked, behind>>
  BY DEF DeleteKey
<1>2. /\ Continue(w, [Idle EXCEPT !.op = "write"]) /\ workers[w] = Idle
      /\ requests < MaxRequests /\ requests' = requests + 1
  BY <1>1 DEF AtOnce
<1>3. requests \in 0 .. MaxRequests
  BY DEF Inv, Types
<1>4. /\ requests' \in 0 .. MaxRequests /\ requests' \in Nat /\ requests <= requests'
  BY <1>2, <1>3, Distinctions
<1>5. KeysCounted'
  BY <1>1, <1>2, <1>4, CommitCounts
<1>6. KeysOwned' /\ AccountsDistinct'
  BY <1>1 DEF Inv, KeysOwned, AccountsDistinct, Users, Named
<1>7. /\ users' \in [Ids -> Row] /\ extra' \subseteq ExtraEmail /\ keys' \subseteq Key
      /\ tokens' \subseteq Token /\ lastKey' \in Nat /\ behind' \in BOOLEAN
      /\ unchecked' \subseteq {Lower[n] : n \in Names} \cup Emails
  BY <1>1 DEF Inv, Types
<1>8. workers[w].op \notin {"write", "replace"}
  BY <1>2, IdleKnows
<1>9. [Idle EXCEPT !.op = "write"].op = "write"
  BY DEF Idle
<1> QED
  BY <1>1, <1>2, <1>4, <1>5, <1>6, <1>7, <1>8, <1>9, CommitKeeps

-----------------------------------------------------------------------------
(* The invariant                                                           *)

\* The installer creates one account.
LEMMA InitKeeps == Init => Inv
<1> SUFFICES ASSUME Init PROVE Inv
  OBVIOUS
<1>1. PICK first \in Names, e \in Emails :
        users = [u \in Ids |-> IF \A v \in Ids : u <= v
                   THEN [name |-> first, email |-> e, active |-> TRUE, source |-> "internal"]
                   ELSE None]
  BY DEF Init
<1>2. /\ extra = {} /\ keys = {} /\ file = {} /\ lastKey = 0 /\ tokens = {}
      /\ workers = [w \in Workers |-> Idle]
      /\ requests = 0 /\ unchecked = {} /\ behind = FALSE
  BY DEF Init
<1>3. users \in [Ids -> Row]
  BY <1>1 DEF Row, Account, Sources
<1>4. Types
  <2>1. workers \in [Workers -> Request] /\ \A w \in Workers : workers[w] = Idle
    BY <1>2, IdleKnows
  <2>2. \A w \in Workers : Formed(workers[w])
    BY <2>1, IdleKnows
  <2>3. lastKey \in Nat /\ requests \in 0 .. MaxRequests
    BY <1>2, Distinctions
  <2>4. /\ extra \subseteq ExtraEmail /\ keys \subseteq Key /\ file \subseteq Key
        /\ tokens \subseteq Token /\ behind \in BOOLEAN
        /\ unchecked \subseteq {Lower[n] : n \in Names} \cup Emails
    BY <1>2
  <2> QED
    BY <1>3, <2>1, <2>2, <2>3, <2>4 DEF Types
<1>5. Adding = {}
  BY <1>2, IdleKnows DEF Adding
<1>6. KeysCounted
  <2>1. IsFiniteSet(Adding) /\ Cardinality(Adding) = 0
    BY <1>5, FS_EmptySet
  <2> QED
    BY <1>2, <2>1 DEF KeysCounted
<1>7. WorkersKnow /\ KeysOwned
  BY <1>2, IdleKnows DEF WorkersKnow, KeysOwned
<1>8. \A u, v \in Users : u = v
  <2>1. \A u \in Users : u \in Ids /\ u \in Nat /\ \A v \in Ids : u <= v
    BY <1>1, Distinctions DEF Users
  <2> QED
    BY <2>1
<1>9. AccountsDistinct
  BY <1>2, <1>8 DEF AccountsDistinct, Named
<1>10. FileFollowsKeys
  BY <1>2 DEF FileFollowsKeys, ActiveKeys
<1> QED
  BY <1>4, <1>6, <1>7, <1>9, <1>10 DEF Inv

\* Every step keeps the invariant.
LEMMA NextKeeps == Inv /\ [Next]_vars => Inv'
<1> SUFFICES ASSUME Inv, [Next]_vars PROVE Inv'
  OBVIOUS
<1>1. CASE UNCHANGED vars
  <2>1. UNCHANGED <<users, extra, keys, file, lastKey, tokens, workers, requests,
                    unchecked, behind>>
    BY <1>1 DEF vars
  <2>2. Types' /\ KeysCounted' /\ KeysOwned' /\ AccountsDistinct' /\ FileFollowsKeys'
    BY <2>1 DEF Inv, Types, Formed, KeysCounted, Adding, KeysOwned, AccountsDistinct,
                FileFollowsKeys, ActiveKeys, Users, Named
  <2>3. WorkersKnow'
    BY <2>1, SameKnowledge DEF Inv, WorkersKnow
  <2> QED
    BY <2>2, <2>3 DEF Inv
<1>2. CASE ExpireToken
  BY <1>2, TokensKeep
<1>3. ASSUME NEW w \in Workers,
             \/ CheckCreate(w) \/ Register(w) \/ CheckCreateViaApi(w) \/ CommitCreate(w)
             \/ CheckUpdate(w) \/ MyAccount(w) \/ MyPassword(w) \/ CommitUpdate(w)
             \/ UpdateViaApi(w) \/ DeleteUser(w)
             \/ CheckEmail(w) \/ CommitEmail(w) \/ DeleteEmail(w)
             \/ LookUp(w) \/ Answer(w) \/ SaveLogin(w)
             \/ OpenSession(w) \/ OpenContainerSession(w) \/ AuthorizeClient(w)
             \/ RequestReset(w) \/ VerifyToken(w) \/ Reset(w)
             \/ CheckKey(w) \/ CommitKey(w) \/ DeleteKey(w) \/ UpdateKeyFile(w)
             \/ ReadKeys(w) \/ ReplaceFile(w)
             \/ Fail(w)
      PROVE  Inv'
  <2>1. CASE CheckCreate(w) \/ Register(w) \/ CheckCreateViaApi(w) \/ CommitCreate(w)
    BY <2>1, CheckCreateKeeps, CheckCreateViaApiKeeps, CommitCreateKeeps
  <2>2. CASE CheckUpdate(w) \/ MyAccount(w) \/ MyPassword(w) \/ CommitUpdate(w)
             \/ UpdateViaApi(w) \/ DeleteUser(w)
    BY <2>2, CheckUpdateKeeps, CommitUpdateKeeps, UpdateViaApiKeeps, DeleteUserKeeps
  <2>3. CASE CheckEmail(w) \/ CommitEmail(w) \/ DeleteEmail(w)
    BY <2>3, CheckEmailKeeps, CommitEmailKeeps, DeleteEmailKeeps
  <2>4. CASE LookUp(w) \/ Answer(w) \/ SaveLogin(w)
    BY <2>4, LookUpKeeps, AnswerKeeps, SaveLoginKeeps
  <2>5. CASE OpenSession(w) \/ OpenContainerSession(w) \/ AuthorizeClient(w) \/ Reset(w)
    BY <2>5, EndKeeps
  <2>6. CASE RequestReset(w) \/ VerifyToken(w)
    BY <2>6, TokensKeep, VerifyTokenKeeps
  <2>7. CASE CheckKey(w) \/ CommitKey(w) \/ DeleteKey(w) \/ UpdateKeyFile(w)
    BY <2>7, CheckKeyKeeps, CommitKeyKeeps, DeleteKeyKeeps
  <2>8. CASE ReadKeys(w) \/ ReplaceFile(w) \/ Fail(w)
    BY <2>8, ReadKeysKeeps, ReplaceFileKeeps
  <2> QED
    BY <1>3, <2>1, <2>2, <2>3, <2>4, <2>5, <2>6, <2>7, <2>8
<1> QED
  BY <1>1, <1>2, <1>3 DEF Next

\* What the properties below rest on.
THEOREM AccountsInvariant == Spec => []Inv
BY InitKeeps, NextKeeps, PTL DEF Spec

\* TypeOK of the model: the tables, the file and every request have their type, and
\* key ids stay in their range.
THEOREM TypesCorrect == Spec => []TypeOK
<1>1. Inv => TypeOK
  <2> SUFFICES ASSUME Inv PROVE TypeOK
    OBVIOUS
  <2>1. Types /\ KeysCounted
    BY DEF Inv
  <2>2. lastKey \in 0 .. MaxRequests
    <3>1. Cardinality(Adding) \in Nat /\ lastKey + Cardinality(Adding) <= requests
      BY <2>1, FS_CardinalityType DEF KeysCounted
    <3> QED
      BY <2>1, <3>1, Distinctions DEF Types
  <2> QED
    BY <2>1, <2>2 DEF Types, TypeOK
<1> QED
  BY <1>1, AccountsInvariant, PTL

\* Names and addresses lead to one account each, but for those that were written
\* unchecked: AccountsDistinct, for any number of workers whose requests look first
\* and commit later (forms, API, logins through a directory).
THEOREM LookupsFindOneAccount == Spec => []AccountsDistinct
<1>1. Inv => AccountsDistinct
  BY DEF Inv
<1> QED
  BY <1>1, AccountsInvariant, PTL

\* A login or a reset that nobody overtook ends with the account it began with
\* (SecondLookupAgrees), although authenticate's answer is looked up again by name
\* or address: even after the directory's address was written over the account's.
THEOREM LoginsEndWhereTheyBegan == Spec => []SecondLookupAgrees
<1>1. Inv => SecondLookupAgrees
  BY DEF Inv, WorkersKnow, Knows, Entered, SecondLookupAgrees
<1> QED
  BY <1>1, AccountsInvariant, PTL

\* authorized_keys lists the keys of the active accounts whenever no writer is under
\* way and none was overtaken: FileFollowsKeys.
THEOREM FileIsCurrent == Spec => []FileFollowsKeys
<1>1. Inv => FileFollowsKeys
  BY DEF Inv
<1> QED
  BY <1>1, AccountsInvariant, PTL

-----------------------------------------------------------------------------
(* Logins                                                                  *)

\* A step is one worker's: the others stay with what they are doing.
LEMMA OthersGoOn ==
  ASSUME Types, NEW v \in Workers,
         \/ \E r : workers' = [workers EXCEPT ![v] = r]
         \/ \E r : Continue(v, r)
         \/ workers' = workers
  PROVE  \A x \in Workers : x # v => workers'[x].op = workers[x].op
<1>1. CASE \E r : workers' = [workers EXCEPT ![v] = r]
  BY <1>1 DEF Types
<1>2. CASE \E r : Continue(v, r)
  <2>1. \A x \in Workers : [workers[x] EXCEPT !.overtaken = workers[x].op # "idle"].op
                             = workers[x].op
    BY DEF Types, Request
  <2> QED
    BY <1>2, <2>1 DEF Continue
<1> QED
  BY <1>1, <1>2

\* Only a login that is written turns a worker from saving to opening.
LEMMA OnlySaveLoginSaves ==
  ASSUME Types, [Next]_vars, NEW w \in Workers,
         workers[w].op = "save", workers'[w].op = "open"
  PROVE  SaveLogin(w)
<1>1. workers' # workers
  OBVIOUS
<1>2. PICK v \in Workers :
        \/ CheckCreate(v) \/ Register(v) \/ CheckCreateViaApi(v) \/ CommitCreate(v)
        \/ CheckUpdate(v) \/ MyAccount(v) \/ MyPassword(v) \/ CommitUpdate(v)
        \/ UpdateViaApi(v) \/ DeleteUser(v)
        \/ CheckEmail(v) \/ CommitEmail(v) \/ DeleteEmail(v)
        \/ LookUp(v) \/ Answer(v) \/ SaveLogin(v)
        \/ OpenSession(v) \/ OpenContainerSession(v) \/ AuthorizeClient(v)
        \/ VerifyToken(v) \/ Reset(v)
        \/ CheckKey(v) \/ CommitKey(v) \/ DeleteKey(v) \/ UpdateKeyFile(v)
        \/ ReadKeys(v) \/ ReplaceFile(v)
        \/ Fail(v)
  BY <1>1 DEF Next, vars, ExpireToken, RequestReset
<1>3. v = w
  <2>1. \/ \E r : workers' = [workers EXCEPT ![v] = r]
        \/ \E r : Continue(v, r)
    <3>1. CASE CheckCreate(v) \/ Register(v) \/ CheckCreateViaApi(v) \/ CommitCreate(v)
      BY <3>1 DEF CheckCreate, Register, BeginCreate, CheckCreateViaApi, CommitCreate, Begin
    <3>2. CASE CheckUpdate(v) \/ MyAccount(v) \/ MyPassword(v) \/ CommitUpdate(v)
      BY <3>2 DEF CheckUpdate, MyAccount, MyPassword, BeginUpdate, CommitUpdate, Begin
    <3>3. CASE UpdateViaApi(v) \/ DeleteUser(v) \/ DeleteEmail(v) \/ DeleteKey(v)
      BY <3>3 DEF UpdateViaApi, DeleteUser, DeleteEmail, DeleteKey, AtOnce
    <3>4. CASE CheckEmail(v) \/ CommitEmail(v) \/ CheckKey(v) \/ CommitKey(v) \/ UpdateKeyFile(v)
      BY <3>4 DEF CheckEmail, CommitEmail, CheckKey, CommitKey, UpdateKeyFile, Begin
    <3>5. CASE LookUp(v) \/ SaveLogin(v) \/ VerifyToken(v) \/ Reset(v)
      BY <3>5 DEF LookUp, SaveLogin, VerifyToken, Reset, Begin
    <3>6. CASE Answer(v)
      BY <3>6 DEF Answer
    <3>7. CASE OpenSession(v) \/ OpenContainerSession(v) \/ AuthorizeClient(v)
      BY <3>7 DEF OpenSession, OpenContainerSession, AuthorizeClient, LogIn
    <3>8. CASE ReadKeys(v) \/ ReplaceFile(v) \/ Fail(v)
      BY <3>8 DEF ReadKeys, ReplaceFile, Fail
    <3> QED
      BY <1>2, <3>1, <3>2, <3>3, <3>4, <3>5, <3>6, <3>7, <3>8
  <2> QED
    BY <2>1, OthersGoOn
<1>4. workers[w] # Idle
  BY IdleKnows
<1>5. CASE CheckCreate(w) \/ Register(w) \/ CheckCreateViaApi(w) \/ CommitCreate(w)
  BY <1>4, <1>5 DEF CheckCreate, Register, BeginCreate, CheckCreateViaApi, CommitCreate, Begin
<1>6. CASE CheckUpdate(w) \/ MyAccount(w) \/ MyPassword(w) \/ CommitUpdate(w)
  BY <1>4, <1>6 DEF CheckUpdate, MyAccount, MyPassword, BeginUpdate, CommitUpdate, Begin
<1>7. CASE UpdateViaApi(w) \/ DeleteUser(w) \/ DeleteEmail(w) \/ DeleteKey(w)
  BY <1>4, <1>7 DEF UpdateViaApi, DeleteUser, DeleteEmail, DeleteKey, AtOnce
<1>8. CASE CheckEmail(w) \/ CommitEmail(w) \/ CheckKey(w) \/ CommitKey(w) \/ UpdateKeyFile(w)
  BY <1>4, <1>8 DEF CheckEmail, CommitEmail, CheckKey, CommitKey, UpdateKeyFile, Begin
<1>9. CASE LookUp(w) \/ Answer(w) \/ VerifyToken(w) \/ Reset(w)
  BY <1>4, <1>9 DEF LookUp, Answer, VerifyToken, Reset, Begin
<1>10. CASE \/ OpenSession(w) \/ OpenContainerSession(w) \/ AuthorizeClient(w)
            \/ ReadKeys(w) \/ ReplaceFile(w)
  BY <1>10 DEF OpenSession, OpenContainerSession, AuthorizeClient, LogIn, ReadKeys, ReplaceFile
<1>11. CASE Fail(w)
  <2>1. workers'[w] = Idle
    BY <1>11 DEF Fail, Types
  <2> QED
    BY <2>1, IdleKnows
<1> QED
  BY <1>2, <1>3, <1>5, <1>6, <1>7, <1>8, <1>9, <1>10, <1>11

\* The row that a login writes which nobody overtook.
LEMMA LoginWrites ==
  ASSUME Inv, NEW w \in Workers, SaveLogin(w), ~workers[w].overtaken,
         NEW x \in Ids, users'[x] # users[x]
  PROVE  IF workers[w].asked = None
         THEN users[x] = None /\ Lower[users'[x].name] = Lower[workers[w].typed]
         ELSE /\ x = workers[w].asked
              /\ users[x].source = "external"
              /\ users'[x].active = users[x].active
              /\ Lower[users'[x].name] = Lower[users[x].name]
<1> DEFINE r == workers[w]
<1>1. r.op = "save" /\ Formed(r) /\ Knows(r)
  BY DEF SaveLogin, Inv, Types, WorkersKnow
<1>2. PICK u \in IF r.user = None THEN NextIds ELSE {r.user} \cap Users :
        users' = [users EXCEPT ![u] =
                    IF r.user = None THEN r.new ELSE Written(users[u], r.old, r.new)]
  BY DEF SaveLogin, WriteRows
<1> HIDE DEF r
<1>3. x = u /\ users'[x] = IF r.user = None THEN r.new ELSE Written(users[x], r.old, r.new)
  <2>1. users \in [Ids -> Row]
    BY DEF Inv, Types
  <2> QED
    BY <1>2, <2>1
<1>4. Found(r) /\ r.user = r.asked
  BY <1>1 DEF Knows
<1>5. CASE r.asked = None
  <2>1. users[x] = None
    BY <1>2, <1>3, <1>4, <1>5 DEF NextIds
  <2>2. Lower[r.new.name] = Lower[r.typed]
    BY <1>1, <1>5 DEF Knows
  <2> QED
    BY <1>3, <1>4, <1>5, <2>1, <2>2 DEF r
<1>6. CASE r.asked # None
  <2>1. x = r.asked /\ x \in Users /\ users'[x] = Written(users[x], r.old, r.new)
    BY <1>2, <1>3, <1>4, <1>6
  <2>2. r.old = users[x] /\ users[x].source = "external"
    BY <1>4, <1>6, <2>1 DEF Found
  <2>3. r.new \in Account /\ r.old \in Account
    BY <1>1, <1>4, <1>6 DEF Formed
  <2>4. Lower[r.new.name] = Lower[r.old.name] /\ r.new.active = r.old.active
    BY <1>1, <1>6 DEF Knows
  <2>5. /\ users'[x].name = IF r.new.name = r.old.name THEN users[x].name ELSE r.new.name
        /\ users'[x].active = IF r.new.active = r.old.active THEN users[x].active
                              ELSE r.new.active
    BY <2>1, <2>2, <2>3, WrittenColumns
  <2> QED
    BY <1>6, <2>1, <2>2, <2>4, <2>5 DEF r
<1> QED
  BY <1>5, <1>6

\* A login that nobody overtook creates the account it did not find or writes the
\* one of the directory that it did find, and neither activates it nor gives it a
\* name of another account: LoginsKeepAccounts.
THEOREM LoginsKeepTheirAccount == Spec => LoginsKeepAccounts
<1> DEFINE Step ==
      \A w \in Workers :
        LET r == workers[w] IN
        r.op = "save" /\ workers'[w].op = "open" /\ ~r.overtaken =>
          \A u \in Ids : users'[u] # users[u] =>
            IF r.asked = None
            THEN users[u] = None /\ Lower[users'[u].name] = Lower[r.typed]
            ELSE /\ u = r.asked
                 /\ users[u].source = "external"
                 /\ users'[u].active = users[u].active
                 /\ Lower[users'[u].name] = Lower[users[u].name]
<1>1. Inv /\ [Next]_vars => Step
  <2> SUFFICES ASSUME Inv, [Next]_vars,
                      NEW w \in Workers,
                      workers[w].op = "save", workers'[w].op = "open", ~workers[w].overtaken,
                      NEW u \in Ids, users'[u] # users[u]
               PROVE  IF workers[w].asked = None
                      THEN users[u] = None /\ Lower[users'[u].name] = Lower[workers[w].typed]
                      ELSE /\ u = workers[w].asked
                           /\ users[u].source = "external"
                           /\ users'[u].active = users[u].active
                           /\ Lower[users'[u].name] = Lower[users[u].name]
    BY DEF Step
  <2>1. SaveLogin(w)
    BY OnlySaveLoginSaves DEF Inv
  <2> QED
    BY <2>1, LoginWrites
<1>2. Spec => [][Step]_vars
  BY <1>1, AccountsInvariant, PTL DEF Spec
<1> QED
  BY <1>2 DEF LoginsKeepAccounts

=============================================================================

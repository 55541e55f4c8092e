-------------------------------- MODULE Accounts --------------------------------
(*****************************************************************************)
(* Accounts: their names and addresses, logins through a directory (LDAP,    *)
(* Crowd, PAM, or the web server), password resets by mail, and the file of  *)
(* SSH keys that is written from the database.                               *)
(*                                                                           *)
(* A request looks an account up and commits later, and workers interleave.  *)
(* Names are looked up without regard to case and addresses in two tables,   *)
(* but the database only knows that names differ, that main addresses do     *)
(* and that extra addresses do.  Its foreign keys are enforced, ids are not  *)
(* given again, and a lookup that finds two rows ends the request.  What     *)
(* an ORM object writes are the columns that differ from what it loaded.     *)
(*                                                                           *)
(* External: the directory answers about the name that it is asked for, in   *)
(* its own spelling, and knows no name that looks like an address.           *)
(*****************************************************************************)
EXTENDS Naturals, FiniteSets

CONSTANTS
  Ids,           \* of accounts, in the order in which they are given
  Names,
  Lower,         \* Lower[n]: name n in lower case
  Emails,
  Fingerprints,  \* of SSH keys
  Workers,
  AutoActive,    \* hg.register.auto_activate rather than manual_activate
  MaxRequests,   \* bound: requests that are started
  None,          \* nothing: no row yet, no address, no account
  Gone           \* a row that was deleted

ASSUME AccountsAssumption ==
  /\ Ids \subseteq Nat /\ IsFiniteSet(Ids)
  /\ DOMAIN Lower = Names
  /\ {Lower[n] : n \in Names} \cap Emails = {}
  /\ Names \cap Emails = {}
  /\ AutoActive \in BOOLEAN
  /\ MaxRequests \in Nat
  /\ None \notin Names \cup Emails \cup Ids \cup Fingerprints
  /\ {None, Gone} \cap [name : Names, email : Emails \cup {None}, active : BOOLEAN,
                        source : {"internal", "external"}] = {}

VARIABLES
  users,      \* users[u]: the row of account u, None before it and Gone after it
  extra,      \* table user_email_map
  keys,       \* table user_ssh_keys
  file,       \* the lines of authorized_keys
  lastKey,    \* the highest id a key was ever given
  tokens,     \* for resetting the password that the account still has
  workers,    \* what each worker is doing
  requests,   \* started so far
  unchecked,  \* names (in lower case) and addresses that were written although
              \* nobody had made sure that they were free, or not lately
  behind      \* the file was written from rows that were old by then, or was not
              \* written when they changed

vars == <<users, extra, keys, file, lastKey, tokens, workers, requests, unchecked,
          behind>>
tables == <<users, extra, keys, lastKey, tokens>>

Sources == {"internal", "external"}   \* extern_type
Account == [name : Names, email : Emails \cup {None}, active : BOOLEAN,
            source : Sources]
Row == Account \cup {None, Gone}
Key == [id : 1 .. MaxRequests, user : Ids, key : Fingerprints]
ExtraEmail == [user : Ids, email : Emails]
\* Made of the account's id, main address and password.
Token == [user : Ids, email : Emails]

Ops == {"idle", "create", "update", "email", "ask", "save", "open", "reset",
        "key", "write", "replace"}

\* user: the account it is about; asked: the one that a login found first; old:
\* its row as it was loaded; new: the row to write; typed: the name, address or
\* key that was entered; lines: for the file; secret: the password is set too;
\* overtaken: another request has committed since this one looked.
Idle == [op |-> "idle", user |-> None, asked |-> None, old |-> None, new |-> None,
         typed |-> None, lines |-> {}, secret |-> FALSE, overtaken |-> FALSE]

-----------------------------------------------------------------------------
(* Lookups.                                                                  *)

Users == {u \in Ids : users[u] \notin {None, Gone}}

\* get_by_username(case_insensitive=True)
Named(n) == {u \in Users : Lower[users[u].name] = Lower[n]}

\* get_by_email: the main addresses first.
ByEmail(e) ==
  LET main == {u \in Users : users[u].email = e}
  IN  IF main # {} THEN main ELSE {x.user : x \in {x \in extra : x.email = e}}

\* get_by_username_or_email
Typed(t) == IF t \in Emails THEN ByEmail(t) ELSE Named(t)

\* The rows of write_authorized_keys.
ActiveKeys == {k \in keys : users[k.user].active}

-----------------------------------------------------------------------------
(* Starting a request and committing one.                                    *)

Begin(w, r) ==
  /\ workers[w] = Idle
  /\ requests < MaxRequests
  /\ requests' = requests + 1
  /\ workers' = [workers EXCEPT ![w] = r]

\* A commit: what the others have looked up may be old.
Continue(w, r) ==
  workers' = [v \in Workers |->
    IF v = w THEN r
    ELSE [workers[v] EXCEPT !.overtaken = workers[v].op # "idle"]]

\* A request that looks and commits in one step of the model.
AtOnce(w, r) ==
  /\ workers[w] = Idle
  /\ requests < MaxRequests
  /\ requests' = requests + 1
  /\ Continue(w, r)

Live(row) == row \notin {None, Gone}

\* The unique columns.
RowsDiffer(rows) ==
  \A u, v \in Ids :
    u # v /\ Live(rows[u]) /\ Live(rows[v]) =>
      /\ rows[u].name # rows[v].name
      /\ rows[u].email # rows[v].email \/ rows[u].email = None

WriteRows(rows) == RowsDiffer(rows) /\ users' = rows

\* A change of the rows the file is written from, with no writer to follow.
NoteKeys == behind' = (behind \/ ActiveKeys' # ActiveKeys)

NextIds == {u \in Ids : users[u] = None /\ \A v \in Ids : v < u => users[v] # None}

\* The columns that the request has changed.
Written(row, old, new) ==
  [c \in DOMAIN row |-> IF new[c] = old[c] THEN row[c] ELSE new[c]]

NameOf(old, new) == IF old # None /\ old.name = new.name THEN {} ELSE {Lower[new.name]}
EmailOf(old, new) ==
  IF (old # None /\ old.email = new.email) \/ new.email = None THEN {} ELSE {new.email}

\* A request that was overtaken does not know that its names are free.
NoteUnchecked(r) ==
  unchecked' = unchecked \cup
    (IF r.overtaken THEN NameOf(r.old, r.new) \cup EmailOf(r.old, r.new) ELSE {})

\* With a password, its tokens go.
Forget(u) == tokens' = {t \in tokens : t.user # u}

-----------------------------------------------------------------------------
(* Accounts.                                                                 *)

\* ValidUsername and UniqSystemEmail.  (Bug: compares names as they are written.)
VeryNameFree(n) == \A u \in Users : users[u].name # n
NameFree(n) == Named(n) = {}
EmailFree(e) == ByEmail(e) = {}

\* What the form asks of a new account, and of one that it changes.
MayBecome(old, n, e) ==
  /\ old = None \/ n # old.name => NameFree(n)
  /\ old = None \/ e # old.email => EmailFree(e)

\* get_managed_fields: name and password of an account of the directory are not
\* written (where its address is not either, the form shows the one it has).
Managed(row) == row.source = "external"

BeginCreate(w, n, e, active) ==
  /\ MayBecome(None, n, e)
  /\ Begin(w, [Idle EXCEPT !.op = "create", !.new =
       [name |-> n, email |-> e, active |-> active, source |-> "internal"]])
  /\ UNCHANGED <<tables, file, unchecked, behind>>

\* The administrator says whether the account is active, the default permissions
\* say it of one that somebody registers.
CheckCreate(w) ==
  \E n \in Names, e \in Emails, active \in BOOLEAN : BeginCreate(w, n, e, active)
Register(w) ==
  \E n \in Names, e \in Emails : BeginCreate(w, n, e, AutoActive)

\* create_user asks whether there is this very name, and create_or_update for one
\* that may differ in case: that account is rewritten.
CheckCreateViaApi(w) ==
  \E new \in [name : Names, email : Emails, active : BOOLEAN, source : Sources] :
    LET n == new.name
    IN  /\ \A u \in Users : users[u].name # n
        /\ EmailFree(new.email)
        /\ \/ /\ Named(n) = {}
              /\ Begin(w, [Idle EXCEPT !.op = "create", !.new = new])
           \/ \E u \in Ids :
                /\ Named(n) = {u}
                /\ Begin(w, [Idle EXCEPT !.op = "update", !.user = u, !.old = users[u],
                                         !.new = new, !.secret = TRUE])
        /\ UNCHANGED <<tables, file, unchecked, behind>>

CommitCreate(w) ==
  LET r == workers[w] IN
  /\ r.op = "create"
  /\ \E u \in NextIds : WriteRows([users EXCEPT ![u] = r.new])
  /\ Continue(w, Idle)
  /\ NoteUnchecked(r)
  /\ UNCHANGED <<extra, keys, file, lastKey, tokens, requests, behind>>

BeginUpdate(w, u, n, e, active, secret) ==
  LET old == users[u]
      name == IF Managed(old) THEN old.name ELSE n
  IN  /\ MayBecome(old, n, e)
      /\ Begin(w, [Idle EXCEPT !.op = "update", !.user = u, !.old = old,
           !.new = [old EXCEPT !.name = name, !.email = e, !.active = active],
           !.secret = secret /\ ~Managed(old)])
      /\ UNCHANGED <<tables, file, unchecked, behind>>

\* The administrator's form, the form of one's own account, and the one of its
\* password.
CheckUpdate(w) ==
  \E u \in Users, n \in Names, e \in Emails, active, secret \in BOOLEAN :
    BeginUpdate(w, u, n, e, active, secret)
MyAccount(w) ==
  \E u \in Users, n \in Names, e \in Emails :
    users[u].active /\ BeginUpdate(w, u, n, e, TRUE, FALSE)
MyPassword(w) ==
  \E u \in Users :
    /\ users[u].active /\ ~Managed(users[u])
    /\ Begin(w, [Idle EXCEPT !.op = "update", !.user = u, !.old = users[u],
                             !.new = users[u], !.secret = TRUE])
    /\ UNCHANGED <<tables, file, unchecked, behind>>

CommitUpdate(w) ==
  LET r == workers[w] IN
  /\ r.op = "update"
  /\ r.user \in Users
  /\ WriteRows([users EXCEPT ![r.user] = Written(@, r.old, r.new)])
  /\ IF r.secret THEN Forget(r.user) ELSE UNCHANGED tokens
  /\ Continue(w, Idle)
  /\ NoteUnchecked(r)
  /\ UNCHANGED <<extra, keys, file, lastKey, requests>>
  /\ NoteKeys

\* update_user asks nothing.  Bound: it is given one column.
UpdateViaApi(w) ==
  \E u \in Users, new \in Account :
    /\ \E c \in DOMAIN new : \A d \in DOMAIN new \ {c} : new[d] = users[u][d]
    /\ WriteRows([users EXCEPT ![u] = new])
    /\ AtOnce(w, Idle)
    /\ unchecked' = unchecked \cup NameOf(users[u], new) \cup EmailOf(users[u], new)
    /\ IF new = users[u] THEN Forget(u) ELSE UNCHANGED tokens   \* the password
    /\ UNCHANGED <<extra, keys, file, lastKey>>
    /\ NoteKeys

\* The account's rows in the other tables go with it.
DeleteUser(w) ==
  \E u \in Users :
    /\ WriteRows([users EXCEPT ![u] = Gone])
    /\ extra' = {x \in extra : x.user # u}
    /\ keys' = {k \in keys : k.user # u}
    /\ Forget(u)
    /\ AtOnce(w, Idle)
    /\ UNCHANGED <<file, lastKey, unchecked>>
    /\ NoteKeys

\* add_extra_email
CheckEmail(w) ==
  \E u \in Users, e \in Emails :
    /\ EmailFree(e)
    /\ Begin(w, [Idle EXCEPT !.op = "email", !.user = u, !.typed = e])
    /\ UNCHANGED <<tables, file, unchecked, behind>>

CommitEmail(w) ==
  LET r == workers[w] IN
  /\ r.op = "email"
  /\ r.user \in Users
  /\ \A x \in extra : x.email # r.typed
  /\ extra' = extra \cup {[user |-> r.user, email |-> r.typed]}
  /\ unchecked' = unchecked \cup (IF r.overtaken THEN {r.typed} ELSE {})
  /\ Continue(w, Idle)
  /\ UNCHANGED <<users, keys, file, lastKey, tokens, requests, behind>>

DeleteEmail(w) ==
  \E x \in extra :
    /\ extra' = extra \ {x}
    /\ AtOnce(w, Idle)
    /\ UNCHANGED <<users, keys, file, lastKey, tokens, unchecked, behind>>

-----------------------------------------------------------------------------
(* Logins: by the form, by the web server, or of a Mercurial or Git client.  *)

\* (Bug: the directory is asked about every account.)
LookUpAll(w) ==
  \E t \in Names :
    /\ \/ \E u \in Users :
            /\ Typed(t) = {u}
            /\ users[u].active
            /\ Begin(w, [Idle EXCEPT !.op = "ask", !.user = u, !.asked = u,
                                     !.old = users[u], !.typed = t])
       \/ /\ Typed(t) = {}
          /\ Begin(w, [Idle EXCEPT !.op = "ask", !.typed = t])
    /\ UNCHANGED <<tables, file, unchecked, behind>>

\* (Bug: the form lets the web server's user in, for whom there is no password.)
LookUpServer(w) ==
  \E t \in Names \cup Emails, u \in Users :
    /\ users[u].active
    /\ Typed(t) # {}
    /\ Begin(w, [Idle EXCEPT !.op = "open", !.user = u, !.asked = u, !.typed = t])
    /\ UNCHANGED <<tables, file, unchecked, behind>>

\* accepts(): an account of its own is asked for its password, one of the
\* directory, or an unknown name, is asked there.
AcceptedBy(source) == IF source = "internal" THEN "open" ELSE "ask"

\* authenticate
LookUp(w) ==
  \E t \in Names \cup Emails :
    /\ \/ \E u \in Users :
            /\ Typed(t) = {u}
            /\ users[u].active
            /\ Begin(w, [Idle EXCEPT !.op = AcceptedBy(users[u].source), !.user = u,
                                     !.asked = u, !.old = users[u], !.typed = t])
       \/ /\ t \in Names
          /\ Typed(t) = {}
          /\ Begin(w, [Idle EXCEPT !.op = "ask", !.typed = t])
    /\ UNCHANGED <<tables, file, unchecked, behind>>

\* auth() of the directories.  The name is the one that was asked for, or for Crowd
\* the one that it answers; the address comes from the directory, or is as it was,
\* or is made up for the users of the host.
Known(r) == r.asked # None
AskedFor(r) == IF Known(r) THEN r.old.name ELSE r.typed
EmailKnown(r) == IF Known(r) THEN r.old.email ELSE None

LdapNames(r) == {AskedFor(r)}
CrowdNames(r) == {n \in Names : Lower[n] = Lower[AskedFor(r)]}
PamEmails(r) == IF EmailKnown(r) = None THEN Emails ELSE {EmailKnown(r)}
ContainerEmails(r) == Emails \cup {EmailKnown(r)}

\* Active as it is, or as the default permissions say.
Answers(r) ==
  [name : LdapNames(r) \cup CrowdNames(r),
   email : PamEmails(r) \cup ContainerEmails(r),
   active : IF Known(r) THEN {r.old.active} ELSE BOOLEAN,
   source : {"external"}]

\* The directory knows the user: create_or_update looks for the account again.
Answer(w) ==
  LET r == workers[w] IN
  /\ r.op = "ask"
  /\ \E new \in Answers(r) :
       \/ /\ Named(new.name) = {}
          /\ workers' = [workers EXCEPT ![w] =
               [r EXCEPT !.op = "save", !.user = None, !.old = None, !.new = new]]
       \/ \E u \in Ids :
            /\ Named(new.name) = {u}
            /\ workers' = [workers EXCEPT ![w] =
                 [r EXCEPT !.op = "save", !.user = u, !.new = new,
                           !.old = IF u = r.asked THEN @ ELSE users[u]]]
  /\ UNCHANGED <<tables, file, requests, unchecked, behind>>

\* Nobody has asked whether the address is free.  After that a name of the web
\* server counts as it was answered, what a form or a client sent as it was typed.
\* The tokens go with the password, which stays if it is the one that was given or if
\* the account has none.
SaveLogin(w) ==
  LET r == workers[w] IN
  /\ r.op = "save"
  /\ \E u \in IF r.user = None THEN NextIds ELSE {r.user} \cap Users :
       /\ WriteRows([users EXCEPT ![u] =
            IF r.user = None THEN r.new ELSE Written(@, r.old, r.new)])
       /\ Forget(u) \/ (r.user # None /\ UNCHANGED tokens)
       /\ \E typed \in {r.typed, r.new.name} :
            Continue(w, [Idle EXCEPT !.op = "open", !.user = u, !.typed = typed,
                                     !.overtaken = r.overtaken])
  /\ unchecked' = unchecked \cup EmailOf(r.old, r.new)
                            \cup (IF r.overtaken THEN NameOf(r.old, r.new) ELSE {})
  /\ UNCHANGED <<extra, keys, file, lastKey, requests>>
  /\ NoteKeys

\* AuthUser.make wants an active account; opening the session commits when it was
\* last used, which nothing here reads.
LogIn(w, found) ==
  /\ workers[w].op = "open"
  /\ \E u \in Users : found = {u} /\ users[u].active
  /\ workers' = [workers EXCEPT ![w] = Idle]
  /\ UNCHANGED <<tables, file, requests, unchecked, behind>>

\* The account is looked up once more: by what was typed into the form, by the name
\* that the web server answered, and by what a Mercurial or Git client sent or the
\* web server answered.
OpenSession(w) == LogIn(w, Typed(workers[w].typed))
OpenContainerSession(w) ==
  workers[w].typed \in Names /\ LogIn(w, Named(workers[w].typed))
AuthorizeClient(w) == LogIn(w, Typed(workers[w].typed))

-----------------------------------------------------------------------------
(* Resetting a password.                                                     *)

\* (Bug: an account without a main address has a token too.)
RequestAnyReset(w) ==
  \E e \in Emails, u \in Users :
    /\ ByEmail(e) = {u}
    /\ users[u].source = "internal"
    /\ workers[w] = Idle
    /\ requests < MaxRequests
    /\ requests' = requests + 1
    /\ tokens' = tokens \cup {[user |-> u, email |-> users[u].email]}
    /\ UNCHANGED <<users, extra, keys, file, lastKey, workers, unchecked, behind>>

RequestReset(w) ==
  \E e \in Emails, u \in Users :
    /\ ByEmail(e) = {u}
    /\ users[u].source = "internal"
    /\ users[u].email # None
    /\ workers[w] = Idle
    /\ requests < MaxRequests
    /\ requests' = requests + 1
    /\ tokens' = tokens \cup {[user |-> u, email |-> users[u].email]}
    /\ UNCHANGED <<users, extra, keys, file, lastKey, workers, unchecked, behind>>

VerifyToken(w) ==
  \E e \in Emails, u \in Users :
    /\ ByEmail(e) = {u}
    /\ [user |-> u, email |-> users[u].email] \in tokens
    /\ Begin(w, [Idle EXCEPT !.op = "reset", !.user = u, !.typed = e])
    /\ UNCHANGED <<tables, file, unchecked, behind>>

\* reset_password looks the account up once more.
Reset(w) ==
  /\ workers[w].op = "reset"
  /\ \E u \in Users :
       /\ ByEmail(workers[w].typed) = {u}
       /\ users[u].source = "internal"
       /\ Forget(u)
  /\ workers' = [workers EXCEPT ![w] = Idle]
  /\ UNCHANGED <<users, extra, keys, file, lastKey, requests, unchecked, behind>>

\* After a day.
ExpireToken ==
  /\ \E t \in tokens : tokens' = tokens \ {t}
  /\ UNCHANGED <<users, extra, keys, file, lastKey, workers, requests, unchecked, behind>>

-----------------------------------------------------------------------------
(* SSH keys.                                                                 *)

CheckKey(w) ==
  \E u \in Users, f \in Fingerprints :
    /\ \A k \in keys : k.key # f
    /\ Begin(w, [Idle EXCEPT !.op = "key", !.user = u, !.typed = f])
    /\ UNCHANGED <<tables, file, unchecked, behind>>

CommitKey(w) ==
  LET r == workers[w] IN
  /\ r.op = "key"
  /\ r.user \in Users
  /\ \A k \in keys : k.key # r.typed
  /\ lastKey' = lastKey + 1
  /\ keys' = keys \cup {[id |-> lastKey', user |-> r.user, key |-> r.typed]}
  /\ Continue(w, [Idle EXCEPT !.op = "write"])
  /\ UNCHANGED <<users, extra, file, tokens, requests, unchecked, behind>>

DeleteKey(w) ==
  \E k \in keys :
    /\ keys' = keys \ {k}
    /\ AtOnce(w, [Idle EXCEPT !.op = "write"])
    /\ UNCHANGED <<users, extra, file, lastKey, tokens, unchecked, behind>>

\* kallithea-cli ssh-update-authorized-keys
UpdateKeyFile(w) ==
  /\ Begin(w, [Idle EXCEPT !.op = "write"])
  /\ UNCHANGED <<tables, file, unchecked, behind>>

\* (Bug: the keys of every account.)
ReadAllKeys(w) ==
  /\ workers[w].op = "write"
  /\ workers' = [workers EXCEPT ![w] = [Idle EXCEPT !.op = "replace", !.lines = keys]]
  /\ UNCHANGED <<tables, file, requests, unchecked, behind>>

\* write_authorized_keys: a new file is written, and takes the place of the old.
ReadKeys(w) ==
  /\ workers[w].op = "write"
  /\ workers' = [workers EXCEPT ![w] = [Idle EXCEPT !.op = "replace", !.lines = ActiveKeys]]
  /\ UNCHANGED <<tables, file, requests, unchecked, behind>>

ReplaceFile(w) ==
  /\ workers[w].op = "replace"
  /\ file' = workers[w].lines
  /\ behind' = workers[w].overtaken
  /\ workers' = [workers EXCEPT ![w] = Idle]
  /\ UNCHANGED <<tables, requests, unchecked>>

-----------------------------------------------------------------------------

\* An error page, or a worker that ends; the database rolls back.
Fail(w) ==
  /\ workers[w] # Idle
  /\ workers' = [workers EXCEPT ![w] = Idle]
  /\ behind' = (behind \/ workers[w].op \in {"write", "replace"})
  /\ UNCHANGED <<tables, file, requests, unchecked>>

Init ==
  /\ \E n \in Names, e \in Emails :   \* the account that the installer creates
       users = [u \in Ids |-> IF \A v \in Ids : u <= v
                  THEN [name |-> n, email |-> e, active |-> TRUE, source |-> "internal"]
                  ELSE None]
  /\ extra = {} /\ keys = {} /\ file = {} /\ lastKey = 0 /\ tokens = {}
  /\ workers = [w \in Workers |-> Idle]
  /\ requests = 0
  /\ unchecked = {}
  /\ behind = FALSE

Next ==
  \/ ExpireToken
  \/ \E w \in Workers :
       \/ CheckCreate(w) \/ Register(w) \/ CheckCreateViaApi(w) \/ CommitCreate(w)
       \/ CheckUpdate(w) \/ MyAccount(w) \/ MyPassword(w) \/ CommitUpdate(w)
       \/ UpdateViaApi(w) \/ DeleteUser(w)
       \/ CheckEmail(w) \/ CommitEmail(w) \/ DeleteEmail(w)
       \/ LookUp(w) \/ Answer(w) \/ SaveLogin(w)
       \/ OpenSession(w) \/ OpenContainerSession(w) \/ AuthorizeClient(w)
       \/ RequestReset(w) \/ VerifyToken(w) \/ Reset(w)
       \/ CheckKey(w) \/ CommitKey(w) \/ DeleteKey(w) \/ UpdateKeyFile(w)
       \/ ReadKeys(w) \/ ReplaceFile(w)
       \/ Fail(w)

Spec == Init /\ [][Next]_vars

-----------------------------------------------------------------------------
(* Properties.                                                               *)

Request ==
  [op : Ops, user : Ids \cup {None}, asked : Ids \cup {None}, old : Account \cup {None},
   new : Account \cup {None}, typed : Names \cup Emails \cup Fingerprints \cup {None},
   lines : SUBSET Key, secret : BOOLEAN, overtaken : BOOLEAN]

\* Every variable has its type.
TypeOK ==
  /\ users \in [Ids -> Row]
  /\ extra \subseteq ExtraEmail
  /\ keys \subseteq Key /\ file \subseteq Key
  /\ lastKey \in 0 .. MaxRequests
  /\ tokens \subseteq Token
  /\ \A w \in Workers : workers[w] \in Request
  /\ requests \in 0 .. MaxRequests
  /\ unchecked \subseteq {Lower[n] : n \in Names} \cup Emails
  /\ behind \in BOOLEAN

\* No two accounts have names that differ in case only, and no main address is
\* also somebody's extra address, so that lookups find one account: unless it was
\* written by a request that another one overtook, by the API, or with the
\* addresses of the directory.
AccountsDistinct ==
  \A u \in Users :
    /\ \A v \in Named(users[u].name) \ {u} : Lower[users[u].name] \in unchecked
    /\ \A x \in extra : users[u].email = x.email => x.email \in unchecked

\* A session is opened, and a password reset, for the account that gave the right
\* password or token, although it is looked up again by what was entered.
SecondLookupAgrees ==
  \A w \in Workers :
    LET r == workers[w]
        lookedUp == IF r.typed \in Emails THEN r.typed ELSE Lower[r.typed]
    IN  r.op \in {"open", "reset"} /\ ~r.overtaken /\ lookedUp \notin unchecked
        => Typed(r.typed) \subseteq {r.user}

\* A login that nobody overtook creates the account that it did not find, or writes
\* the one that it did: one of the directory, which stays active or not and keeps
\* its name up to case.
LoginsKeepAccounts ==
  [][\A w \in Workers :
       LET r == workers[w] IN
       r.op = "save" /\ workers'[w].op = "open" /\ ~r.overtaken =>
         \A u \in Ids : users'[u] # users[u] =>
           IF r.asked = None
           THEN users[u] = None /\ Lower[users'[u].name] = Lower[r.typed]
           ELSE /\ u = r.asked
                /\ users[u].source = "external"
                /\ users'[u].active = users[u].active
                /\ Lower[users'[u].name] = Lower[users[u].name]]_vars

\* When nobody is writing it, authorized_keys lists the keys of the active accounts:
\* unless they changed with no writing of the file to follow, or the last writer
\* had read them before a commit.
FileFollowsKeys ==
  (\A w \in Workers : workers[w].op \notin {"write", "replace"}) /\ ~behind
  => file = ActiveKeys

=============================================================================

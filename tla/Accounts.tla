------------------------------ MODULE Accounts ------------------------------
(***************************************************************************)
(* Registration, login, refresh and logout: AuthService.                   *)
(*                                                                         *)
(* The session of a user is one column, the hash of the refresh token.     *)
(* bcrypt reads 72 bytes, and the refresh tokens of a user agree on more   *)
(* (the header and the head of the id, which comes first): the hash tells  *)
(* users apart, not the tokens of a user, and is modelled as a set bit.    *)
(*                                                                         *)
(* A definition marked Mutant is not part of the specification.            *)
(***************************************************************************)
EXTENDS Calls

CONSTANT Name  \* usernames and e-mail addresses, in lower case

VARIABLES
  users,     \* table users
  issued,    \* history: users some refresh token has been made for
  loggedOut  \* history: users without a session since a logout nothing overlapped

accountVars == <<users, issued, loggedOut>>

(* A user is the request that registered it; register and login have no user yet. *)
Account == [id : Request, username : Name, email : Name, refreshToken : BOOLEAN]

AccountMemory ==
       [op : {"register"}, pc : {"insertUser"}, username : Name, email : Name]
  \cup [op : {"signIn"}, pc : {"storeToken"}, account : Request]

(* The calls that end with buildPayload *)
SigningIn == {r \in InFlight : req[r].pc = "storeToken"}

AccountOf(u) == {x \in users : x.id = u}

(* What a call that has been let in still has to do. *)
Payload(u) == [op |-> "signIn", pc |-> "storeToken", account |-> u]

-----------------------------------------------------------------------------
(* register looks up what was typed; what is stored is in lower case.  low has
   the inputs that were typed in lower case. *)
Register(r, username, email, low) ==
  /\ IF \E x \in users : \/ "username" \in low /\ x.username = username
                         \/ "email" \in low /\ x.email = email
     THEN Begin(r, Over)
     ELSE Begin(r, [op |-> "register", pc |-> "insertUser", username |-> username, email |-> email])
  /\ UNCHANGED accountVars

(* The columns are unique: the insert throws. *)
InsertUser(r) ==
  /\ At(r, "insertUser")
  /\ IF \E x \in users : x.username = req[r].username \/ x.email = req[r].email
     THEN Answer(r) /\ UNCHANGED users
     ELSE /\ users' = users \cup {[id |-> r, username |-> req[r].username,
                                   email |-> req[r].email, refreshToken |-> FALSE]}
          /\ req' = [req EXCEPT ![r] = Payload(r)]
  /\ UNCHANGED <<issued, loggedOut>>

(* login with the right password; with a wrong one it ends. *)
Login(r, u) ==
  /\ AccountOf(u) # {}
  /\ Begin(r, Payload(u))
  /\ loggedOut' = loggedOut \ {u}
  /\ UNCHANGED <<users, issued>>

(* Mutant: the signature is enough. *)
RefreshUnrevoked(r, u) ==
  /\ u \in issued
  /\ Begin(r, Payload(u))
  /\ UNCHANGED accountVars

(* refresh with a token of u: any of them compares equal to the stored hash, if
   there is one. *)
Refresh(r, u) ==
  /\ u \in issued
  /\ Begin(r, IF \E x \in AccountOf(u) : x.refreshToken THEN Payload(u) ELSE Over)
  /\ UNCHANGED accountVars

SetToken(u, set) ==
  users' = {IF x.id = u THEN [x EXCEPT !.refreshToken = set] ELSE x : x \in users}

(* buildPayload: the tokens are made, and the hash stored by an UPDATE. *)
StoreToken(r) ==
  /\ At(r, "storeToken")
  /\ SetToken(req[r].account, TRUE)
  /\ issued' = issued \cup {req[r].account}
  /\ Answer(r)
  /\ UNCHANGED loggedOut

(* logout, by whoever holds an access token: one UPDATE. *)
Logout(u) ==
  /\ u \in issued
  /\ SetToken(u, FALSE)
  /\ loggedOut' = IF \E r \in SigningIn : req[r].account = u THEN loggedOut
                  ELSE loggedOut \cup {u}
  /\ UNCHANGED <<req, issued>>

AbortAccount(r) ==
  /\ Abort(r)
  /\ req[r].op \in {"register", "signIn"}
  /\ UNCHANGED accountVars

-----------------------------------------------------------------------------
AccountsInit == users = {} /\ issued = {} /\ loggedOut = {}

AccountsNext ==
  \/ \E r \in Request :
       \/ \E username, email \in Name, low \in SUBSET {"username", "email"} :
            Register(r, username, email, low)
       \/ \E u \in Request : Login(r, u) \/ Refresh(r, u)
       \/ InsertUser(r) \/ StoreToken(r) \/ AbortAccount(r)
  \/ \E u \in Request : Logout(u)

-----------------------------------------------------------------------------
(* Properties *)

AccountsTypeOK ==
  /\ users \subseteq Account
  /\ issued \cup loggedOut \subseteq Request

(* After a logout that no login, refresh or registration of the user overlapped,
   the user has no session until the next login: no refresh token made before
   opens one again. *)
LoggedOutStaysOut ==
  \A x \in users : x.id \in loggedOut => ~x.refreshToken
=============================================================================

------------------------------ MODULE OperatorAuth ------------------------------
(***************************************************************************)
(* Operators and how they sign in: app/auth.py, routers/auth.py and the    *)
(* operator routes of routers/ops.py.                                      *)
(*                                                                         *)
(* A registration or a login takes two requests.  The first leaves a       *)
(* challenge cookie in the browser, with what the second is to do; other   *)
(* browsers may do anything in between, the cookie may expire, and the     *)
(* ceremony may fail.  Sessions are cookies too: the server keeps none.    *)
(* Cookies are signed, so a browser holds only what the server gave it.    *)
(*                                                                         *)
(* The authenticator and the WebAuthn library are external: a ceremony of  *)
(* a browser proves possession of a new credential, or of one it has, or   *)
(* fails.                                                                  *)
(***************************************************************************)
EXTENDS Integers, FiniteSets

CONSTANTS
    None,
    Browsers,
    Handles,       \* operators are told apart by their handle
    Invites,       \* registration links, as many as may be made
    Creds,         \* credentials, as many as may be registered
    DevLogin       \* Settings.dev_login

ASSUME AuthConstants == None \notin Handles \cup Invites /\ DevLogin \in BOOLEAN

VARIABLES
    operators,  \* the handles that have an account
    admins,     \* those with is_admin
    passkeys,   \* the operator each credential belongs to
    invites,    \* operator_invites: whose link each is, and its state
    session,    \* the session cookie of each browser: an operator
    challenge,  \* its challenge cookie
    reading,    \* the passkey row a login request has read
    minted,     \* history: the passkeys each link was used for
    setups,     \* history: the operators that signed up without anyone
    enrolled    \* history: the operators that ever had a passkey

tables == <<operators, admins, passkeys, invites>>
authVars == <<tables, session, challenge, reading, minted, setups, enrolled>>

NoChallenge == [purpose |-> "none", op |-> None, invite |-> None, new |-> FALSE]
AuthInit ==
    /\ operators = {} /\ admins = {}
    /\ passkeys = [c \in Creds |-> None]
    /\ invites = [i \in Invites |-> [op |-> None, state |-> "free"]]
    /\ session = [b \in Browsers |-> None]
    /\ challenge = [b \in Browsers |-> NoChallenge]
    /\ reading = [b \in Browsers |-> None]
    /\ minted = [i \in Invites |-> {}]
    /\ setups = {}
    /\ enrolled = {}

history == <<minted, setups, enrolled>>
Owned(op) == {c \in Creds : passkeys[c] = op}

-------------------------------------------------------------------------------
(* Challenge and session cookies. *)

SetChallenge(b, record) == challenge' = [challenge EXCEPT ![b] = record]
(* Every answer to a verify request deletes the challenge. *)
ClearChallenge(b) == challenge' = [challenge EXCEPT ![b] = NoChallenge]
SignIn(b, op) == session' = [session EXCEPT ![b] = op]

(* Either cookie expires in the browser. *)
CookieExpires(b) ==
    /\ \/ challenge[b] # NoChallenge /\ ClearChallenge(b) /\ UNCHANGED session
       \/ session[b] # None /\ SignIn(b, None) /\ UNCHANGED challenge
    /\ UNCHANGED <<tables, reading, history>>

Logout(b) ==
    /\ session[b] # None
    /\ SignIn(b, None)
    /\ UNCHANGED <<tables, challenge, reading, history>>

(* dev_login: an admin, or a new one when there is none. *)
DevSignIn(b) ==
    /\ DevLogin
    /\ \E op \in (IF admins = {} THEN Handles \ operators ELSE admins) :
         /\ SignIn(b, op)
         /\ operators' = operators \cup {op}
         /\ admins' = admins \cup {op}
    /\ UNCHANGED <<passkeys, invites, challenge, reading, history>>

-------------------------------------------------------------------------------
(* The routes of operators, for admins. *)

CreateOperator(b) ==
    /\ session[b] \in admins
    /\ \E op \in Handles \ operators, is_admin \in BOOLEAN :
         /\ operators' = operators \cup {op}
         /\ admins' = IF is_admin THEN admins \cup {op} ELSE admins
    /\ UNCHANGED <<passkeys, invites, session, challenge, reading, history>>

CreateInvite(b) ==
    /\ session[b] \in admins
    /\ \E i \in Invites, op \in operators :
         /\ invites[i].state = "free"
         /\ invites' = [invites EXCEPT ![i] = [op |-> op, state |-> "open"]]
    /\ UNCHANGED <<operators, admins, passkeys, session, challenge, reading, history>>

(* The open links of an operator are deleted. *)
RevokeInvites(b) ==
    /\ session[b] \in admins
    /\ \E op \in operators :
         invites' = [i \in Invites |->
            IF invites[i].op = op /\ invites[i].state \in {"open", "expired"}
            THEN [invites[i] EXCEPT !.state = "revoked"] ELSE invites[i]]
    /\ UNCHANGED <<operators, admins, passkeys, session, challenge, reading, history>>

InviteExpires(i) ==
    /\ invites[i].state = "open"
    /\ invites' = [invites EXCEPT ![i].state = "expired"]
    /\ UNCHANGED <<operators, admins, passkeys, session, challenge, reading, history>>

-------------------------------------------------------------------------------
(* register_options: a session comes before a link, a link before setup. *)
RegisterOptions(b, invite) ==
    /\ \/ /\ session[b] # None
          /\ SetChallenge(b, [NoChallenge EXCEPT !.purpose = "register", !.op = session[b]])
       \/ /\ session[b] = None /\ invite # None
          /\ invites[invite].state = "open"
          /\ SetChallenge(b, [NoChallenge EXCEPT !.purpose = "register", !.op = invites[invite].op,
                                                 !.invite = invite])
       \/ /\ session[b] = None /\ invite = None
          /\ operators = {}
          /\ \E op \in Handles :
               SetChallenge(b, [NoChallenge EXCEPT !.purpose = "register", !.op = op, !.new = TRUE])
    /\ UNCHANGED <<tables, session, reading, history>>

(* complete_registration: one transaction checks again what the challenge      *)
(* stands for, uses the link up and stores the credential.                     *)
(* Mutants: setup is checked with the options only; the link is not used up.    *)
AdmittedOnOptions(ch) == ch.invite # None => invites[ch.invite].state = "open"
Admitted(ch) ==
    /\ ch.new => operators = {}
    /\ ch.invite # None => invites[ch.invite].state = "open"

UseUpNothing(ch) == UNCHANGED invites
UseUp(ch) ==
    invites' = IF ch.invite = None THEN invites ELSE [invites EXCEPT ![ch.invite].state = "used"]

RegisterVerify(b) ==
    LET ch == challenge[b]
    IN  /\ ch.purpose = "register" /\ Admitted(ch)
        /\ \E c \in Creds :
             /\ passkeys[c] = None
             /\ passkeys' = [passkeys EXCEPT ![c] = ch.op]
             /\ minted' = IF ch.invite = None THEN minted
                          ELSE [minted EXCEPT ![ch.invite] = @ \cup {c}]
        /\ UseUp(ch)
        /\ operators' = operators \cup {ch.op}
        /\ admins' = IF ch.new THEN admins \cup {ch.op} ELSE admins
        /\ setups' = IF ch.new THEN setups \cup {ch.op} ELSE setups
        /\ enrolled' = enrolled \cup {ch.op}
        /\ SignIn(b, ch.op)
        /\ ClearChallenge(b)
        /\ UNCHANGED reading

(* A verify that is refused, of either kind, or whose ceremony fails. *)
VerifyFails(b) ==
    /\ challenge[b].purpose # "none"
    /\ ClearChallenge(b)
    /\ reading' = [reading EXCEPT ![b] = None]
    /\ UNCHANGED <<tables, session, history>>

-------------------------------------------------------------------------------
(* login: the row is read and verified before the transaction that counts it.  *)

LoginOptions(b) ==
    /\ SetChallenge(b, [NoChallenge EXCEPT !.purpose = "login"])
    /\ UNCHANGED <<tables, session, reading, history>>

LoginReads(b) ==
    /\ challenge[b].purpose = "login" /\ reading[b] = None
    /\ \E c \in Creds : passkeys[c] # None /\ reading' = [reading EXCEPT ![b] = passkeys[c]]
    /\ UNCHANGED <<tables, session, challenge, history>>

LoginVerify(b) ==
    /\ challenge[b].purpose = "login" /\ reading[b] # None
    /\ SignIn(b, reading[b])
    /\ reading' = [reading EXCEPT ![b] = None]
    /\ ClearChallenge(b)
    /\ UNCHANGED <<tables, history>>

(* delete_passkey: one of the operator's own, and not the only one. *)
(* Mutant: the last one may go.                                     *)
DeletePasskeyAny(b, c) ==
    /\ session[b] # None /\ c \in Owned(session[b])
    /\ passkeys' = [passkeys EXCEPT ![c] = None]
    /\ UNCHANGED <<operators, admins, invites, session, challenge, reading, history>>
DeletePasskey(b, c) ==
    /\ session[b] # None
    /\ c \in Owned(session[b]) /\ Cardinality(Owned(session[b])) # 1
    /\ passkeys' = [passkeys EXCEPT ![c] = None]
    /\ UNCHANGED <<operators, admins, invites, session, challenge, reading, history>>

AuthNext ==
    \/ \E b \in Browsers :
         \/ CookieExpires(b) \/ Logout(b) \/ DevSignIn(b)
         \/ CreateOperator(b) \/ CreateInvite(b) \/ RevokeInvites(b)
         \/ \E i \in Invites \cup {None} : RegisterOptions(b, i)
         \/ RegisterVerify(b) \/ VerifyFails(b)
         \/ LoginOptions(b) \/ LoginReads(b) \/ LoginVerify(b)
         \/ \E c \in Creds : DeletePasskey(b, c)
    \/ \E i \in Invites : InviteExpires(i)

AuthSpec == AuthInit /\ [][AuthNext]_authVars

-------------------------------------------------------------------------------
(* Type invariant, with the references of the tables. *)
AuthTypeOK ==
    /\ admins \subseteq operators /\ operators \subseteq Handles
    /\ passkeys \in [Creds -> operators \cup {None}]
    /\ invites \in [Invites -> [op : operators \cup {None},
                                state : {"free", "open", "expired", "revoked", "used"}]]
    /\ \A i \in Invites : invites[i].state = "free" <=> invites[i].op = None
    /\ session \in [Browsers -> operators \cup {None}]
    /\ reading \in [Browsers -> operators \cup {None}]
    /\ challenge \in [Browsers -> [purpose : {"none", "register", "login"}, op : Handles \cup {None},
                                   invite : Invites \cup {None}, new : BOOLEAN]]
    /\ \A b \in Browsers : challenge[b].purpose = "register" => challenge[b].op # None
    /\ minted \in [Invites -> SUBSET Creds]
    /\ setups \subseteq operators /\ enrolled \subseteq operators

(* A link makes one passkey and is used up by it, however many browsers opened  *)
(* it before ("so it can never be used twice").                                 *)
LinkMakesOnePasskey ==
    \A i \in Invites :
        /\ Cardinality(minted[i]) <= 1
        /\ minted[i] # {} <=> invites[i].state = "used"

(* Setup happens once: of the browsers that were offered it, one becomes the    *)
(* first operator.                                                             *)
SetupHappensOnce == Cardinality(setups) <= 1

(* No operator who ever had a passkey is left without one: delete_passkey       *)
(* "refuses the last one, which would leave the operator unable to sign in".    *)
NobodyIsLockedOut == \A op \in enrolled : Owned(op) # {}
================================================================================

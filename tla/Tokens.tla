------------------------------- MODULE Tokens -------------------------------
(***************************************************************************)
(* The bearer tokens of the hosted directories (directory/entra/token.go   *)
(* and directory/google/token.go, which are the same machine around two    *)
(* grants): several lookups share one token, sign in again shortly before  *)
(* it expires and hold a lock across the request that does.                *)
(*                                                                         *)
(* The lifetime counts from when the endpoint issued the token; the client *)
(* counts it from when the answer arrived.  A grant takes up to TkSlow     *)
(* ticks to arrive after it was issued, a lookup up to TkSlow to arrive.   *)
(***************************************************************************)
EXTENDS Integers, FiniteSets

CONSTANTS
  TkCallers,
  TkEarly,       \* how long before expiry a token is replaced
  TkLives,       \* the lifetimes a grant may carry; 0 when it names none
  TkUnnamed,     \* how long a token lives whose grant named no lifetime
  TkSlow,        \* how long a request may be on its way
  TkMaxTime, TkMaxFaults
ASSUME TkAssumption ==
  /\ TkEarly \in Nat \ {0} /\ TkSlow \in Nat /\ 2 * TkSlow < TkEarly
  /\ \A l \in TkLives : l = 0 \/ l > 2 * TkSlow
  /\ TkUnnamed > 2 * TkSlow

VARIABLES
  tkNow,
  tkToken,    \* the token held: until as the client counts, dies as the endpoint does
  tkCall,     \* what each caller is doing, with which token and since when
  tkLock,     \* who holds the mutex
  tkFaults,   \* how many sign ins were refused
  tkHeldLive  \* a caller was refused while the token held was still alive

tkVars == <<tkNow, tkToken, tkCall, tkLock, tkFaults, tkHeldLive>>

tkNoToken == [held |-> FALSE, until |-> 0, dies |-> 0]
tkIdle == [at |-> "idle", token |-> tkNoToken, age |-> 0]
tkFree == "free"

TkInit ==
  /\ tkNow = 0 /\ tkToken = tkNoToken /\ tkCall = [c \in TkCallers |-> tkIdle]
  /\ tkLock = tkFree /\ tkFaults = 0 /\ tkHeldLive = FALSE

\* Token: the held token is still good for a while.
fresh == tkToken.held /\ tkNow < tkToken.until - TkEarly

tkSets(c, call) == tkCall' = [tkCall EXCEPT ![c] = call]

\* get: a lookup asks for a token.
TkAsk(c) ==
  /\ tkCall[c].at = "idle"
  /\ tkSets(c, [tkIdle EXCEPT !.at = "wants"])
  /\ UNCHANGED <<tkNow, tkToken, tkLock, tkFaults, tkHeldLive>>

\* Token, up to the request: under the lock, so that who waited for it finds
\* what the one before it fetched.
TkLock(c) ==
  /\ tkCall[c].at = "wants" /\ tkLock = tkFree
  /\ IF fresh THEN tkSets(c, [at |-> "sent", token |-> tkToken, age |-> 0]) /\ UNCHANGED tkLock
     ELSE tkSets(c, [tkIdle EXCEPT !.at = "signing"]) /\ tkLock' = c
  /\ UNCHANGED <<tkNow, tkToken, tkFaults, tkHeldLive>>

\* acquire: the endpoint issues a token, which is on its way for a while.
TkIssue(c, lasts) ==
  /\ tkCall[c].at = "signing"
  /\ tkSets(c, [at |-> "granted", age |-> 0,
                token |-> [held |-> TRUE, until |-> lasts, dies |-> tkNow + (IF lasts = 0 THEN TkUnnamed ELSE lasts)]])
  /\ UNCHANGED <<tkNow, tkToken, tkLock, tkFaults, tkHeldLive>>

\* acquire and Token, the answer: a grant that names no lifetime is held a
\* little longer than the margin.
lifetime(lasts) == IF lasts <= 0 THEN TkEarly + 1 ELSE lasts
TkReceive(c) ==
  /\ tkCall[c].at = "granted"
  /\ LET got == [tkCall[c].token EXCEPT !.until = tkNow + lifetime(@)]
     IN tkToken' = got /\ tkSets(c, [at |-> "sent", token |-> got, age |-> 0])
  /\ tkLock' = tkFree
  /\ UNCHANGED <<tkNow, tkFaults, tkHeldLive>>

\* acquire fails: the old token stays where it is and the caller gets the error.
TkRefuse(c) ==
  /\ tkCall[c].at = "signing" /\ tkFaults < TkMaxFaults
  /\ tkFaults' = tkFaults + 1
  /\ tkSets(c, tkIdle) /\ tkLock' = tkFree
  /\ tkHeldLive' = (tkHeldLive \/ (tkToken.held /\ tkNow < tkToken.dies - TkSlow))
  /\ UNCHANGED <<tkNow, tkToken>>

\* The lookup arrives.
TkArrive(c) ==
  /\ tkCall[c].at = "sent"
  /\ tkSets(c, tkIdle)
  /\ UNCHANGED <<tkNow, tkToken, tkLock, tkFaults, tkHeldLive>>

TkTick ==
  /\ tkNow < TkMaxTime
  /\ \A c \in TkCallers : tkCall[c].at \in {"sent", "granted"} => tkCall[c].age < TkSlow
  /\ tkNow' = tkNow + 1
  /\ tkCall' = [c \in TkCallers |-> IF tkCall[c].at \in {"sent", "granted"} THEN [tkCall[c] EXCEPT !.age = @ + 1] ELSE tkCall[c]]
  /\ UNCHANGED <<tkToken, tkLock, tkFaults, tkHeldLive>>

TkNext ==
  \/ TkTick
  \/ \E c \in TkCallers : \/ TkAsk(c) \/ TkLock(c) \/ TkReceive(c) \/ TkRefuse(c) \/ TkArrive(c)
                          \/ \E l \in TkLives : TkIssue(c, l)

-----------------------------------------------------------------------------
\* A lookup never arrives with a token that has expired at the endpoint, although
\* the client counts the lifetime from too late a moment and looks at it before
\* the lookup is sent (Token, DefaultEarly).
ArrivesAlive == \A c \in TkCallers : tkCall[c].at = "sent" => tkNow < tkCall[c].token.dies

\* Nobody signs in while a token that is good for a while is held, so an expiry
\* noticed by several lookups at once costs one sign in (Token).
SignsInOnce == \A c \in TkCallers : tkCall[c].at = "signing" => ~ (tkToken.held /\ tkNow < tkToken.until - TkEarly)

\* A sign in that is refused while the token held is still alive costs no lookup
\* (Token).
BadMomentCostsNothing == ~ tkHeldLive
=============================================================================

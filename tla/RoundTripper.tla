---------------------------- MODULE RoundTripper ----------------------------
(***************************************************************************)
(* The round tripper of src/dcos/http/transport/roundtripper.go, once its  *)
(* options are applied (Transport): the first login, then callers that     *)
(* share one dcosRoundtripper, its token and its mutex, the login endpoint *)
(* that issues tokens, and servers that answer 401 to a request whose      *)
(* token has expired.                                                      *)
(*                                                                         *)
(* Tokens are numbered as they are issued; 0 is the empty token.           *)
(***************************************************************************)
EXTENDS Transport

CONSTANTS
  Callers,         \* the goroutines that use the round tripper
  DefaultExpire,   \* what NewRoundTripper falls back to
  NoCaller         \* nobody holds the mutex

ASSUME RoundTripperAssumption ==
  /\ NoCaller \notin Callers
  /\ DefaultExpire \in Nat \ {0}

VARIABLES
  token,      \* the field token
  mutex,      \* who holds the mutex
  issued,     \* number of tokens that the login endpoint has issued
  valid,      \* the tokens that servers accept
  pc,         \* pc[r]: where r's RoundTrip is
  header,     \* header[r]: the token in the Authorization header of r's request
  answer,     \* answer[r]: the token in the answer to r's login
  direct,     \* those whose call is GenerateToken, got through DebugTransport
  handled,    \* handled[r]: how often a server has acted on r's request
  denied,     \* denied[r]: servers answer 401 to r's request whatever its token
  ret,        \* ret[r]: how r's last RoundTrip returned
  calls,      \* number of RoundTrips begun
  disturbed   \* history: since r's login a token expired or an empty one was sent

authVars == <<token, mutex, issued, valid>>
callVars == <<pc, header, answer, direct, handled, denied, ret, calls, disturbed>>
vars     == <<buildVars, authVars, callVars>>

Points == {"idle", "addToken", "try", "lock", "login", "store", "addNewToken", "retry"}

Init ==
  /\ BuildInit
  /\ token = 0
  /\ mutex = NoCaller
  /\ issued = 0
  /\ valid = {}
  /\ pc = [r \in Callers |-> "idle"]
  /\ header = [r \in Callers |-> 0]
  /\ answer = [r \in Callers |-> 0]
  /\ direct = {}
  /\ handled = [r \in Callers |-> 0]
  /\ denied = [r \in Callers |-> FALSE]
  /\ ret = [r \in Callers |-> "none"]
  /\ calls = 0
  /\ disturbed = [r \in Callers |-> FALSE]

-----------------------------------------------------------------------------
(* NewRoundTripper. *)

\* After the options, the default expiry and the first login, on which everything
\* depends.  Without a key nothing can be signed.
NewRoundTripper ==
  /\ phase = "NewRoundTripper"
  /\ todo = <<>>
  /\ roundtripper' = [roundtripper EXCEPT !.expire = IF @ < 1 THEN DefaultExpire ELSE @]
  /\ \/ /\ roundtripper.secret # ""
        /\ phase' = "ready"
        /\ \/ issued' = issued + 1 /\ token' = issued' /\ valid' = valid \cup {issued'}
           \/ UNCHANGED <<issued, token, valid>>
     \/ /\ phase' = "failed"
        /\ UNCHANGED <<issued, token, valid>>
  /\ UNCHANGED <<program, todo, dcosTransport, tls, mutex, callVars>>

-----------------------------------------------------------------------------
(* Servers (external). *)

\* A token expires, or is revoked.
Expire(t) ==
  /\ valid' = valid \ {t}
  /\ disturbed' = [r \in Callers |-> TRUE]
  /\ UNCHANGED <<buildVars, token, mutex, issued, pc, header, answer, direct, handled, denied, ret, calls>>

\* Whether a server accepts r's request.
Authorized(r) == ~denied[r] /\ header[r] \in valid

-----------------------------------------------------------------------------
(* RoundTrip. *)

Goto(r, point) == pc' = [pc EXCEPT ![r] = point] /\ UNCHANGED ret

Return(r, result) ==
  /\ pc' = [pc EXCEPT ![r] = "idle"]
  /\ ret' = [ret EXCEPT ![r] = result]

\* r sends a new request, which carries no token yet.
RoundTrip(r) ==
  /\ phase = "ready"
  /\ pc[r] = "idle"
  /\ calls < program.maxCalls
  /\ calls' = calls + 1
  /\ header' = [header EXCEPT ![r] = 0]
  /\ \E d \in BOOLEAN : denied' = [denied EXCEPT ![r] = d]
  /\ pc' = [pc EXCEPT ![r] = "addToken"]
  /\ ret' = [ret EXCEPT ![r] = "none"]
  /\ direct' = direct \ {r}
  /\ handled' = [handled EXCEPT ![r] = 0]
  /\ UNCHANGED <<buildVars, authVars, answer, disturbed>>

\* r calls GenerateToken itself: DebugTransport hands out a round tripper, and
\* nothing for a plain transport.
DebugTransport(r) ==
  /\ phase = "ready"
  /\ pc[r] = "idle"
  /\ calls < program.maxCalls
  /\ calls' = calls + 1
  /\ direct' = direct \cup {r}
  /\ handled' = [handled EXCEPT ![r] = 0]
  /\ pc' = [pc EXCEPT ![r] = "lock"]
  /\ ret' = [ret EXCEPT ![r] = "none"]
  /\ UNCHANGED <<buildVars, authVars, header, answer, denied, disturbed>>

\* Mutant: the header is only set if it is not there yet.
setHeaderOnce(r) ==
  header' = [header EXCEPT ![r] = IF @ = 0 THEN token ELSE @]

\* The Authorization header, which an empty token leaves as it is.
setHeader(r) == header' = [header EXCEPT ![r] = IF token # 0 THEN token ELSE @]

\* addAuthToken reads the token under the mutex.
addAuthToken(r) ==
  /\ pc[r] \in {"addToken", "addNewToken"}
  /\ mutex = NoCaller
  /\ setHeader(r)
  /\ Goto(r, IF pc[r] = "addToken" THEN "try" ELSE "retry")
  /\ UNCHANGED <<buildVars, authVars, answer, direct, handled, denied, calls, disturbed>>

\* A server acts on a request that it accepts, and on no other.
Handle(r) == handled' = [handled EXCEPT ![r] = @ + 1]

\* An error of the transport may hide that a server has acted on the request.
AnswerLost(r) == UNCHANGED handled \/ (Authorized(r) /\ Handle(r))

\* Mutant: a transport error is retried like a 401.
TryAgain(r) ==
  /\ pc[r] = "try"
  /\ \/ Goto(r, "lock") /\ AnswerLost(r)
     \/ Authorized(r) /\ Handle(r) /\ Return(r, "ok")
     \/ ~Authorized(r) /\ UNCHANGED handled /\ Goto(r, "lock")
  /\ UNCHANGED <<buildVars, authVars, header, answer, direct, denied, calls, disturbed>>

\* The first attempt: 401 leads to a login.
Try(r) ==
  /\ pc[r] = "try"
  /\ \/ Return(r, "error") /\ AnswerLost(r)
     \/ Authorized(r) /\ Handle(r) /\ Return(r, "ok")
     \/ ~Authorized(r) /\ UNCHANGED handled /\ Goto(r, "lock")
  /\ UNCHANGED <<buildVars, authVars, header, answer, direct, denied, calls, disturbed>>

\* The second attempt, whose answer is returned as it is.
Retry(r) ==
  /\ pc[r] = "retry"
  /\ \/ Return(r, "error") /\ AnswerLost(r)
     \/ Authorized(r) /\ Handle(r) /\ Return(r, "ok")
     \/ ~Authorized(r) /\ UNCHANGED handled /\ Return(r, "401")
  /\ UNCHANGED <<buildVars, authVars, header, answer, direct, denied, calls, disturbed>>

-----------------------------------------------------------------------------
(* GenerateToken. *)

\* Mutant: GenerateToken does not take the mutex.
NoLock(r) ==
  /\ pc[r] = "lock"
  /\ Goto(r, "login")
  /\ UNCHANGED <<buildVars, authVars, header, answer, direct, handled, denied, calls, disturbed>>

\* GenerateToken takes the mutex and keeps it for the whole login.
Lock(r) ==
  /\ pc[r] = "lock"
  /\ mutex = NoCaller
  /\ mutex' = r
  /\ Goto(r, "login")
  /\ UNCHANGED <<buildVars, token, issued, valid, header, answer, direct, handled, denied, calls, disturbed>>

\* The login endpoint issues a token, or answers without one.
Login(r) ==
  /\ pc[r] = "login"
  /\ \/ /\ issued' = issued + 1
        /\ valid' = valid \cup {issued'}
        /\ answer' = [answer EXCEPT ![r] = issued']
        /\ disturbed' = [disturbed EXCEPT ![r] = FALSE]
     \/ /\ answer' = [answer EXCEPT ![r] = 0]
        /\ disturbed' = [c \in Callers |-> TRUE]
        /\ UNCHANGED <<issued, valid>>
  /\ Goto(r, "store")
  /\ UNCHANGED <<buildVars, token, mutex, header, direct, handled, denied, calls>>

Unlock == mutex' = NoCaller

\* Mutant: GenerateToken keeps the mutex when the login fails.
LoginFailsLocked(r) ==
  /\ pc[r] = "login"
  /\ Return(r, "error")
  /\ UNCHANGED <<buildVars, authVars, header, answer, direct, handled, denied, calls, disturbed>>

\* The login fails: no answer, a status other than 200 or a body that is no JSON.
LoginFails(r) ==
  /\ pc[r] = "login"
  /\ Unlock
  /\ Return(r, "error")
  /\ UNCHANGED <<buildVars, token, issued, valid, header, answer, direct, handled, denied, calls, disturbed>>

StoreToken(r) ==
  /\ pc[r] = "store"
  /\ token' = answer[r]
  /\ Unlock
  /\ IF r \in direct THEN Return(r, "ok") ELSE Goto(r, "addNewToken")
  /\ UNCHANGED <<buildVars, issued, valid, header, answer, direct, handled, denied, calls, disturbed>>

-----------------------------------------------------------------------------

\* The steps of a RoundTrip that has begun.
Proceed(r) ==
  \/ addAuthToken(r) \/ Try(r) \/ Retry(r)
  \/ Lock(r) \/ Login(r) \/ LoginFails(r) \/ StoreToken(r)

Next ==
  \/ Build /\ UNCHANGED <<authVars, callVars>>
  \/ NewRoundTripper
  \/ \E t \in valid : Expire(t)
  \/ \E r \in Callers : RoundTrip(r) \/ DebugTransport(r) \/ Proceed(r)

\* Transports and servers answer, and sync.Mutex starves nobody.
Fairness == \A r \in Callers : SF_vars(Proceed(r))

Spec == Init /\ [][Next]_vars /\ Fairness

-----------------------------------------------------------------------------
(* Properties. *)

\* The mutex is held during the whole login, so an older answer never replaces a
\* newer token, whatever the order in which concurrent RoundTrips log in.
TokenNeverGoesBack == [][token' # 0 => token' >= token]_token

\* A caller gets a 401 only if the server refuses the request as such, or if a token
\* expired, or an empty one was sent, after the login that the first 401 led to: the
\* retry always carries a token at least as new as that login's.
RefreshRecovers ==
  \A r \in Callers : ret[r] = "401" => denied[r] \/ disturbed[r]

\* The retry repeats nothing: servers act at most once on a request, exactly once if
\* RoundTrip returns their answer, and never on one for which it returns a 401.
HandledOnce ==
  \A r \in Callers \ direct :
    /\ handled[r] <= 1
    /\ ret[r] \in {"ok", "401"} => handled[r] = IF ret[r] = "ok" THEN 1 ELSE 0

\* Every RoundTrip and GenerateToken returns, whatever fails on the way: no path of
\* GenerateToken keeps the mutex.
RoundTripReturns == \A r \in Callers : pc[r] # "idle" ~> pc[r] = "idle"
=============================================================================

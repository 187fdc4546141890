-------------------------- MODULE RoundTripperProofs -------------------------
(***************************************************************************)
(* The token, the retry and the options, for any number of callers, of     *)
(* requests and of options.                                                *)
(*                                                                         *)
(* LoginInv: the caller that is logging in holds the mutex, so nobody else *)
(* can be issued a token or store one between its login and its store.     *)
(* FreshInv builds on it: a caller whose login nothing has disturbed sends *)
(* a token that servers accept, its own or a newer one.  OnceInv: what is  *)
(* not answered has not been acted on.  BuildInv: after the first k        *)
(* options the structs hold what the last of them that matters says.       *)
(***************************************************************************)
EXTENDS RoundTripper, TLAPS

\* Nobody calls a round tripper that is not built; a caller that logs in holds the
\* mutex, and the answer it is about to store is the token issued last, or empty.
LoginInv ==
  /\ issued \in Nat
  /\ token \in Nat /\ token <= issued
  /\ pc \in [Callers -> Points]
  /\ answer \in [Callers -> Nat]
  /\ phase # "ready" => \A r \in Callers : pc[r] = "idle"
  /\ \A r \in Callers : pc[r] \in {"login", "store"} => mutex = r
  /\ \A r \in Callers : pc[r] = "store" => answer[r] \in {0, issued}

LEMMA InitLogin == Init => LoginInv
  BY SMTT(30) DEF Init, LoginInv, Points

LEMMA NextLogin == LoginInv /\ [Next]_vars => LoginInv'
<1> SUFFICES ASSUME LoginInv, [Next]_vars PROVE LoginInv'
    OBVIOUS
<1> USE DEF LoginInv, Points
<1>1. CASE Build /\ UNCHANGED <<authVars, callVars>>
  <2>1. ASSUME NEW c, NEW f, NextOption(c, f) PROVE phase = c
    BY <2>1 DEF NextOption
  <2>2. phase = "NewTransport" \/ phase = "NewRoundTripper"
    BY <1>1, <2>1, Zenon
    DEF Build, OptionCaCertificatePath, OptionIAMConfigPath, OptionPath, NewTransport, nilOption,
        OptionTokenExpire, OptionUserAgent, OptionCredentials, OptionReadIAMConfig
  <2> QED
    BY <1>1, <2>2 DEF authVars, callVars
<1>2. CASE NewRoundTripper
  <2>1. \/ UNCHANGED <<token, issued>>
        \/ issued' = issued + 1 /\ token' = issued'
    BY <1>2, Zenon DEF NewRoundTripper
  <2>2. phase = "NewRoundTripper" /\ UNCHANGED <<mutex, pc, answer>>
    BY <1>2, Zenon DEF NewRoundTripper, callVars
  <2>3. \A r \in Callers : pc[r] = "idle"
    BY <2>2
  <2> QED
    BY <2>1, <2>2, <2>3
<1>3. ASSUME NEW t \in valid, Expire(t) PROVE LoginInv'
    BY <1>3 DEF Expire, buildVars
<1>4. ASSUME NEW r \in Callers, RoundTrip(r) PROVE LoginInv'
    BY <1>4 DEF RoundTrip, authVars, buildVars
<1>5. ASSUME NEW r \in Callers, DebugTransport(r) PROVE LoginInv'
    BY <1>5 DEF DebugTransport, authVars, buildVars
<1>6. ASSUME NEW r \in Callers, addAuthToken(r) PROVE LoginInv'
    BY <1>6 DEF addAuthToken, Goto, authVars, buildVars
<1>7. ASSUME NEW r \in Callers, Try(r) PROVE LoginInv'
    BY <1>7 DEF Try, Goto, Return, authVars, buildVars
<1>8. ASSUME NEW r \in Callers, Retry(r) PROVE LoginInv'
    BY <1>8 DEF Retry, Return, authVars, buildVars
<1>9. ASSUME NEW r \in Callers, Lock(r) PROVE LoginInv'
    BY <1>9, RoundTripperAssumption DEF Lock, Goto, buildVars
<1>10. ASSUME NEW r \in Callers, Login(r) PROVE LoginInv'
    BY <1>10 DEF Login, Goto, buildVars
<1>11. ASSUME NEW r \in Callers, LoginFails(r) PROVE LoginInv'
    BY <1>11 DEF LoginFails, Return, Unlock, buildVars
<1>12. ASSUME NEW r \in Callers, StoreToken(r) PROVE LoginInv'
    BY <1>12 DEF StoreToken, Goto, Return, Unlock, buildVars
<1>13. CASE UNCHANGED vars
    BY <1>13, SMTT(30) DEF vars, buildVars, authVars, callVars
<1> QED
    BY <1>1, <1>2, <1>3, <1>4, <1>5, <1>6, <1>7, <1>8, <1>9, <1>10, <1>11, <1>12, <1>13
    DEF Next, Proceed

\* Only StoreToken changes the token of a round tripper that is in use, and what it
\* stores is the token issued last, or empty.
LEMMA StoreIsNewest == LoginInv /\ [Next]_vars => (token' # 0 => token' >= token)
<1> SUFFICES ASSUME LoginInv, [Next]_vars, token' # 0 PROVE token' >= token
    OBVIOUS
<1>1. CASE NewRoundTripper
  <2>1. UNCHANGED token \/ (issued' = issued + 1 /\ token' = issued')
    BY <1>1, Zenon DEF NewRoundTripper
  <2> QED
    BY <2>1 DEF LoginInv
<1>2. ASSUME NEW r \in Callers, StoreToken(r) PROVE token' >= token
    BY <1>2 DEF StoreToken, LoginInv
<1>3. CASE UNCHANGED token
    BY <1>3 DEF LoginInv
<1> QED
    BY <1>1, <1>2, <1>3
    DEF Next, Proceed, vars, authVars, Expire, RoundTrip, DebugTransport, addAuthToken, Try,
        Retry, Lock, Login, LoginFails

\* The round tripper's token only gets newer, however many callers log in at the same
\* time: GenerateToken keeps the mutex from before its request until it has stored the
\* answer.
THEOREM TokensGetNewer == Spec => TokenNeverGoesBack
<1>1. LoginInv /\ [Next]_vars => [token' # 0 => token' >= token]_token
    BY StoreIsNewest
<1> QED
    BY <1>1, InitLogin, NextLogin, PTL DEF Spec, TokenNeverGoesBack
-----------------------------------------------------------------------------
(* The mutex. *)

\* The mutex is held by the caller that is logging in, and by nobody else.
MutexInUse ==
  /\ mutex \in Callers \cup {NoCaller}
  /\ \A r \in Callers : mutex = r <=> pc[r] \in {"login", "store"}

LEMMA NextMutex == LoginInv /\ MutexInUse /\ [Next]_vars => MutexInUse'
<1> SUFFICES ASSUME LoginInv, MutexInUse, [Next]_vars PROVE MutexInUse'
    OBVIOUS
<1> USE DEF MutexInUse
<1>0. pc \in [Callers -> Points]
    BY Zenon DEF LoginInv
<1>1. ASSUME NEW r \in Callers, NEW point \in Points, pc' = [pc EXCEPT ![r] = point],
             \/ mutex' = mutex /\ (pc[r] \in {"login", "store"} <=> point \in {"login", "store"})
             \/ mutex = NoCaller /\ mutex' = r /\ point = "login"
             \/ mutex = r /\ mutex' = NoCaller /\ point \notin {"login", "store"}
      PROVE  MutexInUse'
    BY <1>0, <1>1, RoundTripperAssumption
<1>2. CASE UNCHANGED <<mutex, pc>>
    BY <1>2, Zenon
<1>3. ASSUME NEW r \in Callers, RoundTrip(r) \/ DebugTransport(r) PROVE MutexInUse'
    BY <1>1, <1>3, Zenon DEF RoundTrip, DebugTransport, authVars, Points
<1>4. ASSUME NEW r \in Callers, addAuthToken(r) PROVE MutexInUse'
    BY <1>1, <1>4, Zenon DEF addAuthToken, Goto, authVars, Points
<1>5. ASSUME NEW r \in Callers, Try(r) \/ Retry(r) PROVE MutexInUse'
    BY <1>1, <1>5, Zenon DEF Try, Retry, Goto, Return, authVars, Points
<1>6. ASSUME NEW r \in Callers, Lock(r) PROVE MutexInUse'
    BY <1>1, <1>6, Zenon DEF Lock, Goto, Points
<1>7. ASSUME NEW r \in Callers, Login(r) PROVE MutexInUse'
    BY <1>1, <1>7, Zenon DEF Login, Goto, Points
<1>8. ASSUME NEW r \in Callers, LoginFails(r) PROVE MutexInUse'
    BY <1>1, <1>8, Zenon DEF LoginFails, Return, Unlock, Points
<1>9. ASSUME NEW r \in Callers, StoreToken(r) PROVE MutexInUse'
    BY <1>1, <1>9, Zenon DEF StoreToken, Goto, Return, Unlock, Points
<1>10. CASE \/ Build /\ UNCHANGED <<authVars, callVars>>
            \/ NewRoundTripper \/ (\E t \in valid : Expire(t)) \/ UNCHANGED vars
    BY <1>2, <1>10, Zenon DEF NewRoundTripper, Expire, vars, authVars, callVars
<1> QED
    BY <1>3, <1>4, <1>5, <1>6, <1>7, <1>8, <1>9, <1>10, Zenon DEF Next, Proceed

\* No path through GenerateToken, the failing ones included, keeps the mutex: whoever
\* waits for it, in RoundTrip or in GenerateToken, waits for a login that is under way,
\* never for itself and never for a call that has returned (roundtripper.go:97-166).
THEOREM MutexIsGivenBack == Spec => []MutexInUse
<1>1. Init => MutexInUse
    BY RoundTripperAssumption DEF Init, MutexInUse
<1> QED
    BY <1>1, InitLogin, NextLogin, NextMutex, PTL DEF Spec

-----------------------------------------------------------------------------
(* The retry. *)

\* A token that the servers accept.
Accepted(t) == t # 0 /\ t \in valid

\* After a login that nothing has disturbed, what r sends next is accepted: the token
\* in its answer, then whichever token is stored when r sets its header, and anyone
\* who could still replace that one brings an accepted one.
FreshOf(r) ==
  /\ pc[r] = "store" /\ ~disturbed[r] => Accepted(answer[r])
  /\ pc[r] = "addNewToken" /\ ~disturbed[r] =>
       Accepted(token) /\ \A q \in Callers : pc[q] = "store" => Accepted(answer[q])
  /\ pc[r] = "retry" /\ ~disturbed[r] => header[r] \in valid
  /\ ret[r] = "401" => pc[r] = "idle" /\ (denied[r] \/ disturbed[r])

\* A request that is not answered has not been acted on.
OnceOf(r) ==
  /\ handled[r] \in {0, 1}
  /\ pc[r] # "idle" => handled[r] = 0 /\ ret[r] = "none"
  /\ r \notin direct =>
       /\ ret[r] = "ok" => handled[r] = 1
       /\ ret[r] = "401" => handled[r] = 0

CallerArrays ==
  /\ DOMAIN pc = Callers /\ DOMAIN header = Callers /\ DOMAIN answer = Callers
  /\ DOMAIN handled = Callers /\ DOMAIN denied = Callers /\ DOMAIN ret = Callers
  /\ DOMAIN disturbed = Callers

FreshInv == \A r \in Callers : FreshOf(r)
OnceInv  == \A r \in Callers : OnceOf(r)
\* Steps that keep the caller arrays functions on the callers.
LEMMA NextArrays == CallerArrays /\ [Next]_vars => CallerArrays'
<1> SUFFICES ASSUME CallerArrays, [Next]_vars PROVE CallerArrays'
    OBVIOUS
<1> USE DEF CallerArrays
<1>1. CASE Build /\ UNCHANGED <<authVars, callVars>>
    BY <1>1, Zenon DEF callVars
<1>2. CASE NewRoundTripper
    BY <1>2, Zenon DEF NewRoundTripper, callVars
<1>3. ASSUME NEW t \in valid, Expire(t) PROVE CallerArrays'
    BY <1>3, Zenon DEF Expire
<1>4. ASSUME NEW r \in Callers, RoundTrip(r) \/ DebugTransport(r) PROVE CallerArrays'
    BY <1>4 DEF RoundTrip, DebugTransport
<1>5. ASSUME NEW r \in Callers, addAuthToken(r) \/ Try(r) \/ Retry(r) PROVE CallerArrays'
    BY <1>5 DEF addAuthToken, setHeader, Try, Retry, AnswerLost, Handle, Goto, Return
<1>6. ASSUME NEW r \in Callers, Lock(r) \/ LoginFails(r) \/ StoreToken(r) PROVE CallerArrays'
    BY <1>6 DEF Lock, LoginFails, StoreToken, Goto, Return
<1>7. ASSUME NEW r \in Callers, Login(r) PROVE CallerArrays'
    BY <1>7 DEF Login, Goto
<1>8. CASE UNCHANGED vars
    BY <1>8, Zenon DEF vars, callVars
<1> QED
    BY <1>1, <1>2, <1>3, <1>4, <1>5, <1>6, <1>7, <1>8, Zenon DEF Next, Proceed

\* A caller that takes no step keeps what it knows, as long as tokens stay accepted
\* and whoever brings a new one brings an accepted one.
LEMMA FreshSame ==
  ASSUME NEW q \in Callers, FreshOf(q), pc'[q] = pc[q], ret'[q] = ret[q],
         answer'[q] = answer[q], header'[q] = header[q], denied'[q] = denied[q],
         disturbed[q] => disturbed'[q],
         ~disturbed'[q] => valid \subseteq valid',
         pc[q] = "addNewToken" /\ ~disturbed'[q] =>
           /\ token' = token \/ Accepted(token)'
           /\ \A p \in Callers : pc'[p] = "store" =>
                (pc[p] = "store" /\ answer'[p] = answer[p]) \/ Accepted(answer[p])'
  PROVE  FreshOf(q)'
<1>1. ASSUME pc'[q] = "store", ~disturbed'[q] PROVE Accepted(answer[q])'
    BY <1>1, Zenon DEF FreshOf, Accepted
<1>2. ASSUME pc'[q] = "addNewToken", ~disturbed'[q]
      PROVE  Accepted(token)' /\ \A p \in Callers : pc'[p] = "store" => Accepted(answer[p])'
    BY <1>2, Zenon DEF FreshOf, Accepted
<1>3. ASSUME pc'[q] = "retry", ~disturbed'[q] PROVE header'[q] \in valid'
    BY <1>3, Zenon DEF FreshOf
<1>4. ASSUME ret'[q] = "401" PROVE pc'[q] = "idle" /\ (denied'[q] \/ disturbed'[q])
    BY <1>4, Zenon DEF FreshOf
<1> QED
    BY <1>1, <1>2, <1>3, <1>4, Zenon DEF FreshOf

\* The inductive step for the retry.
LEMMA NextFresh ==
  LoginInv /\ CallerArrays /\ FreshInv /\ OnceInv /\ [Next]_vars => FreshInv'
<1> SUFFICES ASSUME LoginInv, CallerArrays, FreshInv, OnceInv, [Next]_vars,
                    NEW q \in Callers
             PROVE  FreshOf(q)'
    BY Zenon DEF FreshInv
<1>0. FreshOf(q) /\ OnceOf(q)
    BY Zenon DEF FreshInv, OnceInv
<1>1. CASE Build /\ UNCHANGED <<authVars, callVars>>
    BY <1>0, <1>1, FreshSame, Zenon DEF authVars, callVars
<1>2. CASE NewRoundTripper
  <2>1. phase = "NewRoundTripper" /\ UNCHANGED callVars /\ valid \subseteq valid'
    BY <1>2, Zenon DEF NewRoundTripper
  <2>2. pc[q] = "idle"
    BY <2>1 DEF LoginInv
  <2> QED
    BY <1>0, <2>1, <2>2, FreshSame, Zenon DEF callVars
<1>3. ASSUME NEW t \in valid, Expire(t) PROVE FreshOf(q)'
    BY <1>0, <1>3, FreshSame, Zenon DEF Expire
<1>4. ASSUME NEW r \in Callers, RoundTrip(r) \/ DebugTransport(r) PROVE FreshOf(q)'
  <2>1. /\ UNCHANGED <<token, valid, answer, disturbed>>
        /\ \E point \in {"addToken", "lock"} : pc' = [pc EXCEPT ![r] = point]
    BY <1>4, Zenon DEF RoundTrip, DebugTransport, authVars
  <2>2. pc'[r] \notin {"store", "addNewToken", "retry"} /\ \A p \in Callers \ {r} : pc'[p] = pc[p]
    BY <2>1, Zenon DEF CallerArrays
  <2>3. ret'[r] = "none"
    BY <1>4, Zenon DEF RoundTrip, DebugTransport, CallerArrays
  <2>4. CASE q = r
    BY <2>2, <2>3, <2>4, Zenon DEF FreshOf
  <2>5. CASE q # r
    <3>1. ret'[q] = ret[q] /\ header'[q] = header[q] /\ denied'[q] = denied[q]
      BY <1>4, <2>5, ZenonT(30) DEF RoundTrip, DebugTransport, CallerArrays
    <3> QED
      BY <1>0, <2>1, <2>2, <2>5, <3>1, FreshSame, Zenon
  <2> QED
    BY <2>4, <2>5
<1>5. ASSUME NEW r \in Callers, NEW point \in Points, pc' = [pc EXCEPT ![r] = point],
             UNCHANGED <<token, valid, answer, disturbed, denied>>, point # "store",
             \A p \in Callers \ {r} : ret'[p] = ret[p] /\ header'[p] = header[p],
             q = r => FreshOf(q)'
      PROVE  FreshOf(q)'
  <2>1. pc'[r] = point /\ \A p \in Callers \ {r} : pc'[p] = pc[p]
    BY <1>5, Zenon DEF CallerArrays
  <2>2. \A p \in Callers : pc'[p] = "store" => pc[p] = "store"
    BY <1>5, <2>1, Zenon
  <2>3. CASE q # r
    BY <1>0, <1>5, <2>1, <2>2, <2>3, FreshSame, Zenon
  <2> QED
    BY <1>5, <2>3
<1>6. ASSUME NEW r \in Callers, addAuthToken(r) PROVE FreshOf(q)'
  <2> DEFINE point == IF pc[r] = "addToken" THEN "try" ELSE "retry"
  <2>1. /\ pc' = [pc EXCEPT ![r] = point] /\ ret' = ret
        /\ UNCHANGED <<token, valid, answer, disturbed, denied>>
        /\ \A p \in Callers \ {r} : header'[p] = header[p]
        /\ header'[r] = IF token # 0 THEN token ELSE header[r]
    BY <1>6, Zenon DEF addAuthToken, Goto, setHeader, authVars, CallerArrays
  <2>2. point \in Points /\ point # "store"
    BY Zenon DEF Points
  <2>3. ASSUME q = r PROVE FreshOf(q)'
    <3>1. pc'[r] = point /\ pc[r] \in {"addToken", "addNewToken"}
      BY <1>6, <2>1, Zenon DEF CallerArrays, addAuthToken
    <3>2. ret'[r] = "none"
      BY <1>0, <2>1, <2>3, <3>1, Zenon DEF OnceOf
    <3>3. ASSUME pc'[r] = "retry", ~disturbed'[r] PROVE header'[r] \in valid'
      <4>1. pc[r] = "addNewToken"
        BY <3>1, <3>3, Zenon
      <4>2. token # 0 /\ token \in valid
        BY <1>0, <2>1, <2>3, <3>3, <4>1, Zenon DEF FreshOf, Accepted
      <4> QED
        BY <2>1, <4>2, Zenon
    <3> QED
      BY <2>3, <3>1, <3>2, <3>3, Zenon DEF FreshOf
  <2> QED
    BY <1>5, <2>1, <2>2, <2>3, Zenon
<1>7. ASSUME NEW r \in Callers, Try(r) \/ Retry(r) PROVE FreshOf(q)'
  <2>1. /\ UNCHANGED <<token, valid, answer, disturbed, denied, header>>
        /\ pc[r] \in {"try", "retry"}
    BY <1>7, Zenon DEF Try, Retry, authVars
  <2>2. \/ pc' = [pc EXCEPT ![r] = "lock"] /\ ret' = ret
        \/ pc' = [pc EXCEPT ![r] = "idle"] /\ \E v : ret' = [ret EXCEPT ![r] = v]
    BY <1>7, Zenon DEF Try, Retry, Goto, Return
  <2>3. \A p \in Callers \ {r} : ret'[p] = ret[p]
    BY <2>2, Zenon DEF CallerArrays
  <2>4. ASSUME q = r PROVE FreshOf(q)'
    <3>1. pc'[r] \in {"lock", "idle"} /\ (pc'[r] = "lock" => ret'[r] = "none")
      BY <1>0, <2>1, <2>2, <2>4, Zenon DEF CallerArrays, OnceOf
    <3>2. ASSUME ret'[r] = "401" PROVE denied'[r] \/ disturbed'[r]
      <4>1. pc[r] = "retry" /\ ~Authorized(r)
        <5>1. ret[r] = "none"
          BY <1>0, <2>1, <2>4, Zenon DEF OnceOf
        <5> QED
          BY <1>7, <3>2, <5>1, Zenon DEF Try, Retry, Goto, Return, CallerArrays
      <4> QED
        BY <1>0, <2>1, <2>4, <4>1, Zenon DEF Authorized, FreshOf
    <3> QED
      BY <2>4, <3>1, <3>2, Zenon DEF FreshOf
  <2>5. "lock" \in Points /\ "idle" \in Points
    BY Zenon DEF Points
  <2> QED
    BY <1>5, <2>1, <2>2, <2>3, <2>4, <2>5, Zenon
<1>8. ASSUME NEW r \in Callers, Lock(r) \/ LoginFails(r) PROVE FreshOf(q)'
  <2>1. UNCHANGED <<token, valid, answer, disturbed, denied, header>> /\ pc[r] # "idle"
    BY <1>8, Zenon DEF Lock, LoginFails
  <2>2. \/ pc' = [pc EXCEPT ![r] = "login"] /\ ret' = ret
        \/ pc' = [pc EXCEPT ![r] = "idle"] /\ ret' = [ret EXCEPT ![r] = "error"]
    BY <1>8, Zenon DEF Lock, LoginFails, Goto, Return
  <2>3. \A p \in Callers \ {r} : ret'[p] = ret[p]
    BY <2>2, Zenon DEF CallerArrays
  <2>4. ASSUME q = r PROVE FreshOf(q)'
    <3>1. pc'[r] \in {"login", "idle"} /\ ret'[r] # "401"
      BY <1>0, <2>1, <2>2, <2>4, ZenonT(30) DEF CallerArrays, OnceOf
    <3> QED
      BY <2>4, <3>1, Zenon DEF FreshOf
  <2>5. "login" \in Points /\ "idle" \in Points
    BY Zenon DEF Points
  <2> QED
    BY <1>5, <2>1, <2>2, <2>3, <2>4, <2>5, Zenon
<1>9. ASSUME NEW r \in Callers, Login(r) PROVE FreshOf(q)'
  <2>1. /\ UNCHANGED <<token, denied, header, ret>> /\ pc' = [pc EXCEPT ![r] = "store"]
        /\ pc[r] = "login" /\ valid \subseteq valid'
    BY <1>9, Zenon DEF Login, Goto
  <2>2. pc'[r] = "store" /\ \A p \in Callers \ {r} : pc'[p] = pc[p] /\ answer'[p] = answer[p]
    BY <1>9, <2>1, Zenon DEF Login, CallerArrays
  <2>3. \/ /\ Accepted(answer[r])' /\ disturbed'[r] = FALSE
           /\ \A p \in Callers \ {r} : disturbed'[p] = disturbed[p]
        \/ \A p \in Callers : disturbed'[p] = TRUE
    <3>1. CASE /\ issued' = issued + 1 /\ valid' = valid \cup {issued'}
               /\ answer' = [answer EXCEPT ![r] = issued']
               /\ disturbed' = [disturbed EXCEPT ![r] = FALSE]
      <4>1. issued' # 0
        BY <3>1 DEF LoginInv
      <4> QED
        BY <3>1, <4>1, Zenon DEF Accepted, CallerArrays
    <3> QED
      BY <1>9, <3>1, Zenon DEF Login
  <2>4. CASE q = r
    <3>1. ret'[q] = "none"
      BY <1>0, <2>1, <2>4, Zenon DEF OnceOf
    <3> QED
      BY <2>2, <2>3, <2>4, <3>1, Zenon DEF FreshOf
  <2>5. CASE q # r
    <3>1. disturbed[q] => disturbed'[q]
      BY <2>3, <2>5, Zenon
    <3>2. ~disturbed'[q] => Accepted(answer[r])'
      BY <2>3, Zenon
    <3> QED
      BY <1>0, <2>1, <2>2, <2>5, <3>1, <3>2, FreshSame, Zenon
  <2> QED
    BY <2>4, <2>5
<1>10. ASSUME NEW r \in Callers, StoreToken(r) PROVE FreshOf(q)'
  <2>1. /\ UNCHANGED <<valid, answer, disturbed, denied, header>> /\ token' = answer[r]
        /\ pc[r] = "store"
    BY <1>10, Zenon DEF StoreToken
  <2>2. \/ pc' = [pc EXCEPT ![r] = "addNewToken"] /\ ret' = ret
        \/ pc' = [pc EXCEPT ![r] = "idle"] /\ ret' = [ret EXCEPT ![r] = "ok"]
    BY <1>10, Zenon DEF StoreToken, Goto, Return
  <2>3. \A p \in Callers \ {r} : pc'[p] = pc[p] /\ ret'[p] = ret[p]
    BY <2>2, Zenon DEF CallerArrays
  <2>4. \A p \in Callers : pc'[p] # "store"
    <3>1. pc'[r] # "store"
      BY <2>2, Zenon DEF CallerArrays
    <3>2. \A p \in Callers \ {r} : pc[p] # "store"
      BY <2>1 DEF LoginInv
    <3> QED
      BY <2>3, <3>1, <3>2, Zenon
  <2>5. CASE q = r
    <3>1. pc'[r] \in {"addNewToken", "idle"} /\ ret'[r] # "401"
      BY <1>0, <2>1, <2>2, <2>5, Zenon DEF CallerArrays, OnceOf
    <3>2. ~disturbed'[r] => Accepted(token)'
      BY <1>0, <2>1, <2>5, Zenon DEF FreshOf, Accepted
    <3> QED
      BY <2>4, <2>5, <3>1, <3>2, Zenon DEF FreshOf
  <2>6. CASE q # r
    <3>1. pc[q] = "addNewToken" /\ ~disturbed'[q] => Accepted(token)'
      BY <1>0, <2>1, Zenon DEF FreshOf, Accepted
    <3> QED
      BY <1>0, <2>1, <2>3, <2>4, <2>6, <3>1, FreshSame, Zenon
  <2> QED
    BY <2>5, <2>6
<1>11. CASE UNCHANGED vars
    BY <1>0, <1>11, FreshSame, Zenon DEF vars, authVars, callVars
<1> QED
    BY <1>1, <1>2, <1>3, <1>4, <1>6, <1>7, <1>8, <1>9, <1>10, <1>11, Zenon DEF Next, Proceed

\* The inductive step for what servers act on.
LEMMA NextOnce == CallerArrays /\ OnceInv /\ [Next]_vars => OnceInv'
<1> SUFFICES ASSUME CallerArrays, OnceInv, [Next]_vars, NEW q \in Callers
             PROVE  OnceOf(q)'
    BY Zenon DEF OnceInv
<1>0. OnceOf(q)
    BY Zenon DEF OnceInv
<1>1. ASSUME pc'[q] = pc[q], ret'[q] = ret[q], handled'[q] = handled[q],
             q \in direct <=> q \in direct'
      PROVE  OnceOf(q)'
    BY <1>0, <1>1, Zenon DEF OnceOf
<1>2. CASE UNCHANGED <<pc, ret, handled, direct>>
    BY <1>1, <1>2, Zenon
<1>3. ASSUME NEW r \in Callers, RoundTrip(r) \/ DebugTransport(r) PROVE OnceOf(q)'
  <2>1. ret'[r] = "none" /\ handled'[r] = 0
    BY <1>3, Zenon DEF RoundTrip, DebugTransport, CallerArrays
  <2>2. CASE q = r
    BY <2>1, <2>2, Zenon DEF OnceOf
  <2>3. CASE q # r
    <3>1. pc'[q] = pc[q] /\ ret'[q] = ret[q] /\ handled'[q] = handled[q]
      BY <1>3, <2>3, Zenon DEF RoundTrip, DebugTransport, CallerArrays
    <3>2. q \in direct <=> q \in direct'
      BY <1>3, <2>3, Zenon DEF RoundTrip, DebugTransport
    <3> QED
      BY <1>1, <3>1, <3>2
  <2> QED
    BY <2>2, <2>3
<1>4. ASSUME NEW r \in Callers, NEW point, pc[r] # "idle", pc' = [pc EXCEPT ![r] = point],
             UNCHANGED <<ret, handled, direct>>
      PROVE  OnceOf(q)'
    BY <1>0, <1>4, Zenon DEF OnceOf, CallerArrays
<1>5. ASSUME NEW r \in Callers, NEW result, pc[r] # "idle", Return(r, result),
             direct' = direct,
             \/ UNCHANGED handled /\ (result = "ok" => r \in direct)
             \/ Handle(r) /\ result # "401"
      PROVE  OnceOf(q)'
  <2>1. pc'[r] = "idle" /\ ret'[r] = result
        /\ \A p \in Callers \ {r} : pc'[p] = pc[p] /\ ret'[p] = ret[p] /\ handled'[p] = handled[p]
    BY <1>5, Zenon DEF Return, Handle, CallerArrays
  <2>2. CASE q # r
    BY <1>1, <1>5, <2>1, <2>2, Zenon
  <2>3. CASE q = r
    <3>1. handled[r] = 0
      BY <1>0, <1>5, <2>3, Zenon DEF OnceOf
    <3>2. handled'[r] = 0 \/ handled'[r] = 1
      BY <1>5, <3>1 DEF Handle, CallerArrays
    <3>3. /\ result = "401" => handled'[r] = 0
          /\ result = "ok" /\ r \notin direct => handled'[r] = 1
      BY <1>5, <3>1 DEF Handle, CallerArrays
    <3> QED
      BY <1>5, <2>1, <2>3, <3>2, <3>3, Zenon DEF OnceOf
  <2> QED
    BY <2>2, <2>3
<1>6. ASSUME NEW r \in Callers, Try(r) \/ Retry(r) PROVE OnceOf(q)'
  <2>1. pc[r] # "idle" /\ direct' = direct
    BY <1>6, Zenon DEF Try, Retry
  <2>2. \/ Return(r, "error") /\ (UNCHANGED handled \/ Handle(r))
        \/ Return(r, "ok") /\ Handle(r)
        \/ Return(r, "401") /\ UNCHANGED handled
        \/ Goto(r, "lock") /\ UNCHANGED handled
    BY <1>6, Zenon DEF Try, Retry, AnswerLost
  <2> QED
    BY <1>4, <1>5, <2>1, <2>2, Zenon DEF Goto
<1>7. ASSUME NEW r \in Callers, addAuthToken(r) \/ Lock(r) \/ Login(r) PROVE OnceOf(q)'
  <2>1. pc[r] # "idle" /\ UNCHANGED <<ret, handled, direct>>
    BY <1>7, Zenon DEF addAuthToken, Lock, Login, Goto
  <2>2. \E point : pc' = [pc EXCEPT ![r] = point]
    BY <1>7, Zenon DEF addAuthToken, Lock, Login, Goto
  <2> QED
    BY <1>4, <2>1, <2>2, Zenon
<1>8. ASSUME NEW r \in Callers, LoginFails(r) \/ StoreToken(r) PROVE OnceOf(q)'
  <2>1. pc[r] # "idle" /\ UNCHANGED <<handled, direct>>
    BY <1>8, Zenon DEF LoginFails, StoreToken
  <2>2. Return(r, "error") \/ (Return(r, "ok") /\ r \in direct) \/ Goto(r, "addNewToken")
    BY <1>8, Zenon DEF LoginFails, StoreToken
  <2> QED
    BY <1>4, <1>5, <2>1, <2>2, Zenon DEF Goto
<1> QED
    BY <1>2, <1>3, <1>6, <1>7, <1>8, Zenon
    DEF Next, Proceed, vars, callVars, NewRoundTripper, Expire

\* The inductive invariant of the callers.
LEMMA CallersInvariant == Spec => [](FreshInv /\ OnceInv)
<1>1. Init => CallerArrays /\ FreshInv /\ OnceInv
    BY Zenon DEF Init, CallerArrays, FreshInv, FreshOf, OnceInv, OnceOf
<1> QED
    BY <1>1, InitLogin, NextLogin, NextArrays, NextFresh, NextOnce, PTL DEF Spec

\* A 401 reaches the caller of RoundTrip only if the server refuses the request as such
\* or the tokens were disturbed after the login: the second addAuthToken never picks up
\* a token older than that login's, whoever else logs in meanwhile.
THEOREM RetriesRecover == Spec => []RefreshRecovers
<1>1. FreshInv => RefreshRecovers
    BY Zenon DEF FreshInv, FreshOf, RefreshRecovers
<1> QED
    BY <1>1, CallersInvariant, PTL

\* Servers act at most once on what RoundTrip sends: it is sent again only after a 401.
THEOREM RequestsHandledOnce == Spec => []HandledOnce
<1>1. OnceInv => HandledOnce
  <2> SUFFICES ASSUME OnceInv, NEW r \in Callers \ direct
               PROVE  /\ handled[r] <= 1
                      /\ ret[r] \in {"ok", "401"} => handled[r] = IF ret[r] = "ok" THEN 1 ELSE 0
    BY Zenon DEF HandledOnce
  <2> QED
    BY DEF OnceInv, OnceOf
<1> QED
    BY <1>1, CallersInvariant, PTL
-----------------------------------------------------------------------------
(* The options. *)

\* None of the first k options, or i as the last of them, sets one of the fields.
NoneOf(opts, fields, k) == \A j \in 1 .. k : DOMAIN opts[j] \cap fields = {}

Latest(opts, fields, k, i) ==
  /\ i \in 1 .. k
  /\ DOMAIN opts[i] \cap fields # {}
  /\ \A j \in i + 1 .. k : DOMAIN opts[j] \cap fields = {}

\* After k options a path of NewTransport's struct is the last one given.
PathOf(option, field, k) ==
  \/ dcosTransport[field] = "" /\ NoneOf(program.opts, {option}, k)
  \/ /\ dcosTransport[field] # ""
     /\ \E i \in 1 .. k : /\ Latest(program.opts, {option}, k, i)
                          /\ dcosTransport[field] = program.opts[i][option]

CredentialFields == {"uid", "readIAMConfig", "iamConfigPath"}

HasCredentials(rt, c) ==
  \A field \in {"uid", "secret", "loginEndpoint"} : rt[field] = c[field]

\* Option i is the last of the first k with credentials, and these are in the struct.
Identified(k, i) ==
  /\ Latest(program.opts, CredentialFields, k, i)
  /\ HasCredentials(roundtripper, CredentialsOf(program.opts[i]))

\* k options are behind, the others still to do.
Pending(k) == k \in 0 .. Len(program.opts) /\ todo = SubSeq(program.opts, k + 1, Len(program.opts))

\* The record fields are there, and each constructor is entered as the program says.
ShapeInv ==
  /\ program \in Programs
  /\ DOMAIN dcosTransport = {"CaCertificatePath", "IAMConfigPath"}
  /\ DOMAIN roundtripper = {"uid", "loginEndpoint", "secret", "userAgent", "expire"}
  /\ phase = "NewTransport" => program.via = "NewTransport" /\ roundtripper.secret = ""
  /\ phase = "plain" => program.via = "NewTransport"

\* NewTransport has applied some of its options.
PathsInv ==
  phase = "NewTransport" =>
    \E k \in 0 .. Len(program.opts) :
      /\ Pending(k)
      /\ PathOf("caCertificatePath", "CaCertificatePath", k)
      /\ PathOf("iamConfigPath", "IAMConfigPath", k)

\* NewTransport has configured TLS.
TLSInv ==
  phase \in {"NewRoundTripper", "plain", "ready"} /\ program.via = "NewTransport" =>
    tls = LastGiven("caCertificatePath", "skipVerify")

\* NewRoundTripper has applied some of its options: its own, or the one of NewTransport.
IdentityInv ==
  /\ phase = "NewRoundTripper" /\ program.via = "NewRoundTripper" =>
       \E k \in 0 .. Len(program.opts) :
         /\ Pending(k)
         /\ \/ roundtripper.secret = "" /\ NoneOf(program.opts, CredentialFields, k)
            \/ \E i \in 1 .. k : Identified(k, i)
  /\ phase = "NewRoundTripper" /\ program.via = "NewTransport" =>
       \E i \in 1 .. Len(program.opts) :
         \/ /\ Latest(program.opts, CredentialFields, Len(program.opts), i)
            /\ roundtripper.secret = ""
            /\ todo = <<[readIAMConfig |-> program.opts[i].iamConfigPath]>>
         \/ todo = <<>> /\ Identified(Len(program.opts), i)
  /\ phase = "ready" => \E i \in 1 .. Len(program.opts) : Identified(Len(program.opts), i)
BuildInv == ShapeInv /\ PathsInv /\ TLSInv /\ IdentityInv

\* What an option record of a constructor has in it.
LEMMA OptionDomains ==
  ASSUME NEW o
  PROVE  /\ o \in Options("NewTransport") =>
              DOMAIN o \in {{"nil"}, {"caCertificatePath"}, {"iamConfigPath"}}
         /\ o \in Options("NewRoundTripper") =>
              \/ DOMAIN o \in {{"nil"}, {"tokenExpire"}, {"userAgent"}, {"readIAMConfig"}}
              \/ DOMAIN o = {"uid", "secret", "loginEndpoint"} /\ o \in Credentials
<1>1. ASSUME o \in Options("NewTransport")
      PROVE  DOMAIN o \in {{"nil"}, {"caCertificatePath"}, {"iamConfigPath"}}
    BY <1>1 DEF Options
<1>2. ASSUME o \in Options("NewRoundTripper")
      PROVE  \/ DOMAIN o \in {{"nil"}, {"tokenExpire"}, {"userAgent"}, {"readIAMConfig"}}
             \/ DOMAIN o = {"uid", "secret", "loginEndpoint"} /\ o \in Credentials
  <2>1. \/ o \in [nil : BOOLEAN] \/ o \in [tokenExpire : Int] \/ o \in [userAgent : STRING]
        \/ o \in [readIAMConfig : STRING] \/ o \in Credentials
    BY <1>2 DEF Options
  <2>2. o \in [nil : BOOLEAN] => DOMAIN o = {"nil"}
    OBVIOUS
  <2>3. o \in [tokenExpire : Int] => DOMAIN o = {"tokenExpire"}
    OBVIOUS
  <2>4. o \in [userAgent : STRING] => DOMAIN o = {"userAgent"}
    OBVIOUS
  <2>5. o \in [readIAMConfig : STRING] => DOMAIN o = {"readIAMConfig"}
    OBVIOUS
  <2>6. o \in Credentials => DOMAIN o = {"uid", "secret", "loginEndpoint"}
    BY DEF Credentials
  <2> QED
    BY <2>1, <2>2, <2>3, <2>4, <2>5, <2>6, Zenon
<1> QED
    BY <1>1, <1>2, Zenon

\* One more option, which sets one of the fields or none of them.
LEMMA LatestNext ==
  ASSUME NEW opts, NEW fields, NEW k \in Nat
  PROVE  /\ DOMAIN opts[k + 1] \cap fields # {} => Latest(opts, fields, k + 1, k + 1)
         /\ DOMAIN opts[k + 1] \cap fields = {} =>
              /\ NoneOf(opts, fields, k) => NoneOf(opts, fields, k + 1)
              /\ \A i \in 1 .. k : Latest(opts, fields, k, i) => Latest(opts, fields, k + 1, i)
<1> DEFINE Sets(j) == DOMAIN opts[j] \cap fields # {}
<1>1. /\ NoneOf(opts, fields, k) <=> \A j \in 1 .. k : ~Sets(j)
      /\ NoneOf(opts, fields, k + 1) <=> \A j \in 1 .. k + 1 : ~Sets(j)
      /\ \A i : /\ Latest(opts, fields, k, i) <=>
                     i \in 1 .. k /\ Sets(i) /\ \A j \in i + 1 .. k : ~Sets(j)
                /\ Latest(opts, fields, k + 1, i) <=>
                     i \in 1 .. k + 1 /\ Sets(i) /\ \A j \in i + 1 .. k + 1 : ~Sets(j)
    BY Zenon DEF NoneOf, Latest
<1>2. DOMAIN opts[k + 1] \cap fields # {} <=> Sets(k + 1)
    OBVIOUS
<1> HIDE DEF Sets
<1> QED
    BY <1>1, <1>2

\* The last option that sets a field is the one LastGiven refers to.
LEMMA LatestIsMax ==
  ASSUME NEW S, program.opts \in Seq(S), NEW fields
  PROVE  /\ NoneOf(program.opts, fields, Len(program.opts)) => Given(fields) = {}
         /\ \A i \in 1 .. Len(program.opts) :
              Latest(program.opts, fields, Len(program.opts), i) =>
                Given(fields) # {} /\ Max(Given(fields)) = i
<1> DEFINE Sets(j) == DOMAIN program.opts[j] \cap fields # {}
           n == Len(program.opts)
<1>1. n \in Nat /\ DOMAIN program.opts = 1 .. n
    OBVIOUS
<1>2. Given(fields) = {j \in 1 .. n : Sets(j)}
    BY <1>1 DEF Given
<1>3. NoneOf(program.opts, fields, n) => \A j \in 1 .. n : ~Sets(j)
    BY Zenon DEF NoneOf
<1>4. ASSUME NEW i \in 1 .. n, Latest(program.opts, fields, n, i)
      PROVE  Sets(i) /\ \A j \in i + 1 .. n : ~Sets(j)
    BY <1>4, Zenon DEF Latest
<1> HIDE DEF Sets, n
<1>5. ASSUME NEW i \in 1 .. n, Latest(program.opts, fields, n, i)
      PROVE  Given(fields) # {} /\ Max(Given(fields)) = i
  <2>1. i \in Given(fields) /\ \A j \in Given(fields) : i >= j /\ j \in Int
    BY <1>1, <1>2, <1>4, <1>5
  <2>2. \A m \in Given(fields) : (\A j \in Given(fields) : m >= j) => m = i
    BY <1>1, <1>2, <2>1
  <2>3. Max(Given(fields)) = CHOOSE m \in Given(fields) : \A j \in Given(fields) : m >= j
    BY Zenon DEF Max
  <2> QED
    BY <2>1, <2>2, <2>3, Zenon
<1> QED
    BY <1>2, <1>3, <1>5, SMTT(30) DEF n

\* The program's options are those of its constructor.
LEMMA ProgramOptions ==
  ASSUME ShapeInv
  PROVE  /\ program.via \in {"NewTransport", "NewRoundTripper"}
         /\ program.opts \in Seq(Options(program.via))
         /\ Len(program.opts) \in Nat
         /\ \A i \in 1 .. Len(program.opts) : program.opts[i] \in Options(program.via)
<1>1. /\ program.via \in {"NewTransport", "NewRoundTripper"}
      /\ program.opts \in Seq(Options(program.via))
    BY TransportAssumption, Zenon DEF ShapeInv
<1> QED
    BY <1>1

\* The loop takes the next option.
LEMMA NextPending ==
  ASSUME ShapeInv, NEW k \in 0 .. Len(program.opts), Pending(k), program' = program
  PROVE  /\ todo = <<>> => k = Len(program.opts)
         /\ todo # <<>> => /\ k + 1 \in 1 .. Len(program.opts)
                           /\ Head(todo) = program.opts[k + 1]
                           /\ todo' = Tail(todo) => Pending(k + 1)'
<1> DEFINE opts == program.opts
           n == Len(opts)
<1>1. PICK S : opts \in Seq(S)
    BY ProgramOptions
<1>2. n \in Nat /\ todo = SubSeq(opts, k + 1, n)
    BY <1>1 DEF Pending
<1>3. Len(todo) = n - k
    BY <1>1, <1>2
<1>4. ASSUME todo = <<>> PROVE k = n
  <2>1. Len(todo) = 0
    BY <1>4
  <2> QED
    BY <1>2, <1>3, <2>1
<1>5. ASSUME todo # <<>>
      PROVE  k + 1 \in 1 .. n /\ Head(todo) = opts[k + 1] /\ Tail(todo) = SubSeq(opts, k + 2, n)
  <2>1. k < n
    BY <1>1, <1>2, <1>5
  <2> QED
    BY <1>1, <1>2, <2>1
<1>6. ASSUME todo # <<>>, todo' = Tail(todo) PROVE Pending(k + 1)'
  <2>1. k + 1 \in 0 .. n /\ k + 1 + 1 = k + 2
    BY <1>2, <1>5, <1>6
  <2>2. todo' = SubSeq(program'.opts, k + 1 + 1, Len(program'.opts)) /\ k + 1 \in 0 .. Len(program'.opts)
    BY <1>5, <1>6, <2>1, SMTT(30)
  <2> QED
    BY <2>2, Zenon DEF Pending
<1> QED
    BY <1>4, <1>5, <1>6

\* A step that ends the constructor with an error or a panic.
LEMMA BuildFails ==
  ASSUME ShapeInv, program' = program, phase' \in {"failed", "panicked"},
         DOMAIN dcosTransport' = DOMAIN dcosTransport, DOMAIN roundtripper' = DOMAIN roundtripper
  PROVE  BuildInv'
  BY Zenon DEF BuildInv, ShapeInv, PathsInv, TLSInv, IdentityInv

\* One of the two paths is given, the other is not.
LEMMA PathNext ==
  ASSUME BuildInv, NEW option, NEW field, OptionPath(option, field),
         \/ option = "caCertificatePath" /\ field = "CaCertificatePath"
         \/ option = "iamConfigPath" /\ field = "IAMConfigPath"
  PROVE  BuildInv'
<1> DEFINE path == Head(todo)[option]
<1>1. /\ phase = "NewTransport" /\ todo # <<>> /\ option \in DOMAIN Head(todo)
      /\ todo' = Tail(todo) /\ UNCHANGED <<program, tls, roundtripper>>
      /\ phase' = (IF path # "" THEN phase ELSE "failed")
      /\ dcosTransport' = IF path # "" THEN [dcosTransport EXCEPT ![field] = path]
                                       ELSE dcosTransport
    BY Zenon DEF OptionPath, NextOption, Check, errorOnEmpty
<1>2. DOMAIN dcosTransport' = DOMAIN dcosTransport
    BY <1>1, Zenon
<1>3. CASE path = ""
    BY <1>1, <1>2, <1>3, BuildFails, Zenon DEF BuildInv
<1>4. CASE path # ""
  <2>1. PICK k \in 0 .. Len(program.opts) :
          /\ Pending(k)
          /\ PathOf("caCertificatePath", "CaCertificatePath", k)
          /\ PathOf("iamConfigPath", "IAMConfigPath", k)
    BY <1>1, Zenon DEF BuildInv, PathsInv
  <2>2. /\ k + 1 \in 1 .. Len(program.opts) /\ Head(todo) = program.opts[k + 1]
        /\ Pending(k + 1)'
    BY <1>1, <2>1, NextPending, Zenon DEF BuildInv
  <2>3. k \in Nat /\ k + 1 \in 0 .. Len(program.opts) /\ k + 1 \in 1 .. k + 1
        /\ \A i \in 1 .. k : i \in 1 .. k + 1
    BY <2>1, <2>2, ProgramOptions DEF BuildInv
  <2>4. DOMAIN program.opts[k + 1] = {option}
    <3>1. program.opts[k + 1] \in Options("NewTransport")
      BY <1>1, <2>2, ProgramOptions, Zenon DEF BuildInv, ShapeInv
    <3> QED
      BY <1>1, <2>2, <3>1, OptionDomains, Zenon
  <2>5. PathOf(option, field, k + 1)'
    <3>1. dcosTransport'[field] = program.opts[k + 1][option]
      BY <1>1, <1>4, <2>2, Zenon DEF BuildInv, ShapeInv
    <3>2. Latest(program.opts, {option}, k + 1, k + 1)
      BY <2>3, <2>4, LatestNext, Zenon
    <3>3. dcosTransport'[field] # ""
      BY <1>4, <2>2, <3>1, Zenon
    <3> QED
      BY <1>1, <2>3, <3>1, <3>2, <3>3, Zenon DEF PathOf
  <2>6. ASSUME NEW o, NEW f, o # option, f # field, PathOf(o, f, k),
               f \in {"CaCertificatePath", "IAMConfigPath"}
        PROVE  PathOf(o, f, k + 1)'
    <3>1. DOMAIN program.opts[k + 1] \cap {o} = {}
      BY <2>4, <2>6, Zenon
    <3>2. dcosTransport'[f] = dcosTransport[f]
      BY <1>1, <2>6, Zenon DEF BuildInv, ShapeInv
    <3>3. NoneOf(program.opts, {o}, k) => NoneOf(program.opts, {o}, k + 1)
      BY <2>3, <3>1, LatestNext, Zenon
    <3>4. \A i \in 1 .. k : Latest(program.opts, {o}, k, i) => Latest(program.opts, {o}, k + 1, i)
      BY <2>3, <3>1, LatestNext, Zenon
    <3>5. CASE dcosTransport[f] = "" /\ NoneOf(program.opts, {o}, k)
      BY <1>1, <3>2, <3>3, <3>5, Zenon DEF PathOf
    <3>6. ASSUME dcosTransport[f] # "", NEW i \in 1 .. k, Latest(program.opts, {o}, k, i),
                 dcosTransport[f] = program.opts[i][o]
          PROVE  PathOf(o, f, k + 1)'
      BY <1>1, <2>3, <3>2, <3>4, <3>6, Zenon DEF PathOf
    <3> QED
      BY <2>6, <3>5, <3>6, Zenon DEF PathOf
  <2>7. /\ PathOf("caCertificatePath", "CaCertificatePath", k + 1)'
        /\ PathOf("iamConfigPath", "IAMConfigPath", k + 1)'
    BY <2>1, <2>5, <2>6, Zenon
  <2>8. PathsInv'
    BY <1>1, <2>2, <2>3, <2>7, Zenon DEF PathsInv
  <2> QED
    BY <1>1, <1>2, <1>4, <2>8, Zenon DEF BuildInv, ShapeInv, TLSInv, IdentityInv
<1> QED
    BY <1>3, <1>4, Zenon

\* All options of NewTransport are applied: TLS is configured with the last
\* certificate given, and the last IAM configuration goes to NewRoundTripper.
LEMMA TransportNext ==
  ASSUME BuildInv, NewTransport
  PROVE  BuildInv'
<1> DEFINE n == Len(program.opts)
<1>1. /\ phase = "NewTransport" /\ todo = <<>> /\ UNCHANGED <<program, dcosTransport, roundtripper>>
      /\ program.via = "NewTransport" /\ roundtripper.secret = ""
    BY Zenon DEF NewTransport, BuildInv, ShapeInv
<1>2. /\ Pending(n)
      /\ PathOf("caCertificatePath", "CaCertificatePath", n)
      /\ PathOf("iamConfigPath", "IAMConfigPath", n)
    BY <1>1, NextPending, Zenon DEF BuildInv, PathsInv
<1>3. CASE phase' = "failed"
    BY <1>1, <1>3, BuildFails, Zenon DEF BuildInv
<1>4. CASE configureTLS(dcosTransport.CaCertificatePath)
  <2>1. tls' = LastGiven("caCertificatePath", "skipVerify")
    <3>1. CASE /\ dcosTransport.CaCertificatePath = ""
               /\ NoneOf(program.opts, {"caCertificatePath"}, n)
      <4>1. Given({"caCertificatePath"}) = {}
        BY <3>1, ProgramOptions, LatestIsMax, Zenon DEF BuildInv
      <4> QED
        BY <1>4, <3>1, <4>1, Zenon DEF configureTLS, LastGiven
    <3>2. ASSUME dcosTransport.CaCertificatePath # "", NEW i \in 1 .. n,
                 Latest(program.opts, {"caCertificatePath"}, n, i),
                 dcosTransport.CaCertificatePath = program.opts[i].caCertificatePath
          PROVE  tls' = LastGiven("caCertificatePath", "skipVerify")
      <4>1. Given({"caCertificatePath"}) # {} /\ Max(Given({"caCertificatePath"})) = i
        BY <3>2, ProgramOptions, LatestIsMax, Zenon DEF BuildInv
      <4> QED
        BY <1>4, <3>2, <4>1, Zenon DEF configureTLS, LastGiven
    <3> QED
      BY <1>2, <3>1, <3>2, Zenon DEF PathOf
  <2>2. TLSInv' /\ ShapeInv'
    <3>1. LastGiven("caCertificatePath", "skipVerify")' = LastGiven("caCertificatePath", "skipVerify")
      BY <1>1, Zenon DEF LastGiven, Given
    <3>2. phase' # "NewTransport" \/ phase' = phase
      BY <1>1, Zenon
    <3> QED
      BY <1>1, <2>1, <3>1, <3>2, Zenon DEF TLSInv, BuildInv, ShapeInv
  <2>3. CASE /\ dcosTransport.IAMConfigPath # "" /\ phase' = "NewRoundTripper"
             /\ todo' = <<[readIAMConfig |-> dcosTransport.IAMConfigPath]>>
    <3>1. PICK i \in 1 .. n : /\ Latest(program.opts, {"iamConfigPath"}, n, i)
                              /\ dcosTransport.IAMConfigPath = program.opts[i].iamConfigPath
      BY <1>2, <2>3, Zenon DEF PathOf
    <3>2. Latest(program.opts, CredentialFields, n, i)
      <4>1. \A j \in 1 .. n :
              DOMAIN program.opts[j] \cap {"iamConfigPath"} = DOMAIN program.opts[j] \cap CredentialFields
        BY <1>1, ProgramOptions, OptionDomains, Zenon DEF BuildInv, CredentialFields
      <4>2. \A j \in i + 1 .. n : j \in 1 .. n
        BY ProgramOptions DEF BuildInv
      <4> QED
        BY <3>1, <4>1, <4>2, Zenon DEF Latest
    <3> QED
      BY <1>1, <2>2, <2>3, <3>1, <3>2, Zenon DEF BuildInv, PathsInv, IdentityInv
  <2>4. CASE phase' = "plain"
    BY <2>2, <2>4, Zenon DEF BuildInv, PathsInv, IdentityInv
  <2> QED
    BY <1>4, <1>3, <2>3, <2>4, Zenon DEF NewTransport
<1> QED
    BY <1>3, <1>4, Zenon DEF NewTransport

\* NewRoundTripper applies an option, its own or the one NewTransport passes: the
\* credentials stay as they are, or become those of the option.
LEMMA IdentityNext ==
  ASSUME BuildInv, NEW field, NextOption("NewRoundTripper", field),
         UNCHANGED <<program, dcosTransport, tls>>,
         phase' = phase \/ phase' = "failed",
         DOMAIN roundtripper' = DOMAIN roundtripper,
         \/ /\ DOMAIN Head(todo) \cap CredentialFields = {}
            /\ roundtripper'.secret = roundtripper.secret
            /\ roundtripper'.uid = roundtripper.uid
            /\ roundtripper'.loginEndpoint = roundtripper.loginEndpoint
         \/ /\ DOMAIN Head(todo) \cap CredentialFields # {}
            /\ phase' = phase => HasCredentials(roundtripper', CredentialsOf(Head(todo)))
  PROVE  BuildInv'
<1> DEFINE n == Len(program.opts)
<1>1. phase = "NewRoundTripper" /\ todo # <<>> /\ todo' = Tail(todo)
    BY Zenon DEF NextOption
<1>2. CASE phase' = "failed"
    BY <1>2, BuildFails, Zenon DEF BuildInv
<1>3. CASE phase' = phase
  <2>1. ShapeInv' /\ PathsInv'
    BY <1>1, <1>3, Zenon DEF BuildInv, ShapeInv, PathsInv
  <2>2. TLSInv'
    BY <1>3, Zenon DEF BuildInv, TLSInv, LastGiven, Given
  <2>3. CASE program.via = "NewRoundTripper"
    <3>1. PICK k \in 0 .. n :
            /\ Pending(k)
            /\ \/ roundtripper.secret = "" /\ NoneOf(program.opts, CredentialFields, k)
               \/ \E i \in 1 .. k : Identified(k, i)
      BY <1>1, <2>3, Zenon DEF BuildInv, IdentityInv
    <3>2. k + 1 \in 1 .. n /\ Head(todo) = program.opts[k + 1] /\ Pending(k + 1)'
      BY <1>1, <3>1, NextPending, Zenon DEF BuildInv
    <3>3. k \in Nat /\ k + 1 \in 0 .. n /\ k + 1 \in 1 .. k + 1 /\ \A i \in 1 .. k : i \in 1 .. k + 1
      <4>1. n \in Nat
        BY ProgramOptions, Zenon DEF BuildInv
      <4>2. k \in 0 .. n /\ k + 1 \in 1 .. n
        BY <3>2
      <4> QED
        BY <4>1, <4>2
    <3>4. \/ roundtripper'.secret = "" /\ NoneOf(program.opts, CredentialFields, k + 1)
          \/ \E i \in 1 .. k + 1 : Identified(k + 1, i)'
      <4>1. CASE /\ DOMAIN Head(todo) \cap CredentialFields = {}
                 /\ roundtripper'.secret = roundtripper.secret
                 /\ roundtripper'.uid = roundtripper.uid
                 /\ roundtripper'.loginEndpoint = roundtripper.loginEndpoint
        <5>1. NoneOf(program.opts, CredentialFields, k) => NoneOf(program.opts, CredentialFields, k + 1)
          BY <3>2, <3>3, <4>1, LatestNext, Zenon
        <5>2. \A i \in 1 .. k : Latest(program.opts, CredentialFields, k, i) =>
                                  Latest(program.opts, CredentialFields, k + 1, i)
          BY <3>2, <3>3, <4>1, LatestNext, Zenon
        <5>3. \A i \in 1 .. k : Identified(k, i) => Identified(k + 1, i)'
          <6> SUFFICES ASSUME NEW i \in 1 .. k, Identified(k, i) PROVE Identified(k + 1, i)'
            OBVIOUS
          <6>1. HasCredentials(roundtripper, CredentialsOf(program.opts[i]))'
            BY <4>1, Zenon DEF Identified, HasCredentials, CredentialsOf
          <6> QED
            BY <5>2, <6>1, Zenon DEF Identified
        <5> QED
          BY <3>1, <3>3, <4>1, <5>1, <5>3, Zenon
      <4>2. CASE /\ DOMAIN Head(todo) \cap CredentialFields # {}
                 /\ HasCredentials(roundtripper', CredentialsOf(Head(todo)))
        <5>1. Latest(program.opts, CredentialFields, k + 1, k + 1)
          BY <3>2, <3>3, <4>2, LatestNext, Zenon
        <5>2. HasCredentials(roundtripper', CredentialsOf(program.opts[k + 1]))
          BY <3>2, <4>2, Zenon DEF HasCredentials, CredentialsOf
        <5> QED
          BY <3>3, <5>1, <5>2, Zenon DEF Identified
      <4> QED
        BY <1>3, <4>1, <4>2, Zenon
    <3>5. IdentityInv'
      BY <1>1, <1>3, <2>3, <3>2, <3>3, <3>4, Zenon DEF IdentityInv
    <3> QED
      BY <2>1, <2>2, <3>5 DEF BuildInv
  <2>4. CASE program.via = "NewTransport"
    <3>1. PICK i \in 1 .. n :
            /\ Latest(program.opts, CredentialFields, n, i)
            /\ todo = <<[readIAMConfig |-> program.opts[i].iamConfigPath]>>
      BY <1>1, <2>4, Zenon DEF BuildInv, IdentityInv
    <3>2. /\ Head(todo) = [readIAMConfig |-> program.opts[i].iamConfigPath]
          /\ Tail(todo) = <<>>
      BY <3>1
    <3>3. DOMAIN Head(todo) = {"readIAMConfig"} /\ Head(todo).readIAMConfig = program.opts[i].iamConfigPath
      BY <3>2
    <3>4. HasCredentials(roundtripper', CredentialsOf(Head(todo)))
      BY <1>3, <3>3, Zenon DEF CredentialFields
    <3>5. CredentialsOf(Head(todo)) = IAMFiles[program.opts[i].iamConfigPath]
      BY <3>3, Zenon DEF CredentialsOf
    <3>6. CredentialsOf(program.opts[i]) = IAMFiles[program.opts[i].iamConfigPath]
      <4>1. DOMAIN program.opts[i] \in {{"nil"}, {"caCertificatePath"}, {"iamConfigPath"}}
        BY <2>4, ProgramOptions, OptionDomains, Zenon DEF BuildInv
      <4> QED
        BY <4>1, Zenon DEF CredentialsOf
    <3>7. Identified(n, i)'
      BY <3>1, <3>4, <3>5, <3>6, ZenonT(30) DEF Identified, HasCredentials, CredentialsOf
    <3>8. IdentityInv'
      BY <1>1, <1>3, <2>4, <3>2, <3>7, Zenon DEF IdentityInv
    <3> QED
      BY <2>1, <2>2, <3>8 DEF BuildInv
  <2> QED
    BY <2>3, <2>4, ProgramOptions, Zenon DEF BuildInv
<1> QED
    BY <1>2, <1>3
\* The credentials are set together, or the option fails.
LEMMA CredentialsSet ==
  ASSUME ShapeInv, NEW c \in Credentials, setCredentials(c), phase # "failed"
  PROVE  /\ phase' = phase \/ phase' = "failed"
         /\ DOMAIN roundtripper' = DOMAIN roundtripper
         /\ phase' = phase => HasCredentials(roundtripper', c)
<1> DEFINE given == "" \notin {c.uid, c.secret, c.loginEndpoint}
           secret == IF c.secret \in RSAKeys THEN c.secret ELSE roundtripper.secret
<1>1. /\ phase' = IF given /\ c.secret \in RSAKeys THEN phase ELSE "failed"
      /\ roundtripper' = IF ~given THEN roundtripper
                         ELSE [roundtripper EXCEPT !.uid = c.uid,
                                                   !.loginEndpoint = c.loginEndpoint,
                                                   !.secret = secret]
    BY Zenon DEF setCredentials, Check
<1> HIDE DEF given
<1>2. DOMAIN roundtripper' = DOMAIN roundtripper
    BY <1>1, Zenon
<1>3. ASSUME phase' = phase PROVE HasCredentials(roundtripper', c)
  <2>1. given /\ c.secret \in RSAKeys
    BY <1>1, <1>3, Zenon
  <2>2. roundtripper' = [[[roundtripper EXCEPT !.uid = c.uid] EXCEPT !.loginEndpoint = c.loginEndpoint]
                           EXCEPT !.secret = c.secret]
    BY <1>1, <2>1, Zenon
  <2>3. /\ roundtripper'.uid = c.uid /\ roundtripper'.loginEndpoint = c.loginEndpoint
        /\ roundtripper'.secret = c.secret
    BY <2>2, Zenon DEF ShapeInv
  <2> QED
    BY <2>3, Zenon DEF HasCredentials
<1> QED
    BY <1>1, <1>2, <1>3, Zenon

\* The next option of NewRoundTripper is one of its own, or the one of NewTransport.
LEMMA HeadOption ==
  ASSUME BuildInv, phase = "NewRoundTripper", todo # <<>>
  PROVE  \/ DOMAIN Head(todo) \in {{"nil"}, {"tokenExpire"}, {"userAgent"}, {"readIAMConfig"}}
         \/ DOMAIN Head(todo) = {"uid", "secret", "loginEndpoint"} /\ Head(todo) \in Credentials
<1>1. CASE program.via = "NewRoundTripper"
  <2>1. PICK k \in 0 .. Len(program.opts) : Pending(k)
    BY <1>1, Zenon DEF BuildInv, IdentityInv
  <2>2. k + 1 \in 1 .. Len(program.opts) /\ Head(todo) = program.opts[k + 1]
    <3> DEFINE opts == program.opts
               n == Len(opts)
    <3>1. opts \in Seq(Options(program.via))
      BY ProgramOptions, Zenon DEF BuildInv
    <3>2. todo = SubSeq(opts, k + 1, n) /\ n \in Nat /\ k \in 0 .. n
      BY <2>1, <3>1 DEF Pending
    <3> HIDE DEF opts
    <3>3. k < n
      BY <3>1, <3>2
    <3>4. k + 1 \in 1 .. n /\ Head(todo) = opts[k + 1]
      BY <3>1, <3>2, <3>3
    <3> QED
      BY <3>4 DEF opts
  <2>3. program.opts[k + 1] \in Options("NewRoundTripper")
    BY <1>1, <2>2, ProgramOptions, Zenon DEF BuildInv
  <2> QED
    BY <2>2, <2>3, OptionDomains, Zenon
<1>2. CASE program.via = "NewTransport"
  <2>1. PICK i \in 1 .. Len(program.opts) :
          todo = <<[readIAMConfig |-> program.opts[i].iamConfigPath]>>
    BY <1>2, Zenon DEF BuildInv, IdentityInv
  <2>2. DOMAIN Head(todo) = {"readIAMConfig"}
    BY <2>1
  <2> QED
    BY <2>2, Zenon
<1> QED
    BY <1>1, <1>2, ProgramOptions, Zenon DEF BuildInv

\* An option that sets credentials sets nothing else.
LEMMA HeadFields ==
  ASSUME BuildInv, phase = "NewRoundTripper", todo # <<>>
  PROVE  /\ \A f \in {"nil", "tokenExpire", "userAgent"} :
              f \in DOMAIN Head(todo) => DOMAIN Head(todo) \cap CredentialFields = {}
         /\ "uid" \in DOMAIN Head(todo) =>
              Head(todo) \in Credentials /\ DOMAIN Head(todo) \cap CredentialFields # {}
         /\ "readIAMConfig" \in DOMAIN Head(todo) =>
              /\ DOMAIN Head(todo) = {"readIAMConfig"}
              /\ DOMAIN Head(todo) \cap CredentialFields # {}
<1> DEFINE d == DOMAIN Head(todo)
           c == Head(todo) \in Credentials
<1>1. \/ d = {"nil"} \/ d = {"tokenExpire"} \/ d = {"userAgent"} \/ d = {"readIAMConfig"}
      \/ d = {"uid", "secret", "loginEndpoint"} /\ c
    BY HeadOption, Zenon
<1> HIDE DEF d, c
<1>2. /\ \A f \in {"nil", "tokenExpire", "userAgent"} : f \in d => d \cap CredentialFields = {}
      /\ "uid" \in d => c /\ d \cap CredentialFields # {}
      /\ "readIAMConfig" \in d => d = {"readIAMConfig"} /\ d \cap CredentialFields # {}
    BY <1>1, SMT DEF CredentialFields
<1> QED
    BY <1>2, Zenon DEF d, c

\* All options of NewRoundTripper are applied: what can sign has credentials.
LEMMA RoundTripperNext ==
  ASSUME BuildInv, NewRoundTripper
  PROVE  BuildInv'
<1> DEFINE n == Len(program.opts)
           expire == IF roundtripper.expire < 1 THEN DefaultExpire ELSE roundtripper.expire
<1>1. /\ phase = "NewRoundTripper" /\ todo = <<>> /\ UNCHANGED <<program, dcosTransport, tls>>
      /\ roundtripper' = [roundtripper EXCEPT !.expire = expire]
      /\ \/ phase' = "ready" /\ roundtripper.secret # ""
         \/ phase' = "failed"
    BY Zenon DEF NewRoundTripper
<1> HIDE DEF expire
<1>2. /\ DOMAIN roundtripper' = DOMAIN roundtripper /\ roundtripper'.uid = roundtripper.uid
      /\ roundtripper'.secret = roundtripper.secret
      /\ roundtripper'.loginEndpoint = roundtripper.loginEndpoint
    BY <1>1, Zenon DEF BuildInv, ShapeInv
<1>3. CASE phase' = "failed"
    BY <1>1, <1>2, <1>3, BuildFails, Zenon DEF BuildInv
<1>4. CASE phase' = "ready" /\ roundtripper.secret # ""
  <2>1. \E i \in 1 .. n : Identified(n, i)
    <3>1. CASE program.via = "NewRoundTripper"
      <4>1. PICK k \in 0 .. n :
              /\ Pending(k)
              /\ \/ roundtripper.secret = "" /\ NoneOf(program.opts, CredentialFields, k)
                 \/ \E i \in 1 .. k : Identified(k, i)
        BY <1>1, <3>1, Zenon DEF BuildInv, IdentityInv
      <4>2. k = n
        BY <1>1, <4>1, NextPending, Zenon DEF BuildInv
      <4> QED
        BY <1>4, <4>1, <4>2, Zenon
    <3>2. CASE program.via = "NewTransport"
      <4>1. \A x : todo # <<x>>
        BY <1>1, Zenon
      <4> QED
        BY <1>1, <3>2, <4>1, Zenon DEF BuildInv, IdentityInv
    <3> QED
      BY <3>1, <3>2, ProgramOptions, Zenon DEF BuildInv
  <2>2. \E i \in 1 .. n : Identified(n, i)'
    <3>1. PICK i \in 1 .. n : Identified(n, i)
      BY <2>1, Zenon
    <3>2. program' = program
      BY <1>1, Zenon
    <3>3. HasCredentials(roundtripper', CredentialsOf(program.opts[i]))
      BY <1>2, <3>1, Zenon DEF Identified, HasCredentials
    <3>4. Identified(n, i)'
      BY <3>1, <3>2, <3>3, Zenon DEF Identified
    <3> QED
      BY <3>4, Zenon
  <2>3. IdentityInv' /\ PathsInv'
    BY <1>1, <1>4, <2>2, Zenon DEF IdentityInv, PathsInv
  <2>4. TLSInv' /\ ShapeInv'
    BY <1>1, <1>2, <1>4, Zenon DEF BuildInv, TLSInv, LastGiven, Given, ShapeInv
  <2> QED
    BY <2>3, <2>4, Zenon DEF BuildInv
<1> QED
    BY <1>1, <1>3, <1>4, Zenon

\* The inductive step for the options.
LEMMA NextBuild == BuildInv /\ [Next]_vars => BuildInv'
<1> SUFFICES ASSUME BuildInv, [Next]_vars PROVE BuildInv'
    OBVIOUS
<1>1. CASE UNCHANGED buildVars
    BY <1>1, ZenonT(30) DEF buildVars, BuildInv, ShapeInv, PathsInv, TLSInv, IdentityInv, Pending,
                       PathOf, LastGiven, Given, Identified
<1>2. CASE OptionCaCertificatePath \/ OptionIAMConfigPath
    BY <1>2, PathNext, Zenon DEF OptionCaCertificatePath, OptionIAMConfigPath
<1>3. CASE nilOption
  <2>1. UNCHANGED <<program, dcosTransport, tls, roundtripper>>
    BY <1>3, Zenon DEF nilOption
  <2>2. CASE NextOption("NewRoundTripper", "nil") /\ UNCHANGED phase
    <3>1. /\ phase = "NewRoundTripper" /\ todo # <<>> /\ "nil" \in DOMAIN Head(todo)
      BY <2>2, Zenon DEF NextOption
    <3>2. DOMAIN Head(todo) \cap CredentialFields = {}
      BY <3>1, HeadFields, Zenon
    <3> QED
      BY <2>1, <2>2, <3>1, <3>2, IdentityNext, Zenon
  <2>3. CASE phase' = "panicked"
    BY <2>1, <2>3, BuildFails, Zenon DEF BuildInv
  <2> QED
    BY <1>3, <2>2, <2>3, Zenon DEF nilOption
<1>4. CASE OptionTokenExpire
  <2> DEFINE t == Head(todo).tokenExpire
  <2>1. /\ NextOption("NewRoundTripper", "tokenExpire") /\ phase = "NewRoundTripper" /\ todo # <<>>
        /\ "tokenExpire" \in DOMAIN Head(todo)
        /\ UNCHANGED <<program, dcosTransport, tls>>
        /\ phase' = phase \/ phase' = "failed"
        /\ roundtripper' = roundtripper \/ roundtripper' = [roundtripper EXCEPT !.expire = t]
    BY <1>4, Zenon DEF OptionTokenExpire, NextOption, Check
  <2>2. DOMAIN Head(todo) \cap CredentialFields = {}
    BY <2>1, HeadFields, Zenon
  <2>3. /\ DOMAIN roundtripper' = DOMAIN roundtripper /\ roundtripper'.uid = roundtripper.uid
        /\ roundtripper'.secret = roundtripper.secret
        /\ roundtripper'.loginEndpoint = roundtripper.loginEndpoint
    BY <2>1 DEF BuildInv, ShapeInv
  <2> QED
    BY <2>1, <2>2, <2>3, IdentityNext, Zenon
<1>5. CASE OptionUserAgent
  <2> DEFINE agent == IF Head(todo).userAgent # "" THEN Head(todo).userAgent
                                                   ELSE roundtripper.userAgent
  <2>1. /\ NextOption("NewRoundTripper", "userAgent") /\ phase = "NewRoundTripper" /\ todo # <<>>
        /\ "userAgent" \in DOMAIN Head(todo)
        /\ UNCHANGED <<program, dcosTransport, tls>>
        /\ phase' = phase \/ phase' = "failed"
        /\ roundtripper' = [roundtripper EXCEPT !.userAgent = agent]
    BY <1>5, Zenon DEF OptionUserAgent, NextOption, Check
  <2>2. DOMAIN Head(todo) \cap CredentialFields = {}
    BY <2>1, HeadFields, Zenon
  <2> HIDE DEF agent
  <2>3. /\ DOMAIN roundtripper' = DOMAIN roundtripper /\ roundtripper'.uid = roundtripper.uid
        /\ roundtripper'.secret = roundtripper.secret
        /\ roundtripper'.loginEndpoint = roundtripper.loginEndpoint
    BY <2>1 DEF BuildInv, ShapeInv
  <2> QED
    BY <2>1, <2>2, <2>3, IdentityNext, Zenon
<1>6. CASE OptionCredentials
  <2>1. /\ NextOption("NewRoundTripper", "uid") /\ phase = "NewRoundTripper" /\ todo # <<>>
        /\ "uid" \in DOMAIN Head(todo) /\ setCredentials(Head(todo))
        /\ UNCHANGED <<program, dcosTransport, tls>>
    BY <1>6, Zenon DEF OptionCredentials, NextOption
  <2>2. Head(todo) \in Credentials /\ DOMAIN Head(todo) \cap CredentialFields # {}
    BY <2>1, HeadFields, Zenon
  <2>3. CredentialsOf(Head(todo)) = Head(todo)
    BY <2>1, <2>2, HeadFields DEF CredentialsOf
  <2> QED
    BY <2>1, <2>2, <2>3, CredentialsSet, IdentityNext, Zenon DEF BuildInv
<1>7. CASE OptionReadIAMConfig
  <2> DEFINE path == Head(todo).readIAMConfig
  <2>1. /\ NextOption("NewRoundTripper", "readIAMConfig") /\ phase = "NewRoundTripper" /\ todo # <<>>
        /\ "readIAMConfig" \in DOMAIN Head(todo)
        /\ UNCHANGED <<program, dcosTransport, tls>>
        /\ \/ path \in DOMAIN IAMFiles /\ setCredentials(IAMFiles[path])
           \/ phase' = "failed" /\ roundtripper' = roundtripper
    BY <1>7, Zenon DEF OptionReadIAMConfig, NextOption, Check
  <2>2. DOMAIN Head(todo) = {"readIAMConfig"} /\ DOMAIN Head(todo) \cap CredentialFields # {}
    BY <2>1, HeadFields, Zenon
  <2>3. CASE phase' = "failed" /\ roundtripper' = roundtripper
    BY <2>1, <2>3, BuildFails, Zenon DEF BuildInv
  <2>4. CASE path \in DOMAIN IAMFiles /\ setCredentials(IAMFiles[path])
    <3>1. IAMFiles[path] \in Credentials
      BY <2>4, TransportAssumption, Zenon
    <3>2. CredentialsOf(Head(todo)) = IAMFiles[path]
      BY <2>2, Zenon DEF CredentialsOf
    <3> QED
      BY <2>1, <2>2, <2>4, <3>1, <3>2, CredentialsSet, IdentityNext, Zenon DEF BuildInv
  <2> QED
    BY <2>1, <2>3, <2>4, Zenon
<1>8. ASSUME NEW r \in Callers, Proceed(r) \/ RoundTrip(r) \/ DebugTransport(r)
      PROVE  UNCHANGED buildVars
    BY <1>8, Zenon DEF Proceed, RoundTrip, DebugTransport, addAuthToken, Try, Retry, Lock, Login,
                       LoginFails, StoreToken
<1>9. ASSUME NEW t \in valid, Expire(t) PROVE UNCHANGED buildVars
    BY <1>9, Zenon DEF Expire
<1> QED
    BY <1>1, <1>2, <1>3, <1>4, <1>5, <1>6, <1>7, <1>8, <1>9, TransportNext, RoundTripperNext, Zenon
    DEF Next, Build, vars

\* The inductive invariant of the constructors.
LEMMA BuildInvariant == Spec => []BuildInv
<1>1. Init => BuildInv
  <2> SUFFICES ASSUME Init PROVE BuildInv
    OBVIOUS
  <2>1. /\ program \in Programs /\ todo = program.opts /\ phase = program.via
        /\ dcosTransport = [CaCertificatePath |-> "", IAMConfigPath |-> ""]
        /\ roundtripper = [uid |-> "", loginEndpoint |-> "", secret |-> "",
                           userAgent |-> "", expire |-> 0]
    BY Zenon DEF Init, BuildInit
  <2>2. /\ DOMAIN dcosTransport = {"CaCertificatePath", "IAMConfigPath"}
        /\ dcosTransport.CaCertificatePath = "" /\ dcosTransport.IAMConfigPath = ""
        /\ DOMAIN roundtripper = {"uid", "loginEndpoint", "secret", "userAgent", "expire"}
        /\ roundtripper.secret = ""
    BY <2>1, Zenon
  <2>3. /\ phase \in {"NewTransport", "NewRoundTripper"}
        /\ phase = program.via /\ program.opts \in Seq(Options(program.via))
    BY <2>1, TransportAssumption, Zenon
  <2>4. 0 \in 0 .. Len(program.opts) /\ Pending(0)
    <3>1. Len(program.opts) \in Nat
      BY <2>3
    <3>2. 0 \in 0 .. Len(program.opts)
      BY <3>1
    <3>3. program.opts = SubSeq(program.opts, 0 + 1, Len(program.opts))
      BY <2>3
    <3> QED
      BY <2>1, <3>2, <3>3, Zenon DEF Pending
  <2>5. \A fields : NoneOf(program.opts, fields, 0)
    BY DEF NoneOf
  <2>6. phase = "NewRoundTripper" => program.via # "NewTransport"
    BY <2>3, Zenon
  <2> QED
    BY <2>1, <2>2, <2>3, <2>4, <2>5, <2>6, Zenon
       DEF BuildInv, ShapeInv, PathsInv, PathOf, TLSInv, IdentityInv
<1> QED
    BY <1>1, NextBuild, PTL DEF Spec

\* A transport verifies servers with the last certificate that its program gave, and
\* skips the verification exactly if it gave none (configureTLS).
THEOREM CertificatesEnforced == Spec => []CAEnforced
<1>1. BuildInv => CAEnforced
    BY Zenon DEF BuildInv, TLSInv, CAEnforced
<1> QED
    BY <1>1, BuildInvariant, PTL

\* A round tripper has the uid, the key and the endpoint of one set of credentials, the
\* last one of its program, whatever the options (OptionCredentials,
\* OptionReadIAMConfig, OptionIAMConfigPath).
THEOREM IdentityIsOne == Spec => []OneIdentity
<1>1. BuildInv => OneIdentity
  <2> SUFFICES ASSUME BuildInv, phase = "ready" PROVE OneIdentity
    BY Zenon DEF OneIdentity
  <2>1. PICK i \in 1 .. Len(program.opts) : Identified(Len(program.opts), i)
    BY Zenon DEF BuildInv, IdentityInv
  <2>2. Max(Given(CredentialFields)) = i
    BY <2>1, ProgramOptions, LatestIsMax, Zenon DEF BuildInv, Identified
  <2> QED
    BY <2>1, <2>2, Zenon DEF OneIdentity, Identified, HasCredentials, CredentialFields
<1> QED
    BY <1>1, BuildInvariant, PTL
=============================================================================

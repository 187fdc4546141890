------------------------------ MODULE Transport ------------------------------
(***************************************************************************)
(* How a transport is put together (src/dcos/http/transport/transport.go,  *)
(* option.go and the options of NewRoundTripper): NewTransport configures  *)
(* TLS and, given an IAM configuration, wraps its transport with           *)
(* NewRoundTripper, which callers may also use directly.                   *)
(*                                                                         *)
(* An option is a record whose fields are the arguments of the Option      *)
(* function of that name; the empty string is "".  The first login, with   *)
(* which NewRoundTripper ends, is in RoundTripper.                         *)
(***************************************************************************)
EXTENDS Integers, Sequences, FiniteSetsExt

CONSTANTS
  Programs,   \* what a program passes: the constructor (via), its options (opts)
              \* and the number of requests it makes afterwards (maxCalls)
  CAFiles,    \* the paths of readable files with a PEM certificate
  IAMFiles,   \* the credentials in each readable JSON file, by path
  RSAKeys     \* the secrets that are PEM blocks with a PKCS #8 RSA key

Credentials == [uid : STRING, secret : STRING, loginEndpoint : STRING]

\* The options that a constructor takes.
Options(constructor) ==
  IF constructor = "NewTransport"
  THEN [nil : BOOLEAN] \cup [caCertificatePath : STRING] \cup [iamConfigPath : STRING]
  ELSE [nil : BOOLEAN] \cup [tokenExpire : Int] \cup [userAgent : STRING]
         \cup [readIAMConfig : STRING] \cup Credentials

ASSUME TransportAssumption ==
  /\ \A p \in Programs : /\ p.via \in {"NewTransport", "NewRoundTripper"}
                         /\ p.opts \in Seq(Options(p.via))
  /\ IAMFiles \in [DOMAIN IAMFiles -> Credentials]

VARIABLES
  program,        \* the member of Programs
  todo,           \* options not applied yet
  phase,          \* the constructor that is running, or what it returned
  dcosTransport,  \* the struct of NewTransport
  tls,            \* TLS: "default", "skipVerify", or the path of the CA certificate
  roundtripper    \* the configuration in the struct of NewRoundTripper

buildVars == <<program, todo, phase, dcosTransport, tls, roundtripper>>

BuildInit ==
  /\ program \in Programs
  /\ todo = program.opts
  /\ phase = program.via
  /\ dcosTransport = [CaCertificatePath |-> "", IAMConfigPath |-> ""]
  /\ tls = "default"
  /\ roundtripper = [uid |-> "", loginEndpoint |-> "", secret |-> "",
                     userAgent |-> "", expire |-> 0]

-----------------------------------------------------------------------------
(* The options, in the order in which they are passed. *)

\* The loop over the options comes to one that sets the field.
NextOption(constructor, field) ==
  /\ phase = constructor
  /\ todo # <<>>
  /\ field \in DOMAIN Head(todo)
  /\ todo' = Tail(todo)

\* An error of an option ends the constructor, which returns nil.
Check(ok) == phase' = IF ok THEN phase ELSE "failed"

\* NewRoundTripper skips a nil option; the loop of NewTransport calls it, and panics.
nilOption ==
  /\ \/ NextOption("NewRoundTripper", "nil") /\ UNCHANGED phase
     \/ NextOption("NewTransport", "nil") /\ phase' = "panicked"
  /\ UNCHANGED <<program, dcosTransport, tls, roundtripper>>

errorOnEmpty(arg) == arg # ""

\* The two options of NewTransport.
OptionPath(option, field) ==
  /\ NextOption("NewTransport", option)
  /\ LET path == Head(todo)[option]
     IN  /\ Check(errorOnEmpty(path))
         /\ dcosTransport' = IF errorOnEmpty(path) THEN [dcosTransport EXCEPT ![field] = path]
                                                   ELSE dcosTransport
  /\ UNCHANGED <<program, tls, roundtripper>>

OptionCaCertificatePath == OptionPath("caCertificatePath", "CaCertificatePath")
OptionIAMConfigPath     == OptionPath("iamConfigPath", "IAMConfigPath")

OptionTokenExpire ==
  /\ NextOption("NewRoundTripper", "tokenExpire")
  /\ LET t == Head(todo).tokenExpire
     IN  /\ Check(t >= 1)
         /\ roundtripper' = IF t >= 1 THEN [roundtripper EXCEPT !.expire = t] ELSE roundtripper
  /\ UNCHANGED <<program, dcosTransport, tls>>

OptionUserAgent ==
  /\ NextOption("NewRoundTripper", "userAgent")
  /\ Check(Head(todo).userAgent # "")
  /\ roundtripper' = [roundtripper EXCEPT !.userAgent =
                        IF Head(todo).userAgent # "" THEN Head(todo).userAgent ELSE @]
  /\ UNCHANGED <<program, dcosTransport, tls>>

\* Mutant: a secret that is no RSA key is skipped without an error.
setCredentialsLoosely(c) ==
  LET given == "" \notin {c.uid, c.secret, c.loginEndpoint}
  IN  /\ Check(given)
      /\ roundtripper' = IF ~given THEN roundtripper
                         ELSE [roundtripper EXCEPT
                                 !.uid = c.uid, !.loginEndpoint = c.loginEndpoint,
                                 !.secret = IF c.secret \in RSAKeys THEN c.secret ELSE @]

\* The uid and the endpoint are set before the secret is looked at.
setCredentials(c) ==
  LET given == "" \notin {c.uid, c.secret, c.loginEndpoint}
  IN  /\ Check(given /\ c.secret \in RSAKeys)
      /\ roundtripper' = IF ~given THEN roundtripper
                         ELSE [roundtripper EXCEPT
                                 !.uid = c.uid, !.loginEndpoint = c.loginEndpoint,
                                 !.secret = IF c.secret \in RSAKeys THEN c.secret ELSE @]

OptionCredentials ==
  /\ NextOption("NewRoundTripper", "uid")
  /\ setCredentials(Head(todo))
  /\ UNCHANGED <<program, dcosTransport, tls>>

\* The file must open and parse; then as OptionCredentials.
OptionReadIAMConfig ==
  /\ NextOption("NewRoundTripper", "readIAMConfig")
  /\ LET path == Head(todo).readIAMConfig
     IN  IF path \in DOMAIN IAMFiles THEN setCredentials(IAMFiles[path])
                                     ELSE Check(FALSE) /\ UNCHANGED roundtripper
  /\ UNCHANGED <<program, dcosTransport, tls>>

-----------------------------------------------------------------------------
(* NewTransport, after its options. *)

loadCAPool(path) == path \in CAFiles

\* Mutant: the error of loadCAPool is dropped.
configureTLSAnyway(path) ==
  tls' = IF path = "" THEN "skipVerify" ELSE IF loadCAPool(path) THEN path ELSE tls

configureTLS(path) ==
  /\ path # "" => loadCAPool(path)
  /\ tls' = IF path = "" THEN "skipVerify" ELSE path

NewTransport ==
  /\ phase = "NewTransport"
  /\ todo = <<>>
  /\ \/ /\ configureTLS(dcosTransport.CaCertificatePath)
        /\ IF dcosTransport.IAMConfigPath # ""
           THEN /\ phase' = "NewRoundTripper"
                /\ todo' = <<[readIAMConfig |-> dcosTransport.IAMConfigPath]>>
           ELSE phase' = "plain" /\ UNCHANGED todo
     \/ /\ dcosTransport.CaCertificatePath # ""
        /\ ~loadCAPool(dcosTransport.CaCertificatePath)
        /\ phase' = "failed"
        /\ UNCHANGED <<todo, tls>>
  /\ UNCHANGED <<program, dcosTransport, roundtripper>>

Build ==
  \/ OptionCaCertificatePath \/ OptionIAMConfigPath \/ NewTransport
  \/ nilOption \/ OptionTokenExpire \/ OptionUserAgent
  \/ OptionCredentials \/ OptionReadIAMConfig

-----------------------------------------------------------------------------
(* Properties. *)

\* The options of the program that set one of the fields.
Given(fields) == {i \in DOMAIN program.opts : DOMAIN program.opts[i] \cap fields # {}}

LastGiven(field, default) ==
  IF Given({field}) = {} THEN default ELSE program.opts[Max(Given({field}))][field]

\* A transport of NewTransport that was given a CA certificate verifies servers with
\* it, for its own login too, or there is no transport: it skips the verification
\* exactly when no certificate was given (the comment of configureTLS).
CAEnforced ==
  phase \in {"plain", "ready"} /\ program.via = "NewTransport" =>
    tls = LastGiven("caCertificatePath", "skipVerify")

\* The credentials that an option refers to.
CredentialsOf(option) ==
  CASE "uid" \in DOMAIN option           -> option
    [] "readIAMConfig" \in DOMAIN option -> IAMFiles[option.readIAMConfig]
    [] OTHER                             -> IAMFiles[option.iamConfigPath]

\* The uid, the key and the endpoint of a round tripper are those of one set of
\* credentials, the last one passed: an OptionCredentials that fails half way, after
\* it has set the uid, leaves no round tripper behind.
OneIdentity ==
  phase = "ready" =>
    LET last == program.opts[Max(Given({"uid", "readIAMConfig", "iamConfigPath"}))]
    IN  \A field \in {"uid", "secret", "loginEndpoint"} :
          roundtripper[field] = CredentialsOf(last)[field]
=============================================================================

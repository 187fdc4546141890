---------------------------- MODULE NodeOptions -----------------------------
(***************************************************************************)
(* NewNodeInfo of src/dcos/nodeutil/util.go and the options of options.go. *)
(***************************************************************************)
EXTENDS Integers

CONSTANTS
  Roles,       \* the roles that callers pass
  ValidRoles,
  Strings,     \* the arguments of options, "" among them
  Files,       \* the paths that exist
  Timeouts,    \* the timeouts that callers pass
  MaxOptions   \* bound on the number of options

\* os.Stat finds nothing at the empty path.
ASSUME NodeOptionsAssumption == "" \notin Files /\ Timeouts \subseteq Int

VARIABLES
  info,     \* the dcosInfo that is being built
  built,    \* "no", "options", "ok" or "error"
  applied   \* number of options applied

optionVars == <<info, built, applied>>

OptionInit ==
  /\ info \in [client : BOOLEAN, role : Roles, cache : {TRUE}, detectIPLocation : {"default"},
               detectIPTimeout : {10}, dnsRecordLeader : {"default"},
               mesosStateURL : {"default"}, clusterIDLocation : {"default"}]
  /\ built = "no"
  /\ applied = 0

\* NewNodeInfo needs a client and a known role before it looks at the options.
CheckParameters ==
  /\ built = "no"
  /\ built' = IF info.client /\ info.role \in ValidRoles THEN "options" ELSE "error"
  /\ UNCHANGED <<info, applied>>

\* An option sets its field, or its error ends NewNodeInfo.
Apply(field, value, ok) ==
  /\ built = "options" /\ applied < MaxOptions
  /\ applied' = applied + 1
  /\ IF ok THEN info' = [info EXCEPT ![field] = value] /\ UNCHANGED built
           ELSE built' = "error" /\ UNCHANGED info

OptionDetectIP(path)           == Apply("detectIPLocation", path, path \in Files)
OptionDetectIPTimeout(timeout) == Apply("detectIPTimeout", timeout, timeout > 0)
OptionNoCache                  == Apply("cache", FALSE, TRUE)
OptionLeaderDNSRecord(r)       == Apply("dnsRecordLeader", r, r # "")
OptionClusterIDFile(f)         == Apply("clusterIDLocation", f, f # "")

\* Mutant: an empty URL is accepted.
OptionMesosStateURLAny(stateURL) == Apply("mesosStateURL", stateURL, TRUE)

OptionMesosStateURL(stateURL)  == Apply("mesosStateURL", stateURL, stateURL # "")

\* After the options, nil ones among them, which change nothing.
NewNodeInfo ==
  /\ built = "options"
  /\ built' = "ok"
  /\ UNCHANGED <<info, applied>>

OptionNext ==
  \/ CheckParameters \/ OptionNoCache \/ NewNodeInfo
  \/ \E t \in Timeouts : OptionDetectIPTimeout(t)
  \/ \E s \in Strings : \/ OptionDetectIP(s) \/ OptionMesosStateURL(s)
                        \/ OptionLeaderDNSRecord(s) \/ OptionClusterIDFile(s)

\* MesosID panics without a client or a URL, DetectIP's context ends at once without
\* a timeout, and the other methods need their file or name: no sequence of options
\* leads NewNodeInfo to such a NodeInfo.
NeverUnusable ==
  built = "ok" =>
    /\ info.client /\ info.detectIPTimeout > 0
    /\ "" \notin {info.mesosStateURL, info.detectIPLocation, info.dnsRecordLeader,
                  info.clusterIDLocation}
=============================================================================

--------------------------- MODULE MCRoundTripper ---------------------------
EXTENDS RoundTripper

Creds(uid, secret) == [uid |-> uid, secret |-> secret, loginEndpoint |-> uid]

MCRSAKeys  == {"key1", "key2"}
MCCAFiles  == {"ca1", "ca2"}
MCIAMFiles == [iam1 |-> Creds("bob", "key1"), iam2 |-> Creds("eve", "ecdsa"),
               iam3 |-> Creds("bob", "")]

TransportOptions ==
  {[nil |-> TRUE]} \cup {[caCertificatePath |-> p] : p \in MCCAFiles \cup {"", "garbage"}}
    \cup {[iamConfigPath |-> p] : p \in DOMAIN MCIAMFiles \cup {"", "missing"}}

RoundTripperOptions ==
  {[nil |-> TRUE]} \cup {[tokenExpire |-> t] : t \in {-1, 0, 1, 48}}
    \cup {[userAgent |-> a] : a \in {"", "agent"}}
    \cup {[readIAMConfig |-> p] : p \in {"iam1", "iam2", "missing"}}
    \cup {Creds("bob", "key1"), Creds("amy", "key2"), Creds("eve", "ecdsa"), Creds("", "key2")}

\* Every list of up to three options, and one transport that is used at length.
UpTo(n, S) == UNION {[1 .. k -> S] : k \in 0 .. n}
MCPrograms ==
  [via : {"NewTransport"}, opts : UpTo(3, TransportOptions), maxCalls : {0}]
    \cup [via : {"NewRoundTripper"}, opts : UpTo(3, RoundTripperOptions), maxCalls : {0}]
    \cup {[via |-> "NewTransport", maxCalls |-> 3,
            opts |-> <<[caCertificatePath |-> "ca1"], [iamConfigPath |-> "iam1"]>>]}
=============================================================================

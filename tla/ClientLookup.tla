---------------------------- MODULE ClientLookup ----------------------------
(***************************************************************************)
(* Every way a reconciler can call FromCr, compared with what the comments *)
(* of client.go say it does: the first source that has an entry provides   *)
(* it, in the order resource, config Secret, namespace, cluster DNS.       *)
(*                                                                         *)
(* The namespace changes between two calls as users label Secrets and      *)
(* Services; each call sees it as it is (the informer cache).              *)
(***************************************************************************)
EXTENDS ClientConfig, Naturals

CONSTANTS
  SecretNames,   \* names of labelled Secrets
  ServiceNames   \* names of labelled Services

\* What List returns: Secrets under different names may hold the same data.
Secrets == {[name |-> n, url |-> d.url, key |-> d.key] : n \in SecretNames, d \in SecretData}

VARIABLES
  cr,            \* the url and apikey of the resource being reconciled
  configSecret,  \* ConfigSecret: set by the instance controller only
  secrets,       \* the labelled Secrets of the namespace
  services,      \* the labelled Services of the namespace
  asked,         \* FromCr has been called in this state of the namespace
  client         \* what it returned; None for an error

vars == <<cr, configSecret, secrets, services, asked, client>>

TypeOK ==
  /\ cr \in CrConfig
  /\ configSecret \in SecretData \cup {None}
  /\ secrets \subseteq Secrets
  /\ \A a, b \in secrets : a.name = b.name => a = b
  /\ services \subseteq ServiceNames
  /\ asked \in BOOLEAN
  /\ client \in Client \cup {None}

Init ==
  /\ cr \in CrConfig
  /\ configSecret = None
  /\ secrets = {}
  /\ services = {}
  /\ asked = FALSE
  /\ client = None

\* A reconciler builds its client; the instance controller may hand over a Secret.
Connect(handed) ==
  /\ asked' = TRUE
  /\ configSecret' = handed
  /\ client' = FromCr(cr, handed, secrets, services)
  /\ UNCHANGED <<cr, secrets, services>>

ForgetCall ==
  /\ asked' = FALSE
  /\ configSecret' = None
  /\ client' = None

\* A user puts a labelled Secret into the namespace, or replaces one.
PutSecret(secret) ==
  /\ secrets' = {x \in secrets : x.name # secret.name} \cup {secret}
  /\ ForgetCall
  /\ UNCHANGED <<cr, services>>

\* A labelled Service comes or goes.
ToggleService(name) ==
  /\ services' = IF name \in services THEN services \ {name} ELSE services \cup {name}
  /\ ForgetCall
  /\ UNCHANGED <<cr, secrets>>

Next ==
  \/ \E handed \in SecretData \cup {None} : Connect(handed)
  \/ \E secret \in Secrets : PutSecret(secret)
  \/ \E name \in ServiceNames : ToggleService(name)

Spec == Init /\ [][Next]_vars

-----------------------------------------------------------------------------
Nothing == [url |-> Absent, key |-> Absent]

InNamespace ==
  IF Cardinality(secrets) # 1 THEN Nothing ELSE CHOOSE x \in secrets : TRUE

\* The first candidate that is there.
FirstOf(candidates) ==
  LET there == {i \in DOMAIN candidates : candidates[i] # Absent}
  IN  IF there = {} THEN Absent
      ELSE candidates[CHOOSE i \in there : \A j \in there : i <= j]

Handed == IF configSecret = None THEN Nothing ELSE configSecret

ExpectedUrl ==
  FirstOf(<<IF cr.url # Empty THEN cr.url ELSE Absent, Handed.url, InNamespace.url,
            IF Cardinality(services) = 1 THEN ServiceUrl ELSE Absent>>)

ExpectedKey ==
  FirstOf(<<IF cr.key # Empty THEN cr.key ELSE Absent, Handed.key, InNamespace.key>>)

\* The API key always comes from the first source that has one ("CustomResource
\* Config has highest precedence", client.go:43), whatever else is lying around,
\* and there is no client without one.
KeyPrecedence ==
  client # None =>
    /\ ExpectedKey \notin {Absent, Empty}
    /\ client.key = IF ExpectedKey \in BlankKeys THEN Empty ELSE ExpectedKey

\* The resource gives only one of url and key, and a Secret that has a url is handed
\* over: whether that url is taken depends on the key (client.go:57).
HalfGiven ==
  /\ configSecret # None
  /\ configSecret.url # Absent
  /\ (cr.url = Empty) # (cr.key = Empty)

\* The url comes from the first source that has one, too; no source at all, a source
\* with an empty entry and ambiguous Secrets or Services are errors and never a guess.
\* That is so for every Folder and Device, to which no Secret is handed over, and for
\* an Instance that gives both url and key or neither.
LookupIsFirstMatch ==
  asked /\ ~HalfGiven =>
    LET complete == ExpectedUrl \in Urls \ BadUrls /\ ExpectedKey \in Keys
    IN  /\ (client # None) = complete
        /\ complete => client.url = ExpectedUrl

=============================================================================

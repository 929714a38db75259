---------------------------- MODULE ClientConfig ----------------------------
(***************************************************************************)
(* How the operator finds the Syncthing API: syncthingclient.FromCr        *)
(* (pkg/syncthing-client/client.go) merges the url and the API key of a    *)
(* custom resource, of a config Secret handed to it, of the labelled       *)
(* Secret of the namespace and, for the url, of the cluster Service.       *)
(*                                                                         *)
(* A source is a record [url, key]; a Secret may lack either (Absent) or   *)
(* have it empty (Empty), and the two are not the same to the code.        *)
(***************************************************************************)
EXTENDS FiniteSets

CONSTANTS
  Urls, Keys,   \* urls and API keys as texts; Urls includes unparsable ones
  ServiceUrl,   \* "http://<service>:8384"
  BadUrls,      \* texts url.Parse rejects
  BlankKeys,    \* texts strings.Trim makes empty
  Empty,        \* ""
  Absent,       \* no such entry in Secret.Data; "not found yet" in FromCr
  None          \* nil

ASSUME ConfigTexts ==
  /\ ServiceUrl \in Urls
  /\ BadUrls \subseteq Urls \ {ServiceUrl}
  /\ BlankKeys \subseteq Keys
  /\ {Empty, Absent, None} \cap (Urls \cup Keys) = {}
  /\ Empty # Absent

\* StClientConfig of a custom resource: never absent, "" by default.
CrConfig == [url : Urls \cup {Empty}, key : Keys \cup {Empty}]

\* What FromCr returns if it is not an error.
Client == [url : Urls, key : Keys \cup {Empty}]

ASSUME NoneIsNoClient == None \notin Client

\* The entries of a Secret FromCr looks at.
SecretData == [url : Urls \cup {Empty, Absent}, key : Keys \cup {Empty, Absent}]

-----------------------------------------------------------------------------
\* What FromCr has after looking into the resource itself.
FromResource(cr) ==
  [url |-> IF cr.url # Empty THEN cr.url ELSE Absent,
   key |-> IF cr.key # Empty THEN cr.key ELSE Absent]

\* Wrong: the url of the config Secret is taken whatever was found before.
FromConfigSecretAnyway(known, secret) ==
  IF secret = None THEN known
  ELSE [url |-> IF secret.url # Absent THEN secret.url ELSE known.url,
        key |-> IF known.key # Absent THEN known.key ELSE secret.key]

\* The config Secret.  Both entries are taken only while there is no key, and the
\* url then even replaces one that was found before.
FromConfigSecret(known, secret) ==
  IF secret = None \/ known.key # Absent THEN known
  ELSE [url |-> IF secret.url # Absent THEN secret.url ELSE known.url,
        key |-> secret.key]

\* Wrong: an entry of the namespace replaces what was found before.
FromNamespaceAnyway(known, secrets) ==
  IF Cardinality(secrets) # 1 THEN known
  ELSE LET secret == CHOOSE x \in secrets : TRUE
       IN  [url |-> IF secret.url # Absent THEN secret.url ELSE known.url,
            key |-> IF secret.key # Absent THEN secret.key ELSE known.key]

\* The labelled Secret of the namespace, if something is missing and there is
\* exactly one (FindSecretByLabel), fills in what is missing.
FromNamespace(known, secrets) ==
  IF (known.url # Absent /\ known.key # Absent) \/ Cardinality(secrets) # 1
    THEN known
    ELSE LET secret == CHOOSE x \in secrets : TRUE
         IN  [url |-> IF known.url # Absent THEN known.url ELSE secret.url,
              key |-> IF known.key # Absent THEN known.key ELSE secret.key]

\* Cluster DNS, if there is no url yet and exactly one labelled Service.
FromService(known, services) ==
  IF known.url = Absent /\ Cardinality(services) = 1
    THEN [known EXCEPT !.url = ServiceUrl] ELSE known

\* Wrong: an empty url counts as a url.
BuildUnchecked(found) ==
  IF found.url \in {Absent} \cup BadUrls \/ found.key \in {Absent, Empty}
    THEN None
    ELSE [url |-> found.url,
          key |-> IF found.key \in BlankKeys THEN Empty ELSE found.key]

\* The client, or None for an error.  The key is trimmed after it was found not to
\* be empty.
Build(found) ==
  IF found.url \in {Absent, Empty} \cup BadUrls \/ found.key \in {Absent, Empty}
    THEN None
    ELSE [url |-> found.url,
          key |-> IF found.key \in BlankKeys THEN Empty ELSE found.key]

FromCr(cr, configSecret, secrets, services) ==
  LET own       == FromResource(cr)
      handed    == FromConfigSecret(own, configSecret)
      namespace == FromNamespace(handed, secrets)
  IN  Build(FromService(namespace, services))

=============================================================================

----------------------------- MODULE MCInstance -----------------------------
(***************************************************************************)
(* Values for model-checking InstanceController.                           *)
(***************************************************************************)
EXTENDS InstanceController, TLC

CONSTANTS
  inst,                   \* the Instance
  s1,                     \* unused server of module Controller
  u1, svc, broken,        \* urls
  k1, k2, blank,          \* API keys
  v1, latest,             \* images
  config, config_root, data_root,  \* volumes
  tls_config

Limits(user, edit, fault, crash) ==
  [kind \in Disturbances |->
    CASE kind = "user"  -> user
      [] kind = "edit"  -> edit
      [] kind = "fault" -> fault
      [] kind = "misread" -> 0
      [] kind = "crash" -> crash]

Limits1000 == Limits(1, 0, 0, 0)
Limits2000 == Limits(2, 0, 0, 0)
Limits2111 == Limits(2, 1, 1, 1)
Limits2211 == Limits(2, 2, 1, 1)

InstanceCr(tls, url, key, image, volume, special) ==
  [enabled |-> TRUE, tls |-> tls, url |-> url, key |-> key, image |-> image,
   config |-> volume, data |-> Empty, more |-> {}, trueNas |-> special,
   nodeport |-> special]

First == InstanceCr(TRUE, u1, k1, v1, Empty, FALSE)

\* Everything in the resource; the same with another key, more to do and its image
\* left to the default; the first one, no longer managed.
FullSpecs ==
  {First, InstanceCr(TRUE, u1, k2, Empty, config, TRUE), [First EXCEPT !.enabled = FALSE]}

\* Everything in the resource, or nothing: then the certificate and the key come from
\* a Secret of the user and the url from the cluster Service, or they do not come.
OpenSpecs == {First, InstanceCr(FALSE, Empty, Empty, Empty, config, TRUE)}

\* Nothing but the key changes.
KeySpecs == {[First EXCEPT !.key = key] : key \in {k1, k2}}

\* Certificate and key in a Secret of the user, which names no url.
UserSecret(key) ==
  [name |-> "user", sync |-> TRUE, config |-> TRUE, url |-> Absent, key |-> key]

\* The user changes the key, or takes the Secret away from the API clients.
UserSecretsOverTime ==
  {UserSecret(k1), UserSecret(k2), [UserSecret(k1) EXCEPT !.config = FALSE]}

\* config/samples/v1_instance_full.yaml: enable_instance, apikey, tls_key and tls_crt,
\* but no url, which the sample keeps for a Syncthing the operator does not manage.
SampleSpecs ==
  {[InstanceCr(TRUE, Empty, k1, latest, config_root, FALSE) EXCEPT !.data = data_root]}

=============================================================================

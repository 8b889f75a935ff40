---------------------------- MODULE ConnectionSetup ----------------------------
(***************************************************************************)
(* From the host's connection form to a client that can dial: the pasted   *)
(* properties (props.go), NormalizeProfile and the required combinations   *)
(* (types.go), the options of the client with TLS, SASL and proxy          *)
(* (client.go, kerberos.go, oauth.go, zk.go), and connection/test, which   *)
(* builds its own client (service.go, diag.go).                            *)
(*                                                                         *)
(* A setting with a few values is a field of the form; of a free text only *)
(* its presence matters, or its shape: then a second name says that it has *)
(* the shape ("srUrl" and "srHttp", "principal" and "realm").              *)
(***************************************************************************)
EXTENDS Naturals, FiniteSets

Protocols  == {"PLAINTEXT", "SSL", "SASL_PLAINTEXT", "SASL_SSL"}
Mechanisms == {"PLAIN", "SCRAM-SHA-256", "SCRAM-SHA-512", "GSSAPI", "OAUTHBEARER"}
Registries == {"none", "confluent", "aws_glue", ""}

\* Settings that are present or not; the secrets are among them.
Fields == {"bootstrap", "zk", "username", "password", "ca", "cert", "key",
           "principal", "realm", "keytab", "krb5",
           "mskRegion", "mskAccessKey", "mskSecretKey", "mskSession", "staticToken",
           "srUrl", "srHttp", "glueRegion", "glueName", "glueAccessKey", "glueSecretKey"}

\* The fields of the connection form, and the pasted keys ("" is absent or
\* empty).  jaas holds what sasl.jaas.config gives a value to.
Form(s, pr, m, ts, r, ga, present) ==
  [source |-> s, protocol |-> pr, mechanism |-> m, tokenSource |-> ts, registry |-> r, glueAuth |-> ga,
   skipVerify |-> FALSE, has |-> present]
Paste(pr, m, j, sv, present) == [protocol |-> pr, mechanism |-> m, jaas |-> j, skipVerify |-> sv, has |-> present]
NoPaste == Paste("", "", {}, "", {})

Target(e, p) == [endpoint |-> e, proxy |-> p]  \* runtime.host:port, and runtime.proxy

-----------------------------------------------------------------------------
\* The pasted properties.

\* The text with a second name is replaced with its shape.
Over(has, pasted, text, shape) == IF text \in pasted THEN (has \ {text, shape}) \cup (pasted \cap {text, shape}) ELSE has

\* mapJAASConfig: the mechanism tells which fields are read.
mapJAASConfig(f, jaas) ==
  CASE f.mechanism = "GSSAPI" ->
         [f EXCEPT !.has = Over(@, jaas, "principal", "realm") \cup (jaas \cap {"keytab"})]
    [] f.mechanism = "OAUTHBEARER" -> f
    [] OTHER -> [f EXCEPT !.has = @ \cup (jaas \cap {"username", "password"})]

\* mapProperty, for every key but sasl.jaas.config: a value that is not known
\* is ignored.
mapProperties(f, p) ==
  [f EXCEPT !.protocol   = IF p.protocol \in Protocols THEN p.protocol ELSE @,
            !.mechanism  = IF p.mechanism \in Mechanisms THEN p.mechanism ELSE @,
            !.skipVerify = IF p.skipVerify = "" THEN @ ELSE p.skipVerify = "none",
            !.registry   = IF "srUrl" \in p.has THEN "confluent" ELSE @,
            !.has        = Over(@, p.has, "srUrl", "srHttp")
                             \cup (p.has \cap {"bootstrap", "ca", "cert", "key"})]

\* Mutant: in the order of the keys, sasl.jaas.config before sasl.mechanism.
applyInKeyOrder(f, p) == mapProperties(mapJAASConfig(f, p.jaas), p)

\* The credentials come last: they depend on the mechanism.
applyPropertiesImport(f, p) == mapJAASConfig(mapProperties(f, p), p.jaas)

-----------------------------------------------------------------------------
\* The profile.

NormalizeProfile(f) ==
  [f EXCEPT !.source      = IF @ = "zookeeper" THEN @ ELSE "bootstrap",
            !.protocol    = IF @ \in Protocols THEN @ ELSE "PLAINTEXT",
            !.mechanism   = IF @ \in Mechanisms THEN @ ELSE "",
            !.tokenSource = IF @ = "" THEN "msk_iam" ELSE IF @ \in {"msk_iam", "static_token"} THEN @ ELSE "",
            !.registry    = IF @ \in Registries THEN @ ELSE "none"]

hasSASL(f) == f.protocol \in {"SASL_PLAINTEXT", "SASL_SSL"}
hasTLS(f)  == f.protocol \in {"SSL", "SASL_SSL"}

Validate(f) ==
  /\ (IF f.source = "zookeeper" THEN "zk" ELSE "bootstrap") \in f.has
  /\ hasSASL(f) => f.mechanism # ""

Together(f, a, b) == a \in f.has <=> b \in f.has

RegistryComplete(f) ==
  CASE f.registry = "confluent" -> {"srUrl", "srHttp"} \subseteq f.has
    [] f.registry = "aws_glue"  -> /\ {"glueRegion", "glueName"} \subseteq f.has
                                   /\ f.glueAuth = "static" => {"glueAccessKey", "glueSecretKey"} \subseteq f.has
    [] OTHER -> TRUE

OauthComplete(f) ==
  /\ f.protocol = "SASL_SSL"
  /\ \/ /\ f.tokenSource = "msk_iam"
        /\ "mskRegion" \in f.has
        /\ Together(f, "mskAccessKey", "mskSecretKey")
        /\ "mskSession" \in f.has => "mskAccessKey" \in f.has
     \/ f.tokenSource = "static_token" /\ "staticToken" \in f.has

\* Mutant: a certificate without its key is left to the dial.
validateWithoutPair(f) ==
  /\ RegistryComplete(f)
  /\ hasSASL(f) => CASE f.mechanism = "GSSAPI" -> {"principal", "keytab"} \subseteq f.has
                     [] f.mechanism = "OAUTHBEARER" -> OauthComplete(f)
                     [] OTHER -> {"username", "password"} \subseteq f.has

validateRequiredCombination(f) ==
  /\ RegistryComplete(f)
  /\ Together(f, "cert", "key")
  /\ hasSASL(f) => CASE f.mechanism = "GSSAPI" -> {"principal", "keytab"} \subseteq f.has
                     [] f.mechanism = "OAUTHBEARER" -> OauthComplete(f)
                     [] OTHER -> {"username", "password"} \subseteq f.has

\* NewProfileFromLifecycle: what Connect and Test make of the parameters, and
\* whether they accept it.
Profile(f, p)  == NormalizeProfile(applyPropertiesImport(f, p))
Accepted(f, p) == Validate(Profile(f, p)) /\ validateRequiredCombination(Profile(f, p))

-----------------------------------------------------------------------------
\* The client.  A step gives the set of its errors; env is what the machine and
\* the network provide.

\* Selecting ZooKeeper leaves the bootstrap list and the endpoint unused.
seedBrokers(f, t) ==
  IF f.source = "zookeeper" THEN "none"
  ELSE IF t.endpoint /\ (t.proxy = "none" \/ "bootstrap" \notin f.has) THEN "runtime"
  ELSE IF "bootstrap" \in f.has THEN "bootstrap" ELSE "none"

Seeds(f, t, env) == IF f.source = "zookeeper" THEN IF "zk" \in env THEN "zk" ELSE "none" ELSE seedBrokers(f, t)

\* zkSeedsForTest, which discovers the brokers for every client.
SeedErrors(f, t, env) ==
  IF f.source = "zookeeper" THEN (IF "zk" \in env THEN {} ELSE {"ZooKeeper unreachable"})
  ELSE IF seedBrokers(f, t) = "none" THEN {"no seeds"} ELSE {}

buildTLSConfig(f, env) ==
  (IF "ca" \in f.has /\ "pem" \notin env THEN {"bad PEM"} ELSE {})
  \cup (IF {"cert", "key"} \cap f.has = {} THEN {}
        ELSE IF ~({"cert", "key"} \subseteq f.has) THEN {"half a key pair"}
        ELSE IF "pem" \notin env THEN {"bad PEM"} ELSE {})

\* buildKerberosParams and buildKerberosSASLMechanism.  The machine has "krb5" if
\* the file that the form names, or else a default one, can be read.
KerberosErrors(f, env) ==
  IF "principal" \notin f.has THEN {"no principal"}
  ELSE IF "realm" \notin f.has THEN {"principal not user@REALM"}
  ELSE IF "keytab" \notin f.has THEN {"no keytab path"}
  ELSE IF "keytab" \notin env THEN {"keytab unreadable"}
  ELSE IF "krb5" \in env THEN {} ELSE IF "krb5" \in f.has THEN {"krb5.conf unreadable"} ELSE {"no krb5.conf"}

\* newOauthTokenProvider, and Token when a session asks for one.
OauthErrors(f) ==
  CASE f.tokenSource = "static_token" -> IF "staticToken" \in f.has THEN {} ELSE {"no token"}
    [] f.tokenSource = "msk_iam" -> (IF Together(f, "mskAccessKey", "mskSecretKey") THEN {} ELSE {"half the AWS keys"})
                                    \cup (IF "mskRegion" \in f.has THEN {} ELSE {"no region"})
    [] OTHER -> {"no token source"}

buildSASLOpt(f, env) ==
  CASE f.mechanism = "GSSAPI"      -> KerberosErrors(f, env)
    [] f.mechanism = "OAUTHBEARER" -> OauthErrors(f)
    [] f.mechanism = ""            -> {"no mechanism"}
    [] OTHER                       -> {}

runtimeProxyDialer(t) == IF t.proxy = "socks5" THEN {} ELSE {"proxy unusable"}

\* The name the certificate is checked against: the logical broker behind a
\* forwarded port, otherwise the one that is dialled.
ServerName(f, t, seeds) ==
  IF t.proxy = "none" /\ t.endpoint THEN IF "bootstrap" \in f.has THEN "bootstrap" ELSE seeds ELSE "dialled"

\* Mutant: the TLS option is there for the probe as well.
DialTLSAlways(f, t, probe) == hasTLS(f) /\ t.proxy = "none"

DialTLS(f, t, probe) == hasTLS(f) /\ t.proxy = "none" /\ ~probe

\* buildClientOptsWithSeeds and what the callers add: a dialer of the proxy, or
\* of the probe of connection/test, does TLS itself.
Client(f, t, env, probe) ==
  LET dialer == IF t.proxy # "none" THEN "proxy" ELSE IF probe THEN "probe" ELSE "none"
  IN [errors |-> SeedErrors(f, t, env)
                   \cup (IF hasTLS(f) THEN buildTLSConfig(f, env) ELSE {})
                   \cup (IF hasSASL(f) THEN buildSASLOpt(f, env) ELSE {})
                   \cup (IF dialer = "proxy" THEN runtimeProxyDialer(t) ELSE {})
                   \cup (IF dialer # "none" /\ DialTLS(f, t, probe) THEN {"dialer and TLS option"} ELSE {}),
      seeds  |-> Seeds(f, t, env),
      layers |-> (IF DialTLS(f, t, probe) THEN 1 ELSE 0) + (IF dialer # "none" /\ hasTLS(f) THEN 1 ELSE 0),
      name   |-> IF hasTLS(f) THEN ServerName(f, t, Seeds(f, t, env)) ELSE "plain"]

\* The registry.  Connections from before the switch have none of its values:
\* then the settings that are filled in tell which registries there are.
srEnabled(f)   == f.registry = "confluent" \/ (f.registry = "" /\ "srUrl" \in f.has)
glueEnabled(f) == f.registry = "aws_glue" \/ (f.registry = "" /\ {"glueRegion", "glueName"} \subseteq f.has)

schemaProviderConfigured(f) ==
  IF srEnabled(f) THEN IF glueEnabled(f) THEN "both" ELSE "confluent"
  ELSE IF glueEnabled(f) THEN "aws_glue" ELSE "none"

\* asked is the registry a request names; most name none ("").  A name is taken
\* as it is, unless the switch says otherwise.
resolveSchemaProvider(f, asked) ==
  IF asked = "" THEN schemaProviderConfigured(f)
  ELSE IF f.registry \in {"", asked} THEN asked ELSE "refused"

newSchemaRegistryClient(f) ==
  IF "srUrl" \notin f.has THEN {"no registry URL"} ELSE IF "srHttp" \notin f.has THEN {"registry URL without scheme"} ELSE {}

newGlueClient(f) ==
  (IF {"glueRegion", "glueName"} \subseteq f.has THEN {} ELSE {"no registry name"})
  \cup CASE f.glueAuth \in {"", "default"} -> {}
         [] f.glueAuth = "static" -> IF {"glueAccessKey", "glueSecretKey"} \subseteq f.has THEN {} ELSE {"no static keys"}
         [] OTHER -> {"unknown auth mode"}

\* Without a registry there is nothing to set up.
RegistryErrors(f, asked) ==
  LET provider == resolveSchemaProvider(f, asked)
  IN CASE provider = "confluent" -> newSchemaRegistryClient(f)
       [] provider = "aws_glue"  -> newGlueClient(f)
       [] provider = "both"      -> {"two registries"}
       [] provider = "refused"   -> {"registry not enabled"}
       [] OTHER                  -> {}

\* Errors that no combination of filled-in fields can rule out: files,
\* certificates and hosts, and texts whose shape is looked at when they are used.
Environment == {"ZooKeeper unreachable", "bad PEM", "keytab unreadable", "no krb5.conf", "krb5.conf unreadable",
                "proxy unusable"}
Shapes      == {"principal not user@REALM", "unknown auth mode"}

\* What validateRequiredCombination leaves to the first request that uses the
\* registry of a connection without the switch.
Unswitched == {"two registries", "no static keys", "registry URL without scheme"}

-----------------------------------------------------------------------------
\* Properties of one setup.

\* validateRequiredCombination: parameters that Connect accepts can fail later
\* only for what the machine, the network or the shape of a text decides, never
\* because a field is missing or half a pair is given.  So it is for the client,
\* and for every registry that the connection has; a connection without the
\* switch for its registry is the exception, with the three errors of Unswitched.
AcceptedIsComplete(f, p, t, env) ==
  Accepted(f, p) =>
    LET q == Profile(f, p)
        named == {r \in {"confluent", "aws_glue"} : schemaProviderConfigured(q) \in {r, "both"}}
    IN /\ Client(q, t, env, FALSE).errors \subseteq Environment \cup Shapes
       /\ \A asked \in {""} \cup named :
            RegistryErrors(q, asked) \subseteq Shapes \cup (IF q.registry = "" THEN Unswitched ELSE {})

\* Service.Test builds its client differently (a probing dialer, no check of
\* the seeds): it still finds the errors, the seeds and the certificate name of
\* the client that Connect's connection gets, and either has one layer of TLS
\* when the protocol has TLS and none otherwise.
TestIsFaithful(f, p, t, env) ==
  Accepted(f, p) => LET q == Profile(f, p)
                        tested == Client(q, t, env, TRUE)
                        used   == Client(q, t, env, FALSE)
                    IN /\ tested = used
                       /\ used.layers = IF hasTLS(q) THEN 1 ELSE 0

\* applyPropertiesImport: a pasted login (protocol, mechanism and the
\* credentials of that mechanism) is accepted whatever login the form has, if
\* the form is acceptable without SASL.
LoginComplete(p) ==
  /\ p.protocol \in {"SASL_PLAINTEXT", "SASL_SSL"}
  /\ \/ p.mechanism = "GSSAPI" /\ {"principal", "realm", "keytab"} \subseteq p.jaas
     \/ p.mechanism \in {"PLAIN", "SCRAM-SHA-256", "SCRAM-SHA-512"} /\ {"username", "password"} \subseteq p.jaas

PastedLoginAccepted(f, p) ==
  LoginComplete(p) /\ Accepted([f EXCEPT !.protocol = "PLAINTEXT"], [p EXCEPT !.protocol = "", !.jaas = {}]) => Accepted(f, p)
=============================================================================

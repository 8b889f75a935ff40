-------------------------------- MODULE MCRules --------------------------------
(***************************************************************************)
(* The rules without state, for every input of a bounded size.  The inputs *)
(* of a connection vary one group of settings at a time (the rules of one  *)
(* group do not read the others), with every paste where pasting matters.  *)
(***************************************************************************)
EXTENDS ConnectionSetup, MessageRules

CONSTANTS Lines,    \* distinct lines of a schema
          MaxLines, \* bound: lines of a schema
          MaxTs     \* bound: time stamps

ASSUME RulesAssumption == MaxTs \in Nat /\ MaxLines \in Nat

VARIABLES given,  \* the input: its kind, and what the rule is given
          done

TokenSources == {"", "msk_iam", "static_token", "other"}
Direct  == Target(FALSE, "none")
Machine == {"zk", "pem", "keytab", "krb5"}

\* Forms and pastes by the group of settings that varies.
LoginForm(pr, m, h) == Form("bootstrap", pr, m, "", "", "", {"bootstrap"} \cup h)
OauthForm(pr, ts, h) == Form("bootstrap", pr, "OAUTHBEARER", ts, "", "", {"bootstrap"} \cup h)
RegistryForm(r, ga, h) == Form("bootstrap", "PLAINTEXT", "", "", r, ga, {"bootstrap"} \cup h)
TransportForm(s, pr, h) == Form(s, pr, "PLAIN", "", "", "", {"username", "password"} \cup h)
LoginPaste(pr, m, j) == Paste(pr, m, j, "", {})
OtherPaste(sv, h) == Paste("", "", {}, sv, h)

\* The values each group takes.
FormProtocols    == Protocols \cup {"other"}
LoginMechanisms  == {"", "other", "PLAIN", "GSSAPI", "OAUTHBEARER"}
LoginFields      == {"username", "password", "principal", "realm", "keytab"}
GlueAuths        == {"", "static", "profile"}
RegistryFields   == {"srUrl", "srHttp", "glueRegion", "glueName", "glueAccessKey", "glueSecretKey"}
Sources          == {"", "zookeeper"}
TransportFields  == {"bootstrap", "zk", "cert", "key", "ca"}
PastedMechanisms == {"", "other", "PLAIN", "GSSAPI"}
PastedProtocols  == {"", "other", "SASL_SSL"}
Credentials      == {{}, {"username"}, {"username", "password"}, {"principal", "keytab"}, {"principal", "realm", "keytab"}}

LoginForms == {LoginForm(pr, m, h) : pr \in FormProtocols, m \in LoginMechanisms, h \in SUBSET LoginFields}
OauthForms == {OauthForm(pr, ts, h) :
                 pr \in {"SASL_PLAINTEXT", "SASL_SSL"}, ts \in TokenSources,
                 h \in SUBSET {"mskRegion", "mskAccessKey", "mskSecretKey", "mskSession", "staticToken"}}
RegistryForms == {RegistryForm(r, ga, h) : r \in Registries, ga \in GlueAuths, h \in SUBSET RegistryFields}
TransportForms == {TransportForm(s, pr, h) : s \in Sources, pr \in Protocols, h \in SUBSET TransportFields}

LoginPastes == {LoginPaste(pr, m, j) : pr \in PastedProtocols, m \in PastedMechanisms, j \in Credentials}
OtherPastes == {OtherPaste(sv, h) : sv \in {"none", "https"}, h \in SUBSET {"bootstrap", "srUrl", "srHttp", "cert", "key"}}

Setup(f, p, t, env) == [kind |-> "setup", form |-> f, paste |-> p, target |-> t, env |-> env]

RulesInit ==
  /\ done = FALSE
  /\ \/ \E f \in LoginForms, p \in LoginPastes : given = Setup(f, p, Direct, Machine)
     \/ \E f \in OauthForms : given = Setup(f, NoPaste, Direct, Machine)
     \/ \E f \in RegistryForms, p \in OtherPastes : given = Setup(f, p, Direct, Machine)
     \/ \E f \in TransportForms, e \in BOOLEAN, x \in {"none", "socks5", "http"}, env \in SUBSET {"zk", "pem"} :
          given = Setup(f, NoPaste, Target(e, x), env)
     \/ \E a, b \in BoundedSeq(Lines, MaxLines) : given = [kind |-> "diff", old |-> a, new |-> b]
     \/ \E s \in BoundedSeq(0 .. MaxTs, 3) \ {<< >>}, n \in 0 .. 3 : given = [kind |-> "digest", times |-> s, limit |-> n]

RulesNext == ~done /\ done' = TRUE /\ UNCHANGED given
RulesSpec == RulesInit /\ [][RulesNext]_<<given, done>>

\* validateRequiredCombination: what Connect accepts is complete.
AcceptedComplete == done /\ given.kind = "setup" => AcceptedIsComplete(given.form, given.paste, given.target, given.env)

\* Service.Test sees what the connection will see.
TestFaithful == done /\ given.kind = "setup" => TestIsFaithful(given.form, given.paste, given.target, given.env)

\* applyPropertiesImport: a complete pasted login is accepted.
PasteAccepted == done /\ given.kind = "setup" => PastedLoginAccepted(given.form, given.paste)

\* schemaTextDiff: the hunks are a patch from the old version to the new one,
\* and the lines they leave alone are a longest common subsequence.
DiffIsMinimalPatch ==
  done /\ given.kind = "diff" =>
    LET ops == DiffOps(given.old, given.new)
    IN /\ Patched(given.old, Hunks(ops)) = given.new
       /\ Unchanged(ops) = Max({Len(s) : s \in Sublists(given.old) \cap Sublists(given.new)})

\* buildTimeHistogram and topGroups: every time stamp is counted, in the one
\* bucket whose bounds hold it, there are at most MaxBuckets buckets, and no
\* group that is cut off is larger than one that is kept.
DigestCountsAll ==
  done /\ given.kind = "digest" =>
    LET h == buildTimeHistogram(given.times)
        counts == [t \in ToSet(given.times) |-> Cardinality({k \in DOMAIN given.times : given.times[k] = t})]
        top == topGroups(counts, given.limit)
    IN /\ Len(h) <= MaxBuckets
       /\ \A i \in DOMAIN h : h[i].count = Within(given.times, h[i])
       /\ \A k \in DOMAIN given.times : \E i \in DOMAIN h : {j \in DOMAIN h : Holds(h[j], given.times[k])} = {i}
       /\ Cardinality(top) = Min({given.limit, Cardinality(DOMAIN counts)})
       /\ \A g \in top, d \in DOMAIN counts \ top : counts[g] >= counts[d]
=============================================================================

----------------------------- MODULE ConfigFormat -----------------------------
(* The configuration files, which the generator writes and the exporter reads, *)
(* and what both do with their content (config.go): auths and walk parameters, *)
(* with their defaults, validation and the fields that are left out when       *)
(* written.  A user name or password is <<>>, a text, or a reference to an     *)
(* environment variable.                                                       *)
EXTENDS Integers, Sequences, ListOps

CONSTANT
  Scenarios \* what the two programs start with: the MIB tree as NetSNMP gives it,
            \* generator.yml (generator), files, the environment (env), whether
            \* it is expanded, and the requests the exporter is sent
VARIABLES
  scenario, \* constant
  files     \* the configuration files; the generator writes the last

\* What a file may be; a torn one is taken not to parse.
Missing == [state |-> "missing"]
Torn == [state |-> "torn"]
Document(auths, modules) == [state |-> "complete", auths |-> auths, modules |-> modules]
NoEntries == [x \in {} |-> x]
EmptyFile == Document(NoEntries, NoEntries)
IsDocument(file) ==
  /\ {"auths", "modules"} \subseteq DOMAIN file
  /\ \A m \in DOMAIN file.modules : "params" \in DOMAIN file.modules[m]
ASSUME ConfigFormatAssumption ==
  \A s \in Scenarios :
    /\ IsList(s.files)
    /\ \A k \in DOMAIN s.files : s.files[k] \in {Missing, Torn} \/ IsDocument(s.files[k])
Put(f, k, v) == [x \in DOMAIN f \cup {k} |-> IF x = k THEN v ELSE f[x]]
Without(f, k) == [x \in DOMAIN f \ {k} |-> f[x]]

Nothing == <<>>
Literal(text) == <<"text", text>>
Variable(name) == <<"variable", name>>

\* What is given, and for the rest what is there already.
Over(given, base) == [f \in DOMAIN base |-> IF f \in DOMAIN given THEN given[f] ELSE base[f]]

DefaultAuth ==
  [ community |-> "public", security_level |-> "noAuthNoPriv", username |-> Nothing,
    password |-> Nothing, auth_protocol |-> "MD5", priv_protocol |-> "DES",
    priv_password |-> Nothing, context_name |-> "", version |-> 2 ]
DefaultWalkParams ==
  [ max_repetitions |-> 25, retries |-> 3, timeout |-> 5,
    use_unconnected_udp_socket |-> FALSE, allow_nonincreasing_oids |-> FALSE ]

AuthProtocols == {"MD5", "SHA", "SHA224", "SHA256", "SHA384", "SHA512"}
PrivProtocols == {"DES", "AES", "AES192", "AES192C", "AES256", "AES256C"}

ValidPriv(auth) == auth.priv_password # Nothing /\ auth.priv_protocol \in PrivProtocols
ValidPassword(auth) == auth.password # Nothing /\ auth.auth_protocol \in AuthProtocols
\* Mutant: authPriv does not fall through to the requirements of authNoPriv.
ValidLevelNoFallthrough(auth) ==
  CASE auth.security_level = "authPriv" -> ValidPriv(auth)
    [] auth.security_level = "authNoPriv" -> ValidPassword(auth)
    [] auth.security_level = "noAuthNoPriv" -> auth.username # Nothing
    [] OTHER -> FALSE
\* Auth.UnmarshalYAML; each security level requires what the next one does.
ValidLevel(auth) ==
  /\ auth.security_level \in {"authPriv", "authNoPriv", "noAuthNoPriv"}
  /\ auth.security_level = "authPriv" => ValidPriv(auth)
  /\ auth.security_level \in {"authPriv", "authNoPriv"} => ValidPassword(auth)
  /\ auth.username # Nothing
ValidAuth(auth) == auth.version \in 1..3 /\ (auth.version = 3 => ValidLevel(auth))

\* Mutant: secrets are written the way /config shows them.
ShownSecret(secret) == IF secret = Nothing THEN Nothing ELSE Literal("<secret>")
\* The generator sets DoNotHideSecrets while it writes.
WrittenSecret(secret) == secret

\* omitempty: a field that is zero is not written.  Retries are a pointer, nil
\* when they were not given.
Nil == -1
ZeroAuth ==
  [ community |-> "", security_level |-> "", username |-> Nothing, password |-> Nothing,
    auth_protocol |-> "", priv_protocol |-> "", priv_password |-> Nothing,
    context_name |-> "", version |-> 0 ]
ZeroWalkParams ==
  [ max_repetitions |-> 0, retries |-> Nil, timeout |-> 0,
    use_unconnected_udp_socket |-> FALSE, allow_nonincreasing_oids |-> FALSE ]
OmitEmpty(fields, zero) == [f \in {f \in DOMAIN zero : fields[f] # zero[f]} |-> fields[f]]
WrittenAuth(auth) ==
  OmitEmpty([auth EXCEPT !.password = WrittenSecret(@), !.priv_password = WrittenSecret(@)], ZeroAuth)
WrittenWalkParams(params) == OmitEmpty(params, ZeroWalkParams)
=============================================================================

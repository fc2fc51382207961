-------------------------- MODULE ConfiguredClients --------------------------
(***************************************************************************)
(* How the Hub gets its credentials at the start, and what they identify:  *)
(* client_token, configured_clients and the constructor and the lookup of  *)
(* BearerAuth (auth.py), in the order in which create_app calls them, and  *)
(* the signing key that runtime_lifespan reads later (server.py,           *)
(* provenance.py).                                                         *)
(*                                                                         *)
(* A credential is an opaque text; its digest stands for it.  Files and    *)
(* fields are abstracted to whether they are well formed.                  *)
(*                                                                         *)
(* Operators named Faulty... are plausible defects: the specification does *)
(* not use them, they serve to test that the properties notice.            *)
(***************************************************************************)
EXTENDS Naturals, Sequences, Functions

CONSTANTS Names,       \* names of environment variables
          TokenName,   \* FLAMORIS_MCP_HUB_CLIENT_TOKEN
          GoodNames,   \* those an entry of the clients file may refer to
          Texts,       \* values of environment variables
          Unset,       \* no value
          GoodTokens,  \* those that are Bearer tokens of 32 to 512 characters
          Subjects, GoodSubjects,
          Anonymous,   \* the identity of the token that all legacy clients share
          Nobody,      \* no match
          MaxClients,  \* 64 in the code
          Files        \* what the clients file may hold

\* One entry of the clients file.
Entry == [subject : Subjects, token_env : Names]

ASSUME ClientsAssumption ==
  /\ TokenName \in Names /\ GoodNames \subseteq Names
  /\ Unset \in Texts \ GoodTokens /\ GoodTokens \subseteq Texts
  /\ GoodSubjects \subseteq Subjects /\ Anonymous \notin Subjects
  /\ Nobody \notin Subjects /\ Nobody # Anonymous
  /\ MaxClients \in Nat
  /\ \A f \in Files : /\ f.configured \in BOOLEAN /\ f.valid \in BOOLEAN
                      /\ f.entries \in Seq(Entry)

VARIABLES
  stage,        \* where the start of the Hub is
  env,          \* the environment
  file,         \* the clients file: configured, valid apart from its entries, entries
  signers,      \* the variables that enabled upstreams name for their signing secret
  token,        \* client_token()
  clients,      \* what configured_clients has collected
  credentials,  \* BearerAuth's _credentials
  keys          \* the keys of the connections' signers

vars == <<stage, env, file, signers, token, clients, credentials, keys>>

Stages == {"token", "file", "entries", "security", "auth", "lifespan", "up", "refused"}

\* The variables are set in any way, and any may be named as a signing secret.
Init ==
  /\ stage = "token" /\ env \in [Names -> Texts] /\ file \in Files
  /\ signers \in SUBSET GoodNames
  /\ token = Unset /\ clients = <<>> /\ credentials = <<>> /\ keys = {}

Refuse == stage' = "refused" /\ UNCHANGED <<token, clients, credentials, keys>>

\* client_token
ReadToken ==
  /\ stage = "token"
  /\ \/ env[TokenName] \notin GoodTokens /\ Refuse
     \/ /\ env[TokenName] \in GoodTokens
        /\ token' = env[TokenName] /\ stage' = "file"
        /\ UNCHANGED <<clients, credentials, keys>>
  /\ UNCHANGED <<env, file, signers>>

\* configured_clients, up to its loop: the file is there, not too long, of the right form,
\* and has at least one entry and not too many.
ReadFile ==
  /\ stage = "file"
  /\ \/ /\ ~file.configured
        /\ stage' = "security" /\ UNCHANGED <<token, clients, credentials, keys>>
     \/ /\ file.configured /\ file.valid /\ Len(file.entries) \in 1..MaxClients
        /\ stage' = "entries" /\ UNCHANGED <<token, clients, credentials, keys>>
     \/ /\ file.configured /\ ~(file.valid /\ Len(file.entries) \in 1..MaxClients)
        /\ Refuse
  /\ UNCHANGED <<env, file, signers>>

FaultyWellFormed(e) == e.token_env \in GoodNames /\ e.subject \in GoodSubjects

\* A reference and a subject of the right form, and a token in the variable.
WellFormed(e) == /\ e.token_env \in GoodNames /\ e.subject \in GoodSubjects
                 /\ env[e.token_env] \in GoodTokens

FaultySeen(e) == \E i \in 1..Len(clients) : file.entries[i].token_env = e.token_env

\* The subject, the credential or the reference of e was seen before.
Seen(e) == \E i \in 1..Len(clients) :
  \/ clients[i].identity = e.subject
  \/ clients[i].credential = env[e.token_env]
  \/ file.entries[i].token_env = e.token_env

\* An iteration of configured_clients.
ReadEntry ==
  /\ stage = "entries" /\ Len(clients) < Len(file.entries)
  /\ LET e == file.entries[Len(clients) + 1]
     IN \/ ~WellFormed(e) /\ Refuse
        \/ WellFormed(e) /\ Seen(e) /\ Refuse
        \/ /\ WellFormed(e) /\ ~Seen(e)
           /\ clients' = Append(clients, [credential |-> env[e.token_env],
                                          identity |-> e.subject])
           /\ UNCHANGED <<stage, token, credentials, keys>>
  /\ UNCHANGED <<env, file, signers>>

EntriesRead ==
  /\ stage = "entries" /\ Len(clients) = Len(file.entries)
  /\ stage' = "security"
  /\ UNCHANGED <<env, file, signers, token, clients, credentials, keys>>

\* transport_security refuses a wildcard.  Then BearerAuth begins with the shared token.
Secure == \E wildcard \in BOOLEAN :
  /\ stage = "security"
  /\ \/ wildcard /\ Refuse
     \/ /\ ~wildcard /\ stage' = "auth"
        /\ credentials' = <<[credential |-> token, identity |-> Anonymous]>>
        /\ UNCHANGED <<token, clients, keys>>
  /\ UNCHANGED <<env, file, signers>>

FaultyKnown(t) == FALSE

Known(t) == \E i \in 1..Len(credentials) : credentials[i].credential = t

\* An iteration of the constructor of BearerAuth.
AddCredential ==
  /\ stage = "auth" /\ Len(credentials) <= Len(clients)
  /\ LET c == clients[Len(credentials)]
     IN \/ Known(c.credential) /\ Refuse
        \/ /\ ~Known(c.credential)
           /\ credentials' = Append(credentials, c)
           /\ UNCHANGED <<stage, token, clients, keys>>
  /\ UNCHANGED <<env, file, signers>>

CredentialsAdded ==
  /\ stage = "auth" /\ Len(credentials) = Len(clients) + 1
  /\ stage' = "lifespan"
  /\ UNCHANGED <<env, file, signers, token, clients, credentials, keys>>

FaultyIngress == {token}

\* ingress_credentials of runtime_lifespan
Ingress == {token} \cup {clients[i].credential : i \in 1..Len(clients)}

\* The lifespan reads the .env file again, which may set what was not set.  Every signer
\* takes its key, and no key may be a client's credential.
StartRegistry == \E now \in [Names -> Texts] :
  /\ stage = "lifespan"
  /\ \A n \in Names : env[n] # Unset => now[n] = env[n]
  /\ env' = now
  /\ LET secrets == {now[n] : n \in signers}
     IN \/ /\ ~(secrets \subseteq GoodTokens) \/ secrets \cap Ingress # {}
           /\ Refuse
        \/ /\ secrets \subseteq GoodTokens /\ secrets \cap Ingress = {}
           /\ keys' = secrets /\ stage' = "up"
           /\ UNCHANGED <<token, clients, credentials>>
  /\ UNCHANGED <<file, signers>>

Next == \/ ReadToken \/ ReadFile \/ ReadEntry \/ EntriesRead \/ Secure
        \/ AddCredential \/ CredentialsAdded \/ StartRegistry

Spec == Init /\ [][Next]_vars
-----------------------------------------------------------------------------
\* The loop of __call__ over the credentials: the last match is taken.
Identify(t) ==
  LET matches == {i \in 1..Len(credentials) : credentials[i].credential = t}
  IN IF matches = {} THEN Nobody
     ELSE credentials[CHOOSE i \in matches : \A j \in matches : j <= i].identity

Client == [credential : GoodTokens, identity : Subjects]

\* The types of the variables.
TypeOK ==
  /\ stage \in Stages /\ env \in [Names -> Texts] /\ file \in Files
  /\ signers \subseteq GoodNames /\ token \in Texts
  /\ clients \in Seq(Client) /\ Len(clients) <= Len(file.entries)
  /\ credentials \in Seq([credential : GoodTokens, identity : Subjects \cup {Anonymous}])
  /\ keys \subseteq GoodTokens

\* Once the Hub is up, the credential of an entry identifies its subject and no other, the
\* shared token nobody in particular, and any other text is refused, though the lookup
\* does not stop at its first match.
IdentityIsConfigured ==
  stage = "up" =>
    /\ Identify(token) = Anonymous
    /\ \A i \in 1..Len(clients) :
         Identify(env[file.entries[i].token_env]) = file.entries[i].subject
    /\ \A t \in Texts : Identify(t) # Nobody => t \in Ingress

\* "The signing secret must differ from every Hub client token": nobody can pass for the
\* Hub, or for one of its clients, with the key of the other.
KeysApart == stage = "up" => \A k \in keys : Identify(k) = Nobody

\* What the documentation asks of the clients file and the shared token.
Sound ==
  LET entry == file.entries
      positions == 1..Len(entry)
      credential == [i \in positions |-> env[entry[i].token_env]]
  IN /\ env[TokenName] \in GoodTokens
     /\ file.configured =>
          /\ file.valid /\ Len(entry) \in 1..MaxClients
          /\ \A i \in positions : WellFormed(entry[i]) /\ credential[i] # env[TokenName]
          /\ IsInjective([i \in positions |-> entry[i].subject])
          /\ IsInjective([i \in positions |-> entry[i].token_env])
          /\ IsInjective(credential)

\* Configurations are accepted exactly if they are sound: what is read entry by entry and
\* in two places amounts to the documented conditions.
SoundIsAccepted ==
  /\ stage \in {"lifespan", "up"} => Sound
  /\ stage = "auth" /\ Sound => \A i \in Len(credentials)..Len(clients) :
       ~Known(clients[i].credential)
  /\ stage = "entries" /\ Sound => \A i \in Len(clients) + 1..Len(file.entries) :
       WellFormed(file.entries[i]) /\ ~Seen(file.entries[i])
=============================================================================

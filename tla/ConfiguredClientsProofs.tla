------------------------ MODULE ConfiguredClientsProofs ------------------------
(* What holds of ConfiguredClients for any environment and any file.       *)
EXTENDS ConfiguredClients, TLAPS

\* What is settled once a stage is past.
TokenInv == stage \notin {"token", "refused"} =>
  token = env[TokenName] /\ token \in GoodTokens

FileInv ==
  /\ stage \in {"token", "file"} => clients = <<>>
  /\ stage \in {"entries", "security", "auth", "lifespan", "up"} /\ file.configured =>
       file.valid /\ Len(file.entries) \in 1..MaxClients
  /\ stage = "entries" => file.configured
  /\ stage \in {"security", "auth", "lifespan", "up"} =>
       Len(clients) = IF file.configured THEN Len(file.entries) ELSE 0

\* What was read of an entry, and still is so.
ReadInv == \A i \in 1..Len(clients) :
  /\ WellFormed(file.entries[i])
  /\ clients[i].credential = env[file.entries[i].token_env]
  /\ clients[i].identity = file.entries[i].subject

\* The entries read so far have no subject, credential or reference in common.
ApartInv == \A i, j \in 1..Len(clients) : i # j =>
  /\ clients[i].identity # clients[j].identity
  /\ clients[i].credential # clients[j].credential
  /\ file.entries[i].token_env # file.entries[j].token_env

\* The credentials of BearerAuth: the shared token, then those of the clients, in order and
\* all different.
CredentialsInv ==
  /\ stage \in {"auth", "lifespan", "up"} =>
       /\ Len(credentials) \in 1..Len(clients) + 1
       /\ credentials[1] = [credential |-> token, identity |-> Anonymous]
       /\ \A i \in 2..Len(credentials) : credentials[i] = clients[i - 1]
       /\ \A i, j \in 1..Len(credentials) :
            credentials[i].credential = credentials[j].credential => i = j
  /\ stage \in {"lifespan", "up"} => Len(credentials) = Len(clients) + 1

KeysInv == stage = "up" => keys \cap Ingress = {}

IInv == TypeOK /\ TokenInv /\ FileInv /\ ReadInv /\ ApartInv /\ CredentialsInv /\ KeysInv

\* What the proofs of the other parts need of the types.
LEMMA Types ==
  ASSUME TypeOK
  PROVE  /\ env \in [Names -> Texts] /\ token \in Texts
         /\ clients \in Seq(Client) /\ Len(clients) \in Nat
         /\ \A i \in 1..Len(clients) :
              clients[i].credential \in GoodTokens /\ clients[i].identity \in Subjects
         /\ file.entries \in Seq(Entry) /\ Len(file.entries) \in Nat
         /\ \A i \in 1..Len(file.entries) :
              file.entries[i].subject \in Subjects /\ file.entries[i].token_env \in Names
         /\ Len(clients) <= Len(file.entries)
         /\ Len(credentials) \in Nat /\ file.configured \in BOOLEAN
<1>1. env \in [Names -> Texts] /\ token \in Texts /\ clients \in Seq(Client)
      /\ Len(clients) <= Len(file.entries)
  BY DEF TypeOK
<1>2. \A i \in 1..Len(clients) : clients[i] \in Client
  BY <1>1
<1>3. file.entries \in Seq(Entry) /\ file.configured \in BOOLEAN
  BY ClientsAssumption DEF TypeOK
<1>4. \A i \in 1..Len(file.entries) : file.entries[i] \in Entry
  BY <1>3
<1>5. Len(credentials) \in Nat /\ Len(clients) \in Nat /\ Len(file.entries) \in Nat
  BY <1>1, <1>3 DEF TypeOK
<1> QED
  BY <1>1, <1>2, <1>3, <1>4, <1>5 DEF Client, Entry
-----------------------------------------------------------------------------
(* Types.                                                                  *)

\* A client that passes the checks of configured_clients.
LEMMA NewClient ==
  ASSUME TypeOK, Len(clients) < Len(file.entries),
         WellFormed(file.entries[Len(clients) + 1])
  PROVE  LET e == file.entries[Len(clients) + 1]
         IN [credential |-> env[e.token_env], identity |-> e.subject] \in Client
<1>1. file.entries[Len(clients) + 1].subject \in Subjects
  BY Types
<1> QED
  BY <1>1 DEF WellFormed, Client

LEMMA TypeInit == Init => TypeOK
BY ClientsAssumption DEF Init, TypeOK, Stages

LEMMA TypeStep == IInv /\ [Next]_vars => TypeOK'
<1> SUFFICES ASSUME IInv, TypeOK, [Next]_vars PROVE TypeOK'
  BY DEF IInv
<1> USE DEF Stages
<1>1. CASE ReadToken
  BY <1>1, ClientsAssumption DEF ReadToken, Refuse, TypeOK
<1>2. CASE ReadFile \/ EntriesRead \/ CredentialsAdded
  BY <1>2 DEF ReadFile, EntriesRead, CredentialsAdded, Refuse, TypeOK
<1>3. CASE ReadEntry
  <2>1. CASE Refuse
    BY <1>3, <2>1 DEF ReadEntry, Refuse, TypeOK
  <2>2. CASE ~Refuse
    <3> DEFINE e == file.entries[Len(clients) + 1]
               c == [credential |-> env[e.token_env], identity |-> e.subject]
    <3>1. /\ Len(clients) < Len(file.entries) /\ WellFormed(e)
          /\ clients' = Append(clients, c)
          /\ UNCHANGED <<stage, env, file, signers, token, credentials, keys>>
      BY <1>3, <2>2 DEF ReadEntry
    <3>2. c \in Client
      BY <3>1, NewClient
    <3> HIDE DEF c, e
    <3>3. clients' \in Seq(Client) /\ Len(clients') <= Len(file.entries)
      BY <3>1, <3>2, Types
    <3> QED
      BY <3>1, <3>3 DEF TypeOK
  <2> QED
    BY <2>1, <2>2
<1>4. CASE Secure
  <2>1. CASE Refuse
    BY <1>4, <2>1 DEF Secure, Refuse, TypeOK
  <2>2. CASE ~Refuse
    <3>1. /\ credentials' = <<[credential |-> token, identity |-> Anonymous]>>
          /\ stage = "security" /\ stage' = "auth"
          /\ UNCHANGED <<env, file, signers, token, clients, keys>>
      BY <1>4, <2>2 DEF Secure
    <3>2. token \in GoodTokens
      BY <3>1 DEF IInv, TokenInv
    <3> QED
      BY <3>1, <3>2 DEF TypeOK
  <2> QED
    BY <2>1, <2>2
<1>5. CASE AddCredential
  <2>1. CASE Refuse
    BY <1>5, <2>1 DEF AddCredential, Refuse, TypeOK
  <2>2. CASE ~Refuse
    <3>1. /\ stage = "auth" /\ Len(credentials) <= Len(clients)
          /\ credentials' = Append(credentials, clients[Len(credentials)])
          /\ UNCHANGED <<env, file, signers, stage, token, clients, keys>>
      BY <1>5, <2>2 DEF AddCredential
    <3>2. Len(credentials) \in 1..Len(clients)
      BY <3>1, Types DEF IInv, CredentialsInv
    <3>3. clients[Len(credentials)] \in Client
      BY <3>2 DEF TypeOK
    <3>4. clients[Len(credentials)]
            \in [credential : GoodTokens, identity : Subjects \cup {Anonymous}]
      BY <3>3 DEF Client
    <3> QED
      BY <3>1, <3>4 DEF TypeOK
  <2> QED
    BY <2>1, <2>2
<1>6. CASE StartRegistry
  BY <1>6 DEF StartRegistry, Refuse, TypeOK
<1>7. CASE UNCHANGED vars
  BY <1>7 DEF vars, TypeOK, Client
<1> QED
  BY <1>1, <1>2, <1>3, <1>4, <1>5, <1>6, <1>7 DEF Next
-----------------------------------------------------------------------------
(* The rest of the inductive invariant.                                    *)

Rest == TokenInv /\ FileInv /\ ReadInv /\ ApartInv /\ CredentialsInv /\ KeysInv

LEMMA ReadStays ==
  ASSUME ReadInv, ApartInv, UNCHANGED <<env, file, clients>>
  PROVE  ReadInv' /\ ApartInv'
BY DEF ReadInv, ApartInv, WellFormed

\* Nothing is required of a Hub that was refused, other than of what it has read.
LEMMA RefusedRest ==
  ASSUME IInv, Refuse, UNCHANGED <<env, file>>
  PROVE  Rest'
<1>1. ReadInv' /\ ApartInv'
  BY ReadStays DEF IInv, Refuse
<1>2. stage' = "refused"
  BY DEF Refuse
<1> QED
  BY <1>1, <1>2 DEF Rest, TokenInv, FileInv, CredentialsInv, KeysInv

LEMMA RestRead ==
  ASSUME IInv, ReadToken \/ ReadFile \/ EntriesRead
  PROVE  Rest'
<1>1. UNCHANGED <<env, file>>
  BY DEF ReadToken, ReadFile, EntriesRead
<1>2. CASE Refuse
  BY <1>1, <1>2, RefusedRest
<1>3. CASE ~Refuse
  <2>1. stage' \in {"file", "entries", "security"} /\ UNCHANGED clients
    BY <1>3 DEF ReadToken, ReadFile, EntriesRead
  <2>2. ReadInv' /\ ApartInv' /\ CredentialsInv' /\ KeysInv'
    BY <1>1, <2>1, ReadStays DEF IInv, CredentialsInv, KeysInv
  <2>3. TokenInv'
    BY <1>3 DEF IInv, TokenInv, ReadToken, ReadFile, EntriesRead
  <2>4. FileInv'
    <3>1. CASE ReadToken
      BY <1>3, <3>1 DEF ReadToken, IInv, FileInv
    <3>2. CASE ReadFile
      BY <1>3, <3>2 DEF ReadFile, IInv, FileInv
    <3>3. CASE EntriesRead
      BY <3>3 DEF EntriesRead, IInv, FileInv
    <3> QED
      BY <3>1, <3>2, <3>3
  <2> QED
    BY <2>2, <2>3, <2>4 DEF Rest
<1> QED
  BY <1>2, <1>3

LEMMA RestEntry == ASSUME IInv, ReadEntry PROVE Rest'
<1>1. UNCHANGED <<env, file>>
  BY DEF ReadEntry
<1>2. CASE Refuse
  BY <1>1, <1>2, RefusedRest
<1>3. CASE ~Refuse
  <2> DEFINE n == Len(clients)
             e == file.entries[n + 1]
             c == [credential |-> env[e.token_env], identity |-> e.subject]
  <2>1. /\ stage = "entries" /\ n < Len(file.entries) /\ WellFormed(e) /\ ~Seen(e)
        /\ clients' = Append(clients, c)
        /\ UNCHANGED <<env, file, stage, token, credentials, keys>>
    BY <1>3 DEF ReadEntry
  <2>2. n \in Nat /\ clients \in Seq(Client) /\ c \in Client
    BY <2>1, Types, NewClient DEF IInv
  <2>3. /\ Len(clients') = n + 1 /\ clients'[n + 1] = c
        /\ \A i \in 1..n : clients'[i] = clients[i]
    BY <2>1, <2>2
  <2>4. ReadInv'
    <3>1. \A i \in 1..n + 1 : /\ WellFormed(file.entries[i])
                              /\ clients'[i].credential = env[file.entries[i].token_env]
                              /\ clients'[i].identity = file.entries[i].subject
      BY <2>1, <2>2, <2>3 DEF IInv, ReadInv
    <3> QED
      BY <2>1, <2>3, <3>1 DEF ReadInv, WellFormed
  <2>5. ApartInv'
    <3>1. \A i \in 1..n : /\ clients[i].identity # c.identity
                          /\ clients[i].credential # c.credential
                          /\ file.entries[i].token_env # file.entries[n + 1].token_env
      BY <2>1 DEF Seen
    <3>2. \A i, j \in 1..n + 1 : i # j =>
            /\ clients'[i].identity # clients'[j].identity
            /\ clients'[i].credential # clients'[j].credential
            /\ file.entries[i].token_env # file.entries[j].token_env
      <4> HIDE DEF c
      <4> QED
        BY <2>2, <2>3, <3>1 DEF IInv, ApartInv
    <3> QED
      BY <2>1, <2>3, <3>2 DEF ApartInv
  <2>6. TokenInv' /\ FileInv' /\ CredentialsInv' /\ KeysInv'
    BY <2>1 DEF IInv, TokenInv, FileInv, CredentialsInv, KeysInv
  <2> QED
    BY <2>4, <2>5, <2>6 DEF Rest
<1> QED
  BY <1>2, <1>3

LEMMA RestSecure == ASSUME IInv, Secure PROVE Rest'
<1>1. UNCHANGED <<env, file>>
  BY DEF Secure
<1>2. CASE Refuse
  BY <1>1, <1>2, RefusedRest
<1>3. CASE ~Refuse
  <2>1. /\ stage = "security" /\ stage' = "auth"
        /\ credentials' = <<[credential |-> token, identity |-> Anonymous]>>
        /\ UNCHANGED <<env, file, token, clients, keys>>
    BY <1>3 DEF Secure
  <2>2. ReadInv' /\ ApartInv' /\ TokenInv' /\ FileInv' /\ KeysInv'
    BY <2>1, ReadStays DEF IInv, TokenInv, FileInv, KeysInv
  <2>3. CredentialsInv'
    BY <2>1, Types DEF IInv, CredentialsInv
  <2> QED
    BY <2>2, <2>3 DEF Rest
<1> QED
  BY <1>2, <1>3

LEMMA RestCredential == ASSUME IInv, AddCredential \/ CredentialsAdded PROVE Rest'
<1>1. UNCHANGED <<env, file>>
  BY DEF AddCredential, CredentialsAdded
<1>2. CASE Refuse
  BY <1>1, <1>2, RefusedRest
<1>3. CASE CredentialsAdded
  <2>1. /\ stage = "auth" /\ stage' = "lifespan" /\ Len(credentials) = Len(clients) + 1
        /\ UNCHANGED <<env, file, token, clients, credentials, keys>>
    BY <1>3 DEF CredentialsAdded
  <2>2. ReadInv' /\ ApartInv' /\ TokenInv' /\ FileInv' /\ KeysInv'
    BY <2>1, ReadStays DEF IInv, TokenInv, FileInv, KeysInv
  <2>3. CredentialsInv'
    BY <2>1 DEF IInv, CredentialsInv
  <2> QED
    BY <2>2, <2>3 DEF Rest
<1>4. CASE AddCredential /\ ~Refuse
  <2> DEFINE n == Len(credentials)
  <2>1. /\ stage = "auth" /\ n <= Len(clients) /\ ~Known(clients[n].credential)
        /\ credentials' = Append(credentials, clients[n])
        /\ UNCHANGED <<env, file, stage, token, clients, keys>>
    BY <1>4 DEF AddCredential
  <2>2. n \in 1..Len(clients) /\ Len(clients) \in Nat
        /\ credentials \in Seq([credential : GoodTokens, identity : Subjects \cup {Anonymous}])
    BY <2>1, Types DEF IInv, CredentialsInv, TypeOK
  <2>3. clients[n] \in [credential : GoodTokens, identity : Subjects \cup {Anonymous}]
    <3>1. clients[n] \in Client
      BY <2>2 DEF IInv, TypeOK
    <3> QED
      BY <3>1 DEF Client
  <2>4. /\ Len(credentials') = n + 1 /\ credentials'[n + 1] = clients[n]
        /\ \A i \in 1..n : credentials'[i] = credentials[i]
    BY <2>1, <2>2, <2>3
  <2>5. \A i \in 1..n : credentials[i].credential # clients[n].credential
    BY <2>1 DEF Known
  <2>6. ReadInv' /\ ApartInv' /\ TokenInv' /\ FileInv' /\ KeysInv'
    BY <2>1, ReadStays DEF IInv, TokenInv, FileInv, KeysInv
  <2>7. CredentialsInv'
    <3>1. credentials'[1] = [credential |-> token, identity |-> Anonymous]
      BY <2>1, <2>2, <2>4 DEF IInv, CredentialsInv
    <3>2. \A i \in 2..n + 1 : credentials'[i] = clients[i - 1]
      BY <2>1, <2>2, <2>4 DEF IInv, CredentialsInv
    <3>3. \A i, j \in 1..n + 1 :
            credentials'[i].credential = credentials'[j].credential => i = j
      BY <2>1, <2>2, <2>4, <2>5 DEF IInv, CredentialsInv
    <3> QED
      BY <2>1, <2>2, <2>4, <3>1, <3>2, <3>3 DEF CredentialsInv
  <2> QED
    BY <2>6, <2>7 DEF Rest
<1> QED
  BY <1>2, <1>3, <1>4

\* What the .env file adds to the environment changes no variable that was read.
LEMMA RestStart == ASSUME IInv, StartRegistry PROVE Rest'
<1>1. /\ stage = "lifespan" /\ env' \in [Names -> Texts]
      /\ \A n \in Names : env[n] # Unset => env'[n] = env[n]
      /\ UNCHANGED <<file, token, clients, credentials>>
      /\ stage' = "refused" \/ (stage' = "up" /\ keys' \cap Ingress = {})
  BY DEF StartRegistry, Refuse
<1>2. \A n \in Names : env[n] \in GoodTokens => env'[n] = env[n]
  BY <1>1, ClientsAssumption
<1>3. ReadInv'
  <2>1. \A i \in 1..Len(clients) : file.entries[i].token_env \in Names
    BY Types DEF IInv
  <2>2. \A i \in 1..Len(clients) :
          /\ WellFormed(file.entries[i])' /\ WellFormed(file.entries[i])
          /\ env'[file.entries[i].token_env] = env[file.entries[i].token_env]
    BY <1>1, <1>2, <2>1 DEF IInv, ReadInv, WellFormed
  <2> QED
    BY <1>1, <2>2 DEF IInv, ReadInv
<1>4. ApartInv' /\ FileInv' /\ CredentialsInv'
  BY <1>1 DEF IInv, ApartInv, FileInv, CredentialsInv
<1>5. TokenInv'
  BY <1>1, <1>2, ClientsAssumption DEF IInv, TokenInv
<1>6. KeysInv'
  BY <1>1 DEF KeysInv, Ingress
<1> QED
  BY <1>3, <1>4, <1>5, <1>6 DEF Rest

LEMMA InvInit == Init => IInv
BY TypeInit DEF Init, IInv, TokenInv, FileInv, ReadInv, ApartInv, CredentialsInv, KeysInv

LEMMA InvStep == IInv /\ [Next]_vars => IInv'
<1> SUFFICES ASSUME IInv, [Next]_vars PROVE Rest'
  BY TypeStep DEF IInv, Rest
<1>1. CASE UNCHANGED vars
  BY <1>1, ReadStays DEF vars, IInv, Rest, TokenInv, FileInv, CredentialsInv, KeysInv, Ingress
<1> QED
  BY <1>1, RestRead, RestEntry, RestSecure, RestCredential, RestStart DEF Next

LEMMA InvAlways == Spec => []IInv
BY InvInit, InvStep, PTL DEF Spec
-----------------------------------------------------------------------------
(* What follows.                                                           *)

\* The credentials of BearerAuth are those that no signing key may be.
LEMMA AllAreIngress ==
  ASSUME IInv, stage = "up", NEW i \in 1..Len(credentials)
  PROVE  credentials[i].credential \in Ingress
<1>1. Len(credentials) = Len(clients) + 1 /\ Len(clients) \in Nat
  BY Types DEF IInv, CredentialsInv
<1>2. CASE i = 1
  BY <1>2 DEF IInv, CredentialsInv, Ingress
<1>3. CASE i # 1
  <2>1. i - 1 \in 1..Len(clients) /\ credentials[i] = clients[i - 1]
    BY <1>1, <1>3 DEF IInv, CredentialsInv
  <2> QED
    BY <2>1 DEF Ingress
<1> QED
  BY <1>2, <1>3

\* With one match, the last match is that one.
LEMMA OneMatch ==
  ASSUME IInv, stage = "up", NEW i \in 1..Len(credentials)
  PROVE  Identify(credentials[i].credential) = credentials[i].identity
<1> DEFINE matches == {j \in 1..Len(credentials) :
                         credentials[j].credential = credentials[i].credential}
<1>1. matches = {i}
  BY DEF IInv, CredentialsInv
<1>2. (CHOOSE m \in matches : \A j \in matches : j <= m) = i
  <2>1. i <= i
    BY Types DEF IInv
  <2> HIDE DEF matches
  <2> QED
    BY <1>1, <2>1
<1> QED
  BY <1>1, <1>2 DEF Identify

\* For any environment and file, and whatever the .env file adds later: no connection
\* signs with a key that the Hub would take for the credential of a client.
THEOREM SeparateKeys == Spec => []KeysApart
<1>1. IInv => KeysApart
  <2> SUFFICES ASSUME IInv, stage = "up", NEW k \in keys PROVE Identify(k) = Nobody
    BY DEF KeysApart
  <2>1. \A i \in 1..Len(credentials) : credentials[i].credential # k
    BY AllAreIngress DEF IInv, KeysInv
  <2> QED
    BY <2>1 DEF Identify
<1> QED
  BY <1>1, InvAlways, PTL

\* A credential identifies the subject it was configured for, though two lists of checks
\* and a loop without a break decide it.
THEOREM Identification == Spec => []IdentityIsConfigured
<1>1. IInv => IdentityIsConfigured
  <2> SUFFICES ASSUME IInv, stage = "up" PROVE IdentityIsConfigured
    BY DEF IdentityIsConfigured
  <2>1. Len(credentials) = Len(clients) + 1 /\ Len(clients) \in Nat
    BY Types DEF IInv, CredentialsInv
  <2>2. Identify(token) = Anonymous
    <3>1. 1 \in 1..Len(credentials)
          /\ credentials[1] = [credential |-> token, identity |-> Anonymous]
      BY <2>1 DEF IInv, CredentialsInv
    <3> QED
      BY <3>1, OneMatch
  <2>3. ASSUME NEW i \in 1..Len(clients)
        PROVE  Identify(env[file.entries[i].token_env]) = file.entries[i].subject
    <3>1. i + 1 \in 1..Len(credentials) /\ i + 1 \in 2..Len(credentials) /\ i + 1 - 1 = i
      BY <2>1
    <3>2. credentials[i + 1] = clients[i]
      BY <3>1 DEF IInv, CredentialsInv
    <3>3. clients[i].credential = env[file.entries[i].token_env]
          /\ clients[i].identity = file.entries[i].subject
      BY DEF IInv, ReadInv
    <3> QED
      BY <3>1, <3>2, <3>3, OneMatch
  <2>4. ASSUME NEW t \in Texts, Identify(t) # Nobody PROVE t \in Ingress
    <3>1. PICK i \in 1..Len(credentials) : credentials[i].credential = t
      BY <2>4 DEF Identify
    <3> QED
      BY <3>1, AllAreIngress
  <2> QED
    BY <2>2, <2>3, <2>4 DEF IdentityIsConfigured
<1> QED
  BY <1>1, InvAlways, PTL

\* A configuration that was accepted meets the documented conditions.
LEMMA AcceptedIsSound ==
  ASSUME IInv, stage \in {"lifespan", "up"}
  PROVE  Sound
<1> DEFINE entry == file.entries
<1>1. env[TokenName] \in GoodTokens
  BY DEF IInv, TokenInv
<1>2. SUFFICES ASSUME file.configured
      PROVE  /\ file.valid /\ Len(entry) \in 1..MaxClients
             /\ \A i \in 1..Len(entry) : /\ WellFormed(entry[i])
                                         /\ env[entry[i].token_env] # env[TokenName]
             /\ \A i, j \in 1..Len(entry) : i # j =>
                  /\ entry[i].subject # entry[j].subject
                  /\ entry[i].token_env # entry[j].token_env
                  /\ env[entry[i].token_env] # env[entry[j].token_env]
  BY <1>1 DEF Sound, IsInjective
<1>3. Len(clients) = Len(entry) /\ file.valid /\ Len(entry) \in 1..MaxClients
      /\ Len(clients) \in Nat
  BY <1>2, Types DEF IInv, FileInv
<1>4. \A i \in 1..Len(entry) : /\ WellFormed(entry[i])
                               /\ clients[i].credential = env[entry[i].token_env]
                               /\ clients[i].identity = entry[i].subject
  BY <1>3 DEF IInv, ReadInv
<1>5. ASSUME NEW i \in 1..Len(entry) PROVE env[entry[i].token_env] # env[TokenName]
  <2>1. i + 1 \in 2..Len(credentials) /\ i + 1 - 1 = i /\ i + 1 # 1
        /\ 1 \in 1..Len(credentials) /\ i + 1 \in 1..Len(credentials)
    BY <1>3 DEF IInv, CredentialsInv
  <2>2. credentials[i + 1] = clients[i] /\ credentials[1].credential = token
        /\ credentials[i + 1].credential # credentials[1].credential
    BY <2>1 DEF IInv, CredentialsInv
  <2> QED
    BY <1>4, <2>2 DEF IInv, TokenInv
<1> QED
  BY <1>3, <1>4, <1>5 DEF IInv, ApartInv

\* Exactly the sound configurations are accepted: none is refused at an entry, or at the
\* second look BearerAuth takes, and none that was accepted breaks a documented condition.
THEOREM Acceptance == Spec => []SoundIsAccepted
<1>1. IInv => SoundIsAccepted
  <2> SUFFICES ASSUME IInv PROVE SoundIsAccepted
    OBVIOUS
  <2> DEFINE entry == file.entries
  <2>1. ASSUME Sound, file.configured
        PROVE  /\ \A i \in 1..Len(entry) : /\ WellFormed(entry[i])
                                           /\ env[entry[i].token_env] # env[TokenName]
               /\ \A i, j \in 1..Len(entry) : i # j =>
                    /\ entry[i].subject # entry[j].subject
                    /\ entry[i].token_env # entry[j].token_env
                    /\ env[entry[i].token_env] # env[entry[j].token_env]
    BY <2>1 DEF Sound, IsInjective
  <2>2. Len(clients) \in Nat /\ Len(entry) \in Nat /\ Len(clients) <= Len(entry)
    BY Types DEF IInv
  <2>3. ASSUME stage = "auth", Sound, NEW i \in Len(credentials)..Len(clients)
        PROVE  ~Known(clients[i].credential)
    <3> SUFFICES ASSUME NEW j \in 1..Len(credentials)
                 PROVE  credentials[j].credential # clients[i].credential
      BY DEF Known
    <3>1. Len(credentials) \in 1..Len(clients) + 1
      BY <2>3 DEF IInv, CredentialsInv
    <3>2. i \in 1..Len(clients) /\ i \in 1..Len(entry)
      BY <2>2, <3>1
    <3>3. clients[i].credential = env[entry[i].token_env]
      BY <3>2 DEF IInv, ReadInv
    <3>4. file.configured
      BY <2>3, <3>2, <2>2 DEF IInv, FileInv
    <3>5. CASE j = 1
      BY <2>1, <2>3, <3>2, <3>3, <3>4, <3>5 DEF IInv, CredentialsInv, TokenInv
    <3>6. CASE j # 1
      <4>1. j \in 2..Len(credentials) /\ j - 1 \in 1..Len(clients) /\ j - 1 # i
        BY <2>2, <3>1, <3>6
      <4>2. credentials[j] = clients[j - 1]
        BY <2>3, <4>1 DEF IInv, CredentialsInv
      <4> QED
        BY <3>2, <4>1, <4>2 DEF IInv, ApartInv
    <3> QED
      BY <3>5, <3>6
  <2>4. ASSUME stage = "entries", Sound, NEW i \in Len(clients) + 1..Len(entry)
        PROVE  WellFormed(entry[i]) /\ ~Seen(entry[i])
    <3>1. file.configured /\ i \in 1..Len(entry)
      BY <2>2, <2>4 DEF IInv, FileInv
    <3>2. ASSUME NEW j \in 1..Len(clients)
          PROVE  /\ clients[j].identity # entry[i].subject
                 /\ clients[j].credential # env[entry[i].token_env]
                 /\ entry[j].token_env # entry[i].token_env
      <4>1. j \in 1..Len(entry) /\ j # i
        BY <2>2
      <4>2. clients[j].credential = env[entry[j].token_env]
            /\ clients[j].identity = entry[j].subject
        BY DEF IInv, ReadInv
      <4> QED
        BY <2>1, <2>4, <3>1, <4>1, <4>2
    <3> QED
      BY <2>1, <2>4, <3>1, <3>2 DEF Seen
  <2> QED
    BY <2>3, <2>4, AcceptedIsSound DEF SoundIsAccepted
<1> QED
  BY <1>1, InvAlways, PTL
=============================================================================

---------------------------- MODULE PartnerKeys ----------------------------
(***************************************************************************)
(* API keys of partners: issued when a partner is registered, replaced by a *)
(* rotation, shown once in the portal, and checked by ApiKeyGuard, which    *)
(* looks the partner up by what stands before the first dot of the key and  *)
(* compares the whole key with the hash it has read.                        *)
(***************************************************************************)
EXTENDS FiniteSets

CONSTANTS
  Partners,
  Operators,   \* portal sessions
  Raws,        \* what randomBytes can return; none comes twice
  PrefixOf     \* its first eight characters, which may coincide

ASSUME KeysAssumption == \A r \in Raws : PrefixOf[r] \notin Raws

\* Registration issues the raw string itself, a rotation "<prefix>.<raw>".
Keys == [dotted : BOOLEAN, raw : Raws]
None == [none |-> TRUE]

VARIABLES
  stored,    \* partner -> its row: the key that was hashed, and apiKeyPrefix
  drawn,     \* raw strings used so far
  issuing,   \* operator -> the request in progress
  given,     \* partner -> keys that were shown to an operator
  guard,     \* the API request being checked
  accepted   \* the last one that was let through

keyVars == <<stored, drawn, issuing, given, guard, accepted>>

KeysInit ==
  /\ stored = [p \in Partners |-> None]
  /\ drawn = {}
  /\ issuing = [o \in Operators |-> None]
  /\ given = [p \in Partners |-> {}]
  /\ guard = None /\ accepted = None

KeysTypeOK ==
  LET row == [key : Keys, prefix : {PrefixOf[r] : r \in Raws}]
      check == [key : Keys, partner : Partners, row : row, since : SUBSET Keys] IN
  /\ stored \in [Partners -> row \cup {None}]
  /\ drawn \subseteq Raws
  /\ issuing \in [Operators -> [partner : Partners, key : Keys, at : {"hash", "answer"}] \cup {None}]
  /\ given \in [Partners -> SUBSET Keys]
  /\ guard \in check \cup {None} /\ accepted \in check \cup {None}

Issued(p) == stored[p] # None

\* The unique index on apiKeyPrefix.
Taken(prefix, p) == \E q \in Partners \ {p} : Issued(q) /\ stored[q].prefix = prefix

\* A store of p's key is seen by the check in progress (history).
Noticed(p, key) ==
  IF guard # None /\ guard.partner = p THEN [guard EXCEPT !.since = @ \cup {key}] ELSE guard

Draw(o, p, r, dotted) ==
  /\ issuing[o] = None
  /\ r \notin drawn /\ drawn' = drawn \cup {r}
  /\ issuing' = [issuing EXCEPT ![o] =
       [partner |-> p, key |-> [dotted |-> dotted, raw |-> r], at |-> "hash"]]
  /\ UNCHANGED <<stored, given, guard, accepted>>

\* PartnerRepository.create, up to the hash of the raw string.
Create(o, p, r) == ~Issued(p) /\ Draw(o, p, r, FALSE)

\* PartnerService.rotate: findOne, then the hash of prefix and raw string.
Rotate(o, p, r) == Issued(p) /\ Draw(o, p, r, TRUE)

Write(o, row) ==
  LET p == issuing[o].partner IN
  /\ issuing[o] # None /\ issuing[o].at = "hash"
  /\ (issuing[o].key.dotted \/ ~Issued(p))
  /\ ~Taken(PrefixOf[issuing[o].key.raw], p)
  /\ stored' = [stored EXCEPT ![p] = row]
  /\ issuing' = [issuing EXCEPT ![o].at = "answer"]
  /\ guard' = Noticed(p, issuing[o].key)
  /\ UNCHANGED <<drawn, given, accepted>>

\* Mutant of Store: an update that forgets the prefix.
StoreHash(o) ==
  LET p == issuing[o].partner  k == issuing[o].key IN
  Write(o, [key |-> k, prefix |-> IF Issued(p) THEN stored[p].prefix ELSE PrefixOf[k.raw]])

\* The insert, or updateApiKeyHash: hash and prefix in one statement.
Store(o) == Write(o, [key |-> issuing[o].key, prefix |-> PrefixOf[issuing[o].key.raw]])

\* It is refused by a unique index, of the prefix or of the name; or it fails.
StoreFails(o) ==
  /\ issuing[o] # None /\ issuing[o].at = "hash"
  /\ issuing' = [issuing EXCEPT ![o] = None]
  /\ UNCHANGED <<stored, drawn, given, guard, accepted>>

\* The portal shows the key of the answer, once.
Show(o) ==
  /\ issuing[o] # None /\ issuing[o].at = "answer"
  /\ given' = [given EXCEPT ![issuing[o].partner] = @ \cup {issuing[o].key}]
  /\ issuing' = [issuing EXCEPT ![o] = None]
  /\ UNCHANGED <<stored, drawn, guard, accepted>>

\* The answer is lost, or the page left before it comes.
AnswerLost(o) ==
  /\ issuing[o] # None /\ issuing[o].at = "answer"
  /\ issuing' = [issuing EXCEPT ![o] = None]
  /\ UNCHANGED <<stored, drawn, given, guard, accepted>>

----------------------------------------------------------------------------
(* ApiKeyGuard.canActivate *)

\* What stands before the first dot: a raw string has none and is its own prefix.
Prefix(key) == IF key.dotted THEN PrefixOf[key.raw] ELSE key.raw

Finds(key, p) == Issued(p) /\ stored[p].prefix = Prefix(key)

\* findPartnerByPrefix.  A key that finds no partner is refused on the spot.
Lookup(key, p) ==
  /\ guard = None
  /\ \E q \in Partners : key \in given[q]
  /\ Finds(key, p)
  /\ guard' = [key |-> key, partner |-> p, row |-> stored[p], since |-> {stored[p].key}]
  /\ UNCHANGED <<stored, drawn, issuing, given, accepted>>

\* Mutant of Compare: the prefix is thought to be enough.
ComparePrefix ==
  /\ guard # None
  /\ guard' = None
  /\ accepted' = IF Prefix(guard.key) = guard.row.prefix THEN guard ELSE accepted
  /\ UNCHANGED <<stored, drawn, issuing, given>>

\* bcrypt.compare with the hash that was read.
Compare ==
  /\ guard # None
  /\ guard' = None
  /\ accepted' = IF guard.key = guard.row.key THEN guard ELSE accepted
  /\ UNCHANGED <<stored, drawn, issuing, given>>

KeysNext ==
  \/ \E o \in Operators :
       \/ \E p \in Partners, r \in Raws : Create(o, p, r) \/ Rotate(o, p, r)
       \/ Store(o) \/ StoreFails(o) \/ Show(o) \/ AnswerLost(o)
  \/ \E p \in Partners : \E key \in UNION {given[q] : q \in Partners} : Lookup(key, p)
  \/ Compare

KeysSpec == KeysInit /\ [][KeysNext]_keyVars

----------------------------------------------------------------------------
(* Properties *)

\* The guard lets a request with this key through, as this partner's.
Authenticates(key, p) == Finds(key, p) /\ stored[p].key = key

\* After a rotation the key on the operator's screen works: when the answer of
\* the rotation that came last was shown, its key finds its partner and nobody
\* else's, although rotations overlap, fail and collide in their prefixes.
RotatedKeyWorks ==
  \A p \in Partners :
    Issued(p) /\ stored[p].key.dotted /\ stored[p].key \in given[p]
      => /\ Authenticates(stored[p].key, p)
         /\ \A q \in Partners \ {p} : ~Finds(stored[p].key, q)

\* A key that was let through was its partner's key at some moment since the
\* request was looked up: one that had been replaced before is refused, even
\* if the new one has the same prefix.
ReplacedKeyRefused == accepted # None => accepted.key \in accepted.since
=============================================================================

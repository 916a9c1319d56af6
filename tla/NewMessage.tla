------------------------------ MODULE NewMessage ------------------------------
(***************************************************************************)
(* One message from AddNewMessage to the pages that show it: the content   *)
(* of a private message and its split point (context.go, webserver.go),    *)
(* the search of a nonce (message.go), and the two functions on hashes     *)
(* every node has to agree on (common.go).                                 *)
(*                                                                         *)
(* Bytes have Bits bits instead of 8, nonces and hashes a few bytes.  SHA- *)
(* 256 is any function of a family; OAEP gives a ciphertext only its       *)
(* addressee can read, and always of ChunkLength bytes (256 for RSA-2048). *)
(***************************************************************************)
EXTENDS Integers, SequencesExt, FiniteSetsExt

CONSTANTS
    Node,
    Author,       \* the node whose message it is
    Text,         \* what users write
    Everyone,     \* the empty destination
    Bits,         \* bits of a byte
    NonceLength,
    HashLength,
    ChunkLength,
    HashFamily,   \* functions from nonces to hashes, for a message without its nonce
    Unable        \* "*** Unable to decrypt the message ..."

Radix == 2 ^ Bits
Byte == 0 .. Radix - 1
Nonce == [1 .. NonceLength -> Byte]
Hash == [1 .. HashLength -> Byte]

ASSUME NewMessageAssumption ==
    /\ Author \in Node
    /\ Everyone \notin Node
    /\ Unable \notin Text
    /\ {Bits, NonceLength, HashLength, ChunkLength} \subseteq Nat \ {0}
    /\ Radix \in Nat \ {0}
    /\ 2 + ChunkLength < Radix * Radix
    /\ HashFamily \subseteq [Nonce -> Hash]

\* Arithmetic, for the provers, which know nothing of powers
ASSUME PowersOfTwo ==
    2 ^ 0 = 1 /\ \A k \in 0 .. Bits * HashLength : 2 ^ (k + 1) = 2 * 2 ^ k

VARIABLES
    hash,    \* ComputeHash of this message, by nonce
    target,  \* -powDifficulty of its author
    msg,     \* origin, destination, text and what is sent for it
    nonce,
    phase    \* "new", "pow": searching, "posted"

vars == <<hash, target, msg, nonce, phase>>

-----------------------------------------------------------------------------
(* common.go *)

\* Bit k of a hash, counted as the two loops of NumLeadingZeros do
Bit(h, k) == (h[(k \div Bits) + 1] \div (2 ^ (k % Bits))) % 2

\* (mutant) break for return: a 1 ends the count of its byte only
NumZerosOfBytes(h) ==
    Cardinality({k \in 0 .. Bits * HashLength - 1 :
                    \A j \in k - (k % Bits) .. k : Bit(h, j) = 0})

NumLeadingZeros(h) ==
    Min({k \in 0 .. Bits * HashLength - 1 : Bit(h, k) = 1} \cup {Bits * HashLength})

\* The first byte that differs decides.
LowerAt(h, g, i) == h[i] < g[i] /\ \A j \in 1 .. i - 1 : h[j] = g[j]

Lower(h, g) == \E i \in 1 .. HashLength : LowerAt(h, g, i)

\* (mutant) any lower byte will do
CompareAnyByte(h, g) ==
    IF \E i \in 1 .. HashLength : h[i] < g[i] THEN -1
    ELSE IF h = g THEN 0 ELSE 1

CompareHashes(h, g) == IF Lower(h, g) THEN -1 ELSE IF Lower(g, h) THEN 1 ELSE 0

-----------------------------------------------------------------------------
(* The content: written in context.go, read in webserver.go *)

Encrypt(n, t) == [i \in 1 .. ChunkLength |-> [for |-> n, text |-> t, at |-> i]]

Decrypt(n, c) == IF \E t \in Text : c = Encrypt(n, t) THEN c[1].text ELSE Unable

\* binary.LittleEndian.PutUint16 and Uint16
LengthBytes(len) == <<[byte |-> len % Radix], [byte |-> (len \div Radix) % Radix]>>

SplitPoint(c) == c[1].byte + Radix * c[2].byte

\* Encrypted twice, for the author and for the recipient
Content(n, d, t) ==
    IF d = Everyone THEN <<[text |-> t]>>
    ELSE LengthBytes(ChunkLength) \o Encrypt(n, t) \o Encrypt(d, t)

\* (mutant) the split point counted from the start of the content
ChunkFromStart(n, m) ==
    LET c == m.content IN
    IF n = m.origin THEN SubSeq(c, 3, SplitPoint(c)) ELSE SubSeq(c, SplitPoint(c) + 1, Len(c))

\* 2+splitPoint, in two bytes like splitPoint
ChunkEnd(c) == (2 + SplitPoint(c)) % (Radix * Radix)

\* The chunk node n tries to decrypt.  Content[2:0] and Content[2:1] are panics in
\* Go and empty here; NewMessageAssumption keeps them away.
Chunk(n, m) ==
    LET c == m.content IN
    IF n = m.origin THEN SubSeq(c, 3, ChunkEnd(c)) ELSE SubSeq(c, ChunkEnd(c) + 1, Len(c))

\* What node n shows of a message
ConvertMessageFormat(n, m) ==
    IF m.destination = Everyone THEN m.content[1].text
    ELSE IF Len(m.content) < 2 \/ SplitPoint(m.content) >= Len(m.content) THEN Unable
    ELSE Decrypt(n, Chunk(n, m))

-----------------------------------------------------------------------------
(* AddNewMessage and ComputeNonce *)

Zero == [i \in 1 .. NonceLength |-> 0]

TypeOK ==
    /\ hash \in HashFamily
    /\ target \in 0 .. Bits * HashLength
    /\ msg.origin = Author /\ msg.destination \in Node \cup {Everyone} /\ msg.text \in Text
    /\ nonce \in Nonce
    /\ phase \in {"new", "pow", "posted"}

Init ==
    /\ hash \in HashFamily
    /\ target \in 0 .. Bits * HashLength
    /\ msg \in [origin : {Author}, destination : Node \cup {Everyone}, text : Text,
               content : {<<>>}]
    /\ nonce = Zero
    /\ phase = "new"

\* The first closure, up to the call of ComputeNonce
Compose ==
    /\ phase = "new"
    /\ msg' = [msg EXCEPT !.content = Content(msg.origin, msg.destination, msg.text)]
    /\ nonce' = Zero
    /\ phase' = "pow"
    /\ UNCHANGED <<hash, target>>

\* (mutants) the carry out of the last byte is appended; the bytes that wrap keep
\* their value; there is no carry
IncrementedLonger(s) ==
    LET longer == Append(s, 0)
        k == Min({i \in DOMAIN longer : longer[i] < Radix - 1})
    IN  [i \in 1 .. Max({k, Len(s)}) |->
            IF i < k THEN 0 ELSE IF i = k THEN longer[i] + 1 ELSE s[i]]
IncrementedWithoutReset(s) ==
    LET k == Min({i \in 1 .. NonceLength : s[i] < Radix - 1} \cup {NonceLength + 1})
    IN  [i \in 1 .. NonceLength |-> IF i = k THEN s[i] + 1 ELSE s[i]]
IncrementedWithoutCarry(s) == [s EXCEPT ![1] = (@ + 1) % Radix]

\* Add 1 to the first byte that is not at its maximum, reset those before it.
Incremented(s) ==
    LET k == Min({i \in 1 .. NonceLength : s[i] < Radix - 1} \cup {NonceLength + 1})
    IN  [i \in 1 .. NonceLength |->
            IF i < k THEN 0 ELSE IF i = k THEN s[i] + 1 ELSE s[i]]

Fits(s) == NumLeadingZeros(hash[s]) >= target

Try ==
    /\ phase = "pow"
    /\ ~Fits(nonce)
    /\ nonce' = Incremented(nonce)
    /\ UNCHANGED <<hash, target, msg, phase>>

\* The second closure: the message is stored and spread.
Post ==
    /\ phase = "pow"
    /\ Fits(nonce)
    /\ phase' = "posted"
    /\ UNCHANGED <<hash, target, msg, nonce>>

Next == Compose \/ Try \/ Post

Spec == Init /\ [][Next]_vars

\* The HTTP goroutine goes on.
FairSpec == Spec /\ WF_vars(Next)

-----------------------------------------------------------------------------

\* A number from its bytes: most or least significant first
BigEndian(s) ==
    LET value[i \in 0 .. Len(s)] == IF i = 0 THEN 0 ELSE Radix * value[i - 1] + s[i]
    IN  value[Len(s)]

LittleEndian(s) == BigEndian(Reverse(s))

\* The zeros in front of the first 1 of h, written with the most significant bit of
\* every byte first
LeadingZeros(h) ==
    Max({z \in 0 .. Bits * HashLength : BigEndian(h) < 2 ^ (Bits * HashLength - z)})

(***************************************************************************)
(* common.go:47: "returns the number of leading zero bits of a hash".  It  *)
(* does not: the bits of a byte are visited from the least significant one *)
(* (common.go:52).                                                         *)
(***************************************************************************)
ZerosAreLeading == NumLeadingZeros(hash[nonce]) = LeadingZeros(hash[nonce])

(***************************************************************************)
(* What NumLeadingZeros (common.go:48) counts instead: the powers of 2     *)
(* that divide the hash as a little-endian number.  So a difficulty means  *)
(* the same work as with leading zeros, every zero more halves the hashes  *)
(* that fit, but other hashes fit.                                         *)
(***************************************************************************)
ZerosArePowersOfTwo ==
    \A k \in 0 .. Bits * HashLength :
        NumLeadingZeros(hash[nonce]) >= k <=> LittleEndian(hash[nonce]) % (2 ^ k) = 0

(***************************************************************************)
(* CompareHashes (common.go:64) orders hashes as big-endian numbers, with  *)
(* no ties: this is the Digest by which Gossip decides conflicts.          *)
(***************************************************************************)
HashesAreOrdered ==
    \A s \in Nonce :
        LET h == BigEndian(hash[nonce])
            g == BigEndian(hash[s])
        IN  CompareHashes(hash[nonce], hash[s]) = IF h < g THEN -1 ELSE IF h > g THEN 1 ELSE 0

(***************************************************************************)
(* The nonce that is taken is the first one that fits, in the order of     *)
(* counting (message.go:127): the carry over the bytes skips none.         *)
(***************************************************************************)
FirstNonceIsTaken ==
    phase # "new" => \A s \in Nonce : LittleEndian(s) < LittleEndian(nonce) => ~Fits(s)

\* If any nonce fits, the post comes to its end.
SearchEnds == (\E s \in Nonce : Fits(s)) => <>(phase = "posted")

(***************************************************************************)
(* Author and recipient of a private message read what was written         *)
(* (webserver.go:94-101), each from its own half, everybody reads a public *)
(* one, and nobody else a private one.                                     *)
(***************************************************************************)
ReadersReadTheText ==
    phase = "posted" =>
        \A n \in Node : ConvertMessageFormat(n, msg) =
            IF msg.destination \in {Everyone, n} \/ msg.origin = n THEN msg.text ELSE Unable
=============================================================================

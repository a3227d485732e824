-------------------------- MODULE EcryptfsPackets --------------------------
(***************************************************************************)
(* The header of an encrypted file: keystore.c and crypto.c.  A writer     *)
(* puts one packet set per authentication token behind the 26 octets of    *)
(* the fixed part; a reader walks over the packets and takes the file's    *)
(* key from one it has a token for.  A key of a private token goes to the  *)
(* user-space daemon and back in four messages (tags 64 to 67).            *)
(*                                                                         *)
(* A packet is a record at its offset.  The sizes, the length octets and   *)
(* the cipher codes are those of the code; an encrypted key is a record of *)
(* what it was made with, and decrypts to the file's key under the same.   *)
(***************************************************************************)
EXTENDS Integers, Sequences, SequencesExt

CONSTANTS Password,    \* signatures of passphrase tokens
          Private,     \* signatures of private keys
          EncSize,     \* size of a key that a private key encrypted
          Preset,      \* tokens that come with an encrypted_key that is not zero
          CryptStats,  \* ciphers and key sizes of new files
          TokenLists   \* signatures of the tokens a new file is written for

ASSUME PacketsAssumption ==
  /\ Password \cap Private = {} /\ EncSize \in [Private -> Nat]
  /\ TokenLists \subseteq Seq(Password \cup Private)

PAGE_SIZE == 4096
MAX_KEY_BYTES == 64
MAX_ENCRYPTED_KEY_BYTES == 512
Fixed == 26                      \* octets before the packets
Buffer == 8192                   \* the header that is written
Page == PAGE_SIZE - Fixed        \* the packets' part of the page that is read

VARIABLES phase,    \* "write", "failed", "written", "parse", "find", "done" or "refused"
          file,     \* crypt_stat of the file's writer, and the tokens it is written for
          todo,     \* tokens without a packet
          packets,  \* packets at their offsets
          len, max, \* octets written and left
          stat,     \* crypt_stat of the reader
          have,     \* tokens of the reader
          at,       \* where the reader is
          list      \* auth_tok_list, newest first

packetVars == <<phase, file, todo, packets, len, max, stat, have, at, list>>

-----------------------------------------------------------------------------
(* Lengths take one octet, or two.                                         *)
WriteLength(n) == IF n < 192 THEN <<n>>
                  ELSE IF n < 65536 THEN <<((n - 192) \div 256 + 192) % 256, (n - 192) % 256>>
                  ELSE << >>

ParseLength(d) ==
  CASE d[1] < 192 -> d[1]
    [] d[1] \in 192..223 -> (d[1] - 192) * 256 + d[2] + 192
    [] OTHER -> -1

(* RFC 2440's numbers for the ciphers; 0 is none.                          *)
CipherCode == [aes |-> 7, blowfish |-> 4, des3_ede |-> 2, cast5 |-> 3, twofish |-> 10, cast6 |-> 11]

CodeFor(cipher, bytes) ==
  IF cipher = "aes" THEN CASE bytes = 16 -> 7 [] bytes = 24 -> 8 [] bytes = 32 -> 9 [] OTHER -> 0
  ELSE CipherCode[cipher]

CipherOf(code) == IF code \in {8, 9} THEN "aes"
                  ELSE IF \E c \in DOMAIN CipherCode : CipherCode[c] = code
                  THEN CHOOSE c \in DOMAIN CipherCode : CipherCode[c] = code ELSE "none"

(* A key under a token: under the same cipher with the same key it comes   *)
(* back, otherwise something else does, and nobody notices.                *)
Encrypted(key, sig, cipher, bytes) == [key |-> key, by |-> <<sig, cipher, bytes>>]
Decrypted(k, sig, cipher, bytes) == IF k.by = <<sig, cipher, bytes>> THEN k.key ELSE "garbled"

Blank == [cipher |-> "none", keySize |-> 0, key |-> "none"]

(* A packet of this many octets behind its tag and length.                 *)
Sized(body, p) == [body |-> body, length |-> WriteLength(body)] @@ p
Octets(p) == 1 + Len(p.length) + p.body

-----------------------------------------------------------------------------
(* Messages: what a message holds of the key, and the length it announces. *)
write_tag_66(s) == [tag |-> 66, length |-> WriteLength(s.keySize + 3), code |-> CodeFor(s.cipher, s.keySize),
                    key |-> s.key]
write_tag_64(p) == [tag |-> 64, length |-> WriteLength(p.enc), secret |-> p.secret]

(* ecryptfsd: it encrypts cipher code, key and checksum, and gives them    *)
(* back, or reports an error in the status octet.                          *)
tag_67(m, sig) == [tag |-> 67, status |-> 0, length |-> WriteLength(EncSize[sig]),
                   secret |-> [content |-> m, by |-> sig]]
tag_65(m, sig) == [tag |-> 65, status |-> IF m.secret.by = sig THEN 0 ELSE 1,
                   length |-> m.secret.content.length, code |-> m.secret.content.code,
                   key |-> m.secret.content.key]

parsed_67(m) == IF m.status = 0 /\ ParseLength(m.length) \in 0..MAX_ENCRYPTED_KEY_BYTES
                THEN ParseLength(m.length) ELSE -1

parsed_65(m) ==
  IF m.status = 0 /\ ParseLength(m.length) \in 3..MAX_KEY_BYTES + 3 /\ CipherOf(m.code) # "none"
  THEN [cipher |-> CipherOf(m.code), keySize |-> ParseLength(m.length) - 3, key |-> m.key] ELSE Blank

-----------------------------------------------------------------------------
PacketsInit ==
  /\ \E s \in CryptStats, toks \in TokenLists :
        /\ file = [stat |-> [cipher |-> s[1], keySize |-> s[2], key |-> "fek"], tokens |-> toks]
        /\ todo = toks
  /\ phase = "write" /\ packets = << >> /\ len = 0 /\ max = Buffer - Fixed
  /\ stat = Blank /\ have = {} /\ at = 0 /\ list = << >>

reading == <<stat, have, at, list>>

(* The packets at the end of the header.  Each asks for three octets of    *)
(* length, though it takes one or two.                                     *)
Room(ps) == \A i \in DOMAIN ps : 4 + ps[i].body
               + (IF i = 1 THEN 0 ELSE Octets(ps[i - 1])) <= max
Put(ps) ==
  /\ packets' = packets @@ (len :> ps[1])
                        @@ (IF Len(ps) = 2 THEN len + Octets(ps[1]) :> ps[2] ELSE << >>)
  /\ len' = len + FoldLeft(LAMBDA n, p : n + Octets(p), 0, ps)
  /\ max' = Buffer - Fixed - len'

WriteFails == phase' = "failed" /\ len' = 0 /\ UNCHANGED <<file, todo, packets, max, reading>>

(* An AES key of 24 octets is encrypted as one of 32.                      *)
EncryptedSize(s) == IF s.cipher = "aes" /\ s.keySize = 24 THEN 32 ELSE s.keySize

(* What is written for a token: the key under the token, or what the token *)
(* has in its session_key, made with a key of its own.                     *)
Sealed(sig, s) == Encrypted(IF sig \in Preset THEN "another" ELSE s.key, sig, s.cipher, s.keySize)

(* write_tag_3_packet and write_tag_11_packet *)
write_password ==
  /\ phase = "write" /\ todo # << >> /\ Head(todo) \in Password
  /\ LET s == file.stat
         tag3 == Sized(13 + EncryptedSize(s),
                       [tag |-> 3, code |-> CodeFor(s.cipher, s.keySize), enc |-> EncryptedSize(s),
                        secret |-> Sealed(Head(todo), s)])
         tag11 == Sized(22, [tag |-> 11, sig |-> Head(todo)])
     IN IF tag3.code # 0 /\ Room(<<tag3, tag11>>)
        THEN Put(<<tag3, tag11>>) /\ todo' = Tail(todo) /\ UNCHANGED <<phase, file, reading>>
        ELSE WriteFails

(* write_tag_1_packet, with the daemon's help *)
write_private ==
  /\ phase = "write" /\ todo # << >> /\ Head(todo) \in Private \ Preset
  /\ LET m == tag_67(write_tag_66(file.stat), Head(todo))
         enc == parsed_67(m)
         tag1 == Sized(10 + enc, [tag |-> 1, sig |-> Head(todo), enc |-> enc, secret |-> m.secret])
     IN IF enc # -1 /\ Room(<<tag1>>)
        THEN Put(<<tag1>>) /\ todo' = Tail(todo) /\ UNCHANGED <<phase, file, reading>>
        ELSE WriteFails

(* With the token's encrypted_key it leaves enc_key_size zero.             *)
write_private_preset ==
  /\ phase = "write" /\ todo # << >> /\ Head(todo) \in Private \cap Preset
  /\ LET m == tag_67(write_tag_66(file.stat), Head(todo))
         tag1 == Sized(10, [tag |-> 1, sig |-> Head(todo), enc |-> 0, secret |-> [m.secret EXCEPT !.by = "garbled"]])
     IN IF Room(<<tag1>>)
        THEN Put(<<tag1>>) /\ todo' = Tail(todo) /\ UNCHANGED <<phase, file, reading>>
        ELSE WriteFails

(* The daemon is not there or its answer is an error.                      *)
daemon_fails_write == /\ phase = "write" /\ todo # << >> /\ Head(todo) \in Private \ Preset
                      /\ WriteFails

boundary_byte ==
  /\ phase = "write" /\ todo = << >>
  /\ phase' = IF max > 0 THEN "written" ELSE "failed"
  /\ UNCHANGED <<file, todo, packets, len, max, reading>>

-----------------------------------------------------------------------------
writing == <<file, todo, packets, len, max>>

(* Another mount, with some of the tokens, reads one page of the header.   *)
read_headers(own) ==
  /\ phase = "written" /\ phase' = "parse" /\ have' = own
  /\ UNCHANGED <<writing, stat, at, list>>

Refuse == phase' = "refused" /\ UNCHANGED <<writing, stat, have, at, list>>

Limit == PAGE_SIZE - 8 - at      \* max_packet_size, as if the packets began with the page
End(p) == 1 + Len(p.length) + ParseLength(p.length)

(* What the page holds of a packet: what is behind its end is anything.    *)
Packet == phase = "parse" /\ at \in DOMAIN packets /\ at < Page
Whole(i, p) == i + Octets(p) <= Page
Secret(i, p) == IF Whole(i, p) THEN p.secret ELSE [p.secret EXCEPT !.by = "garbled"]

(* Mutant: the key is as long as it is encrypted.                          *)
KeySizeOf_body(p) == ParseLength(p.length) - 13
KeySizeOf(p) == IF p.code = 8 THEN 24 ELSE ParseLength(p.length) - 13

(* A tag 3 packet is followed by a tag 11 packet with its signature.       *)
Valid_tag_3(p) == ParseLength(p.length) \in 13..13 + MAX_ENCRYPTED_KEY_BYTES /\ End(p) <= Limit
Valid_tag_11(i) == /\ i \in DOMAIN packets /\ packets[i].tag = 11
                   /\ End(packets[i]) + 1 <= Limit /\ ParseLength(packets[i].length) = 22
Candidate(p, sig) == [sig |-> sig, type |-> "password", enc |-> ParseLength(p.length) - 13, secret |-> Secret(at, p)]

parse_tag_3 ==
  /\ Packet /\ packets[at].tag = 3
  /\ LET p == packets[at]
         next == at + End(p)
     IN IF ~(Valid_tag_3(p) /\ Valid_tag_11(next)) THEN Refuse
        ELSE LET t == packets[next]
             IN \/ /\ stat' = [stat EXCEPT !.cipher = CipherOf(p.code), !.keySize = KeySizeOf(p)]
                   /\ at' = next + End(t)
                   /\ list' = <<Candidate(p, IF Whole(next, t) THEN t.sig ELSE "garbled")>> \o list
                   /\ UNCHANGED <<phase, writing, have>>
                \/ ~Whole(next, t) /\ Refuse

parse_tag_1 ==
  /\ Packet /\ packets[at].tag = 1
  /\ LET p == packets[at]
         n == ParseLength(p.length) - 10
     IN IF n \in 0..MAX_ENCRYPTED_KEY_BYTES /\ End(p) <= Limit
        THEN /\ at' = at + End(p)
             /\ list' = <<[sig |-> p.sig, type |-> "private", enc |-> n, secret |-> Secret(at, p)]>> \o list
             /\ UNCHANGED <<phase, writing, stat, have>>
        ELSE Refuse

parse_end ==
  /\ phase = "parse" /\ ~Packet
  /\ phase' \in (IF list = << >> THEN {"refused"} ELSE {"find"}) \cup (IF at < Page THEN {} ELSE {"refused"})
  /\ UNCHANGED <<writing, stat, have, at, list>>

get_auth_tok_sig(i) == list[i].sig
Usable == {i \in DOMAIN list : get_auth_tok_sig(i) \in have}
First == CHOOSE i \in Usable : \A j \in Usable : i <= j
Discard(i) == list' = RemoveAt(list, i) /\ UNCHANGED <<phase, writing, stat, have, at>>

decrypt_passphrase ==
  /\ phase = "find" /\ Usable # {} /\ list[First].type = "password"
  /\ stat' = [stat EXCEPT !.key = Decrypted(list[First].secret, list[First].sig, stat.cipher, stat.keySize)]
  /\ phase' = "done" /\ UNCHANGED <<writing, have, at, list>>

decrypt_pki ==
  /\ phase = "find" /\ Usable # {} /\ list[First].type = "private"
  /\ LET s == parsed_65(tag_65(write_tag_64(list[First]), list[First].sig))
     IN IF list[First].secret.by # "garbled" /\ s # Blank
        THEN stat' = s /\ phase' = "done" /\ UNCHANGED <<writing, have, at, list>>
        ELSE Discard(First)

daemon_fails_read == phase = "find" /\ Usable # {} /\ list[First].type = "private" /\ Discard(First)

no_usable_token == phase = "find" /\ Usable = {} /\ Refuse

PacketsNext ==
  \/ write_password \/ write_private \/ write_private_preset \/ daemon_fails_write \/ boundary_byte
  \/ \E own \in SUBSET ToSet(file.tokens) : read_headers(own)
  \/ parse_tag_3 \/ parse_tag_1 \/ parse_end
  \/ decrypt_passphrase \/ decrypt_pki \/ daemon_fails_read \/ no_usable_token

-----------------------------------------------------------------------------
(* The whole header is in the page that is read.                           *)
FitsPage == len <= Page

(* A file that opens has the key, the cipher and the key size it was       *)
(* created with, whichever token gave the key, unless that token came with *)
(* an encrypted key: then its key, for the same cipher.  The packets of a  *)
(* header lie one behind the other within the buffer, and the reader never *)
(* passes the end and finds a candidate for every passphrase it was        *)
(* written for.  All but the place for headers that fit the page read.     *)
HeaderReadBack ==
  /\ phase # "failed" =>
       \A i \in DOMAIN packets :
         /\ i + Octets(packets[i]) < Buffer - Fixed
         /\ \A j \in DOMAIN packets : i < j => i + Octets(packets[i]) <= j
  /\ FitsPage =>
       /\ at <= len
       /\ phase = "find" => ToSet(SelectSeq(file.tokens, LAMBDA k : k \in Password)) \subseteq {list[i].sig : i \in DOMAIN list}
       /\ phase = "refused" /\ file.tokens # << >> => have \cap Password = {}
       /\ phase = "done" => stat = IF get_auth_tok_sig(First) \in Preset
                                  THEN [file.stat EXCEPT !.key = "another"] ELSE file.stat
=============================================================================

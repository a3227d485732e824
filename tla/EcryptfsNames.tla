--------------------------- MODULE EcryptfsNames ---------------------------
(***************************************************************************)
(* Encrypted file names: crypto.c and keystore.c.  A name becomes a tag 70 *)
(* packet: pseudo-random octets, a zero, the name, padded in front to      *)
(* whole cipher blocks and encrypted with the mount's file name key.  The  *)
(* packet is spelled with 64 characters, four for three octets, behind a   *)
(* prefix, and is the lower file's name; a symbolic link's target is       *)
(* stored the same way.  Names and packets are lengths here; the spelling  *)
(* is defined on octets and checked on short packets.                      *)
(***************************************************************************)
EXTENDS Integers, Sequences, SequencesExt

CONSTANTS NameLengths,  \* lengths of names
          LinkLengths,  \* lengths of symbolic links' targets
          LowerLimits,  \* longest name of the lower file system
          BlockSizes,   \* block sizes of the file names' ciphers
          KeyBytes,     \* file name key sizes of the mounts
          Packets       \* octets to spell

PREFIX_SIZE == 24          \* "ECRYPTFS_FNEK_ENCRYPTED."
MAX_METADATA_SIZE == 13    \* of a tag 70 packet: tag, length, signature, cipher
RANDOM_BYTES == 16         \* at least, before the zero
NAME_MAX == 255
LINK_MAX == 4095           \* longest target of the lower file system's links
WORD == 2 ^ 24             \* the range of size_t, scaled down to what TLC's integers hold

VARIABLES case,     \* the mounts, the name and the octets at hand
          stage,    \* "begin", "refused", "stored" or "listed"
          spelled,  \* the characters of the octets
          lower,    \* the lower file's name
          shown     \* what reading the directory shows: "name", "asis" or "garbled"

nameVars == <<case, stage, spelled, lower, shown>>

-----------------------------------------------------------------------------
Up(n, m) == (n + m - 1) \div m

(* "-.", digits, capitals, small letters, and the map back.                *)
Char(i) == CASE i < 2 -> 45 + i [] i \in 2..11 -> 46 + i [] i \in 12..37 -> 53 + i [] OTHER -> 59 + i
RevMap(c) == CASE c \in 45..46 -> c - 45 [] c \in 48..57 -> c - 46 [] c \in 65..90 -> c - 53
               [] c \in 97..122 -> c - 59 [] OTHER -> 0

Encode(src) ==
  LET octet(k) == IF k \in DOMAIN src THEN src[k] ELSE 0
      sextet(b, j) == CASE j = 0 -> octet(b + 1) \div 4
                        [] j = 1 -> (octet(b + 1) % 4) * 16 + octet(b + 2) \div 16
                        [] j = 2 -> (octet(b + 2) % 16) * 4 + octet(b + 3) \div 64
                        [] j = 3 -> octet(b + 3) % 64
  IN [k \in 1..4 * Up(Len(src), 3) |-> Char(sextet(((k - 1) \div 4) * 3, (k - 1) % 4))]

DecodedSize(n) == (3 * n) \div 4
MaxDecodedSize(n) == (((n + 1) * 3) % WORD) \div 4   \* what is allocated
OctetsWritten(n) == IF n % 4 = 0 THEN DecodedSize(n) ELSE DecodedSize(n) + 1

Decode(src) ==
  LET six(k) == RevMap(src[k])
  IN [k \in 1..DecodedSize(Len(src)) |->
       LET b == ((k - 1) \div 3) * 4
       IN CASE k % 3 = 1 -> six(b + 1) * 4 + six(b + 2) \div 16
            [] k % 3 = 2 -> (six(b + 2) % 16) * 16 + six(b + 3) \div 4
            [] k % 3 = 0 -> (six(b + 3) % 4) * 64 + six(b + 4)]

-----------------------------------------------------------------------------
(* write_tag_70_packet *)
Aligned(n, bs) == bs * Up(RANDOM_BYTES + 1 + n, bs)
LengthOctets(n) == IF n < 192 THEN 1 ELSE 2
PacketSize(n, bs) == 1 + LengthOctets(9 + Aligned(n, bs)) + 9 + Aligned(n, bs)

(* The octets before the name: hash octets, a zero among them replaced,    *)
(* and the zero that ends them.  zero is where the hash has one, or 0.     *)
(* Mutant: a zero of the hash is left.                                     *)
Zeros_hashed(n, bs, zero) == {Aligned(n, bs) - n} \cup ({zero} \ {0})
Zeros(n, bs, zero) == {Aligned(n, bs) - n}

LowerLength(n, bs) == PREFIX_SIZE + 4 * Up(PacketSize(n, bs), 3)

(* ecryptfs_set_f_namelen, with size_t arithmetic until the last line *)
Signed(x) == IF x % WORD >= WORD \div 2 THEN (x % WORD) - WORD ELSE x % WORD

set_f_namelen(limit, bs) ==
  IF limit = NAME_MAX /\ bs \in {8, 16} THEN 143
  ELSE LET n == Signed(MaxDecodedSize((limit - PREFIX_SIZE) % WORD) - 3 - MAX_METADATA_SIZE - RANDOM_BYTES
                       - (bs - 1))
       IN IF n < 0 THEN 0 ELSE n

-----------------------------------------------------------------------------
NoName == [length |-> 0]

NamesInit ==
  /\ case \in [n : NameLengths, limit : LowerLimits, bs : BlockSizes, zero : {0, 1, RANDOM_BYTES},
               writer : KeyBytes, reader : KeyBytes, token : BOOLEAN, octets : {<< >>}]
          \cup [n : LinkLengths, limit : {LINK_MAX}, bs : BlockSizes, zero : {0}, writer : KeyBytes,
                reader : KeyBytes, token : BOOLEAN, octets : {<< >>}]
          \cup [n : {1}, limit : {NAME_MAX}, bs : {16}, zero : {0}, writer : {16}, reader : {16},
                token : {TRUE}, octets : Packets]
  /\ stage = "begin" /\ spelled = << >> /\ lower = NoName /\ shown = "none"

(* ecryptfs_encrypt_and_encode_filename, when a file or a link is made;    *)
(* the lower file system refuses a name or a target that is too long.      *)
IsLink == case.limit = LINK_MAX
encrypt_filename ==
  /\ stage = "begin"
  /\ LET length == LowerLength(case.n, case.bs)
     IN IF length > case.limit THEN stage' = "refused" /\ UNCHANGED lower
        ELSE /\ stage' = "stored"
             /\ lower' = [length |-> length, body |-> 9 + Aligned(case.n, case.bs),
                          zeros |-> Zeros(case.n, case.bs, case.zero), by |-> case.writer]
  /\ spelled' = Encode(case.octets)
  /\ UNCHANGED <<case, shown>>

(* ecryptfs_decode_and_decrypt_filename and parse_tag_70_packet, when the  *)
(* directory or the link is read.  The key's size is the reading mount's,  *)
(* whatever the packet says; without a token, and when there is no zero,   *)
(* the lower name is shown as it is.                                       *)
Length_shown(z) == lower.body - 9 - z
decode_and_decrypt_filename ==
  /\ stage = "stored" /\ stage' = "listed"
  /\ LET first == CHOOSE z \in lower.zeros : \A y \in lower.zeros : z <= y
         fits == 1 + LengthOctets(lower.body) + lower.body <= DecodedSize(lower.length - PREFIX_SIZE)
     IN IF ~case.token \/ ~fits THEN shown' = "asis"
        ELSE IF case.reader # lower.by THEN shown' \in {"asis", "garbled"}
        ELSE shown' = IF Length_shown(first) = case.n THEN "name"
                      ELSE IF Length_shown(first) > 0 THEN "garbled" ELSE "asis"
  /\ UNCHANGED <<case, spelled, lower>>

filldir == ~IsLink /\ decode_and_decrypt_filename
get_link == IsLink /\ decode_and_decrypt_filename

NamesNext == encrypt_filename \/ filldir \/ get_link

-----------------------------------------------------------------------------
(* A directory shows every file under the name it was given, and a link    *)
(* its target, to a mount with the same key, wherever the hash has a zero  *)
(* and however the lengths fall.                                           *)
ShownAsGiven == stage = "listed" /\ case.token /\ case.reader = case.writer => shown = "name"

(* Spelling loses nothing: the octets come back, followed by zeros; what   *)
(* is allocated for them holds what is written.                            *)
SpellingInverts ==
  LET n == lower.length - PREFIX_SIZE
      back == Decode(spelled)
  IN /\ OctetsWritten(n) <= MaxDecodedSize(n)
     /\ Len(back) - Len(case.octets) \in 0..2
     /\ \A k \in DOMAIN back : back[k] = IF k \in DOMAIN case.octets THEN case.octets[k] ELSE 0

(* No name up to the length that statfs announces is too long for the      *)
(* lower file system, and for the common limit the announced one is exact. *)
NamelenSafe ==
  LET announced == set_f_namelen(case.limit, case.bs)
  IN /\ stage = "refused" => case.n > announced
     /\ stage = "stored" /\ case.limit = NAME_MAX => case.n <= announced

(* Names survive: they are shown as given, their spelling is inverted, and *)
(* none that statfs allows is refused.                                     *)
NamesSurvive == /\ ShownAsGiven
                /\ stage = "stored" => SpellingInverts
                /\ IsLink \/ NamelenSafe
=============================================================================

------------------------- MODULE MCEcryptfsFormats -------------------------
(* eCryptfs around its data: headers, file names, directories, the ciphers *)
(* behind them, and mounting.  They share nothing here: each has its own *)
(* initial states, with the others at rest.                                *)
EXTENDS EcryptfsPackets, EcryptfsNames, EcryptfsCiphers, EcryptfsDirs, EcryptfsMount, TLC

CONSTANTS p1, p2, q256, q512, q600, p3, q128

MCEncSize == [q \in {q256, q512, q600, q128} |-> CASE q = q128 -> 128 [] q = q256 -> 256 [] q = q512 -> 512 [] OTHER -> 600]
MCCryptStats == {<<"aes", 16>>, <<"aes", 24>>, <<"aes", 32>>, <<"aes", 20>>, <<"blowfish", 56>>,
                 <<"des3_ede", 24>>, <<"twofish", 24>>, <<"cast5", 16>>, <<"cast6", 32>>}
Seven == [i \in 1..7 |-> q512]
MCTokenLists == {<< >>, <<p1>>, <<q256>>, <<q600>>, <<p1, p2>>, <<p1, q256>>, <<q512, p1>>, <<q256, q512>>,
                 <<p1, q512, p2>>, <<q256, p1, q600>>, <<p3>>, <<p1, p3>>, <<p3, q128, p1>>, <<q128>>,
                 Seven \o <<p1, q512>>,                   \* ends behind the page
                 Seven \o <<q256, p2, p2, p1>>,           \* ends in the last octets of the page, or beyond
                 Seven \o Seven \o <<p1, q512>>,          \* larger than the buffer
                 Seven \o Seven \o <<q512, q256, p1>>}    \* ends with the buffer
MCNameLengths == (1..40) \cup (100..150) \cup (180..230)
MCLinkLengths == {1, 150, 165, 166, 4095} \cup (2990..3040)
MCPackets == UNION {[1..n -> {0, 3, 66, 171, 255}] : n \in 1..4}

Given(name, values) == {[name |-> name, value |-> v] : v \in values}
Option_ == UNION {Given("sig", {"a", "b"}), Given("fnek_sig", {"a", "b"}), Given("cipher", {"blowfish"}),
                  Given("key_bytes", {16, 20}), Given("fn_cipher", {"blowfish"}), Given("fn_key_bytes", {24}),
                  Given("encrypted_view", {""}), Given("passthrough", {""}), Given("check_dev_ruid", {""})}
Sig_a == [name |-> "sig", value |-> "a"]
MCMountOptions == {<<x, y>> : x, y \in Option_}
                  \cup {<<Sig_a, [name |-> "key_bytes", value |-> 16], x, y>> : x, y \in Option_}

AtRest == /\ case = [n |-> 1, limit |-> NAME_MAX, bs |-> 16, zero |-> 0, writer |-> 16, reader |-> 16,
                     token |-> TRUE, octets |-> << >>]
          /\ stage = "listed" /\ spelled = << >>
          /\ lower = [length |-> LowerLength(1, 16), body |-> 41, zeros |-> Zeros(1, 16, 0), by |-> 16]
          /\ shown = "name"

VARIABLE part

PacketsRest ==
  /\ file = [stat |-> Blank, tokens |-> << >>] /\ todo = << >> /\ phase = "failed"
  /\ packets = << >> /\ len = 0 /\ max = Buffer - Fixed
  /\ stat = Blank /\ have = {} /\ at = 0 /\ list = << >>

Symmetry == Permutations(Inodes) \cup Permutations(Dirs)

Others(p) == /\ p # "packets" => PacketsRest
             /\ p # "names" => AtRest
             /\ p # "ciphers" => CiphersInit
             /\ p # "dirs" => DirsInit
             /\ MountInit

Init == \/ part = "packets" /\ PacketsInit /\ Others(part)
        \/ part = "names" /\ NamesInit /\ Others(part)
        \/ part = "ciphers" /\ CiphersInit /\ Others(part)
        \/ part = "dirs" /\ DirsInit /\ Others(part)
        \/ part = "mount" /\ Others(part)
Next == /\ \/ part = "packets" /\ PacketsNext /\ UNCHANGED <<nameVars, cipherVars, dirVars, mountVars>>
           \/ part = "names" /\ NamesNext /\ UNCHANGED <<packetVars, cipherVars, dirVars, mountVars>>
           \/ part = "ciphers" /\ CiphersNext /\ UNCHANGED <<packetVars, nameVars, dirVars, mountVars>>
           \/ part = "dirs" /\ DirsNext /\ UNCHANGED <<packetVars, nameVars, cipherVars, mountVars>>
           \/ part = "mount" /\ MountNext /\ UNCHANGED <<packetVars, nameVars, cipherVars, dirVars>>
        /\ UNCHANGED part
Spec == Init /\ [][Next]_<<packetVars, nameVars, cipherVars, dirVars, mountVars, part>>
=============================================================================

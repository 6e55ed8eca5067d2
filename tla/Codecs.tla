------------------------------- MODULE Codecs -------------------------------
(***************************************************************************)
(* How a text becomes the data_crypted of a token and comes back: BCD or   *)
(* PKCS7 blocks (xxutils/aes_crypter.cpp), AES in ECB or CBC mode, hex and *)
(* BASE64 (xxutils/utils.cpp), and the normal form of a card number        *)
(* (xxcommon/card_crypter.cpp).  A conversion that throws is Error, or an  *)
(* empty set if its result is random.                                      *)
(***************************************************************************)
EXTENDS Integers, Sequences

CONSTANTS
  BlockSize,       \* AES_CRYPTER_BLOCK_SIZE_BYTES, 16 in the code
  PanMin, PanMax,  \* 12 and 19
  Padding          \* bound: the random nibbles

Digit == 0 .. 9
Nibble == 0 .. 15
Byte == 0 .. 255
Other == 16      \* a character that is neither
Space == 17
Error == <<-1>>

ASSUME CodecsAssumption ==
  /\ BlockSize \in 1 .. 127
  /\ PanMin \in Nat /\ PanMax \in PanMin .. 2 * BlockSize
  /\ Padding \subseteq Nibble

Ran(s) == {s[i] : i \in DOMAIN s}
Least(S) == CHOOSE i \in S : \A j \in S : i <= j

-----------------------------------------------------------------------------
(* Texts.                                                                  *)

\* The digits among the first i characters.
Digits(pan) ==
  LET digits[i \in 0 .. Len(pan)] ==
        IF i = 0 THEN <<>>
        ELSE IF pan[i] \in Digit THEN Append(digits[i - 1], pan[i]) ELSE digits[i - 1]
  IN  digits[Len(pan)]

\* normalize_pan: digits and white space only, and then 12 to 19 digits.
NormalizePan(pan) ==
  IF Ran(pan) \subseteq Digit \cup {Space} /\ Len(Digits(pan)) \in PanMin .. PanMax
  THEN Digits(pan) ELSE Error

\* string_to_hexstring, without spaces.
ToHex(bytes) ==
  [i \in 1 .. 2 * Len(bytes) |->
     IF i % 2 = 1 THEN bytes[(i + 1) \div 2] \div 16 ELSE bytes[i \div 2] % 16]

\* string_from_hexstring of an even number of hex digits.
FromHex(hex) == [i \in 1 .. Len(hex) \div 2 |-> 16 * hex[2 * i - 1] + hex[2 * i]]

\* Mutant of Terminated: random nibbles right after the text.
TerminatedAtRandom(text) == text

Terminated(text) == text \o <<15>>

\* bcd_encode: the digits, f, and random nibbles up to the end of the block; nothing
\* for nothing.
BcdEncode(text) ==
  LET x == Terminated(text)
      size == 2 * BlockSize
  IN  IF text = <<>> THEN {<<>>}
      ELSE IF Len(text) > size \/ ~(Ran(text) \subseteq Nibble) THEN {}
      ELSE {FromHex(SubSeq(x \o pad, 1, size)) :
              pad \in [1 .. (IF Len(x) > size THEN 0 ELSE size - Len(x)) -> Padding]}

\* bcd_decode: the digits up to the first nibble that is none.
BcdDecode(block) ==
  LET x == ToHex(block)
      stops == {i \in 1 .. Len(x) : x[i] \notin Digit}
  IN  SubSeq(x, 1, IF stops = {} THEN Len(x) ELSE Least(stops) - 1)

\* pkcs7_encode: 1 to BlockSize bytes, each of them their number.
Pkcs7Encode(text) ==
  LET n == BlockSize - (Len(text) % BlockSize)
  IN  text \o [i \in 1 .. n |-> n]

\* pkcs7_decode
Pkcs7Decode(blocks) ==
  LET size == Len(blocks)
      d == blocks[size]
  IN  IF /\ size % BlockSize = 0
         /\ d \in 1 .. BlockSize
         /\ \A i \in size - d + 1 .. size : blocks[i] = d
      THEN SubSeq(blocks, 1, size - d) ELSE Error

-----------------------------------------------------------------------------
(* AESCrypter.  The block cipher of OpenSSL is any permutation of blocks   *)
(* that depends on the key.                                                *)

Aes(key, block) == [i \in 1 .. BlockSize |-> (block[i] + key + i) % 256]
AesInverse(key, block) == [i \in 1 .. BlockSize |-> (block[i] - key - i) % 256]

Block(s, k) == SubSeq(s, (k - 1) * BlockSize + 1, k * BlockSize)
Joined(blocks, n) ==
  [i \in 1 .. n * BlockSize |-> blocks[(i - 1) \div BlockSize + 1][((i - 1) % BlockSize) + 1]]

XorBit(a, b, p) == p * ((a \div p + b \div p) % 2)
XorByte(a, b) ==
  XorBit(a, b, 1) + XorBit(a, b, 2) + XorBit(a, b, 4) + XorBit(a, b, 8) +
  XorBit(a, b, 16) + XorBit(a, b, 32) + XorBit(a, b, 64) + XorBit(a, b, 128)

\* memxor
Memxor(s, t) == [i \in 1 .. BlockSize |-> XorByte(s[i], t[i])]
ZeroBlock == [i \in 1 .. BlockSize |-> 0]

\* encrypt: whole blocks, at least one.  With CBC each is first mixed with the
\* previous result.
Encrypt(mode, key, text) ==
  LET n == Len(text) \div BlockSize
      out[k \in 0 .. n] ==
        IF k = 0 THEN ZeroBlock
        ELSE Aes(key, IF mode = "cbc" THEN Memxor(Block(text, k), out[k - 1]) ELSE Block(text, k))
  IN  IF n > 0 /\ Len(text) % BlockSize = 0 THEN Joined(out, n) ELSE Error

\* decrypt
Decrypt(mode, key, cipher) ==
  LET n == Len(cipher) \div BlockSize
      Previous(k) == IF k = 1 THEN ZeroBlock ELSE Block(cipher, k - 1)
      out == [k \in 1 .. n |->
                IF mode = "cbc"
                THEN Memxor(AesInverse(key, Block(cipher, k)), Previous(k))
                ELSE AesInverse(key, Block(cipher, k))]
  IN  IF n > 0 /\ Len(cipher) % BlockSize = 0 THEN Joined(out, n) ELSE Error

-----------------------------------------------------------------------------
(* BASE64: a sequence of sextets, and of Equals at its end.                *)

Sextet == 0 .. 63
Equals == 64

\* The bits 6i .. 6i+5 of a string of bytes, with zeros after its end.
SextetAt(bytes, i) ==
  LET At(j) == IF j <= Len(bytes) THEN bytes[j] ELSE 0
      first == (6 * i) \div 8 + 1
  IN  ((256 * At(first) + At(first + 1)) \div <<1024, 16, 64, 256>>[1 + (i % 4)]) % 64

\* Mutant of EncodeBase64: no padding.
EncodeBase64Bare(bytes) ==
  [i \in 1 .. (8 * Len(bytes) + 5) \div 6 |-> SextetAt(bytes, i - 1)]

\* encode_base64
EncodeBase64(bytes) ==
  LET used == (8 * Len(bytes) + 5) \div 6
  IN  [i \in 1 .. 4 * ((Len(bytes) + 2) \div 3) |->
         IF i <= used THEN SextetAt(bytes, i - 1) ELSE Equals]

\* check_base64
CheckBase64(s) ==
  LET size == Len(s)
  IN  /\ size % 4 = 0
      /\ Ran(s) \subseteq Sextet \cup {Equals}
      /\ \A i \in 1 .. size : s[i] = Equals =>
            i = size \/ (i = size - 1 /\ s[size] = Equals)

\* b64_decoded_size
DecodedSize(s) ==
  3 * (Len(s) \div 4) - (IF s[Len(s)] # Equals THEN 0
                         ELSE IF s[Len(s) - 1] = Equals THEN 2 ELSE 1)

\* decode_base64: the bits 8j .. 8j+7 of the sextets.
ByteAt(s, j) ==
  LET At(i) == IF s[i] = Equals THEN 0 ELSE s[i]
      first == (8 * j) \div 6 + 1
  IN  ((64 * At(first) + At(first + 1)) \div <<16, 4, 1>>[1 + (j % 3)]) % 256

DecodeBase64(s) ==
  IF s = <<>> THEN <<>>
  ELSE IF CheckBase64(s) THEN [j \in 1 .. DecodedSize(s) |-> ByteAt(s, j - 1)]
  ELSE Error

=============================================================================

---------------------------- MODULE Credentials -----------------------------
(***************************************************************************)
(* What the table of users keeps of a password, and how a password is      *)
(* compared with it: the salt and the hash in hexadecimal digits, between  *)
(* dollars.                                                                *)
(*                                                                         *)
(* A text is a sequence of characters, except that "pbkdf2" and the        *)
(* number of iterations, which nothing reads again, are one element each.  *)
(***************************************************************************)
EXTENDS Naturals, Sequences

CONSTANTS Iterations,   \* the decimal digits of ITERATIONS
          Pbkdf2(_, _)  \* by password and salt, the bytes that OpenSSL derives

Byte == 0 .. 255

HexDigit == <<"0", "1", "2", "3", "4", "5", "6", "7", "8", "9", "a", "b", "c", "d", "e", "f">>

\* The value of a digit, as stoi with base 16 takes it.
Value(c) == CHOOSE v \in 0 .. 15 : HexDigit[v + 1] = c

\* Two digits for each byte, the first a 0 if need be.
toHex(data) ==
    [i \in 1 .. 2 * Len(data) |->
        LET byte == data[(i + 1) \div 2]
        IN  HexDigit[1 + IF i % 2 = 1 THEN byte \div 16 ELSE byte % 16]]

\* A byte for every two digits, and one for a digit that is left over.
toBinary(text) ==
    [i \in 1 .. (Len(text) + 1) \div 2 |->
        IF 2 * i <= Len(text) THEN 16 * Value(text[2 * i - 1]) + Value(text[2 * i])
        ELSE Value(text[2 * i - 1])]

encodeResult(salt, hash) ==
    <<"$", "pbkdf2", "$", Iterations, "$">> \o toHex(salt) \o <<"$">> \o toHex(hash)

\* find('$', after + 1), where 0 is npos: the search after npos begins anew.
FindDollar(text, after) ==
    LET dollars == {i \in after + 1 .. Len(text) : text[i] = "$"}
    IN  IF dollars = {} THEN 0 ELSE CHOOSE i \in dollars : \A j \in dollars : i <= j

\* The salt and the hash, or nothing, for the exception of a text with too few dollars.
decodeResult(stored) ==
    LET first  == FindDollar(stored, 0)
        second == FindDollar(stored, first)
        third  == FindDollar(stored, second)
        fourth == FindDollar(stored, third)
    IN  IF 0 \in {first, second, third, fourth} THEN <<>>
        ELSE <<SubSeq(stored, third + 1, fourth - 1), SubSeq(stored, fourth + 1, Len(stored))>>

\* generateSalt chooses the salt.
hashPassword(password, salt) == encodeResult(salt, Pbkdf2(password, salt))

\* The iterations are those of the program, whatever the stored text says.
verifyPasswords(stored, password) ==
    LET decoded == decodeResult(stored)
    IN  decoded[2] = toHex(Pbkdf2(password, toBinary(decoded[1])))
=============================================================================

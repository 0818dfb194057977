------------------------------ MODULE MCServer ------------------------------
(* Instances of Server for TLC: the sets of each run are in its .cfg. *)
EXTENDS Server, Naturals, Sequences, TLC

CONSTANTS s1, s2, s3,   \* sessions
          ann, bob      \* names, where they are interchangeable

SessionSymmetry == Permutations(Session)

SessionNameSymmetry == Permutations(Session) \cup Permutations(Name)

(* Server takes the stored text of a password for the password.  On salts of up *)
(* to two bytes and hashes of up to four, a stored text accepts nothing else.   *)
SampleHash(password, salt) == <<password, 255 - password>> \o salt

Hashing == INSTANCE Credentials WITH Iterations <- "100000", Pbkdf2 <- SampleHash

SampleBytes == {0, 9, 10, 16, 160, 255}
SampleSalts == UNION {[1 .. n -> SampleBytes] : n \in 0 .. 2}

ASSUME StoredTextIsFaithful ==
    \A salt \in SampleSalts :
        /\ Hashing!toBinary(Hashing!toHex(salt)) = salt
        /\ \A p, q \in SampleBytes :
              Hashing!verifyPasswords(Hashing!hashPassword(p, salt), q) <=> p = q
=============================================================================

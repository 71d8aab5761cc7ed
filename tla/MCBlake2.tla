------------------------------ MODULE MCBlake2 ------------------------------
(***************************************************************************)
(* The streaming interface over blocks of two and three bytes, for TLC,    *)
(* and beside it the compression function at its real size: a behaviour    *)
(* of this specification is one of either.                                 *)
(***************************************************************************)
EXTENDS Blake2Stream

CONSTANT Tests

VARIABLES test, h, v, block, round

Compress == INSTANCE Blake2Compress

MCBLOCKBYTES == [b |-> 2, s |-> 3]
MCOUTBYTES == [b |-> 2, s |-> 2]
MCKEYBYTES == [b |-> 2, s |-> 1]
MCDEGREE == [b |-> 3, s |-> 2]
MCWORD == [b |-> 4, s |-> 4]
MCXOFUNKNOWN == [b |-> 7, s |-> 6]
MCKeys == {<<>>, <<"k1">>, <<"k1", "k2">>, <<"k1", "k2", "k3">>}

\* Tests/RaiBlocksBasicTests/BlockTests.swift: the previous hash, destination and
\* balance of the send block it hashes, and the digest it expects.
Previous ==
  <<215, 230, 89, 185, 196, 72, 178, 65, 21, 123, 236, 165, 221, 161, 180, 244,
    81, 85, 90, 225, 97, 73, 209, 97, 1, 60, 2, 141, 195, 104, 0, 169>>

DestinationAndBalance ==
  <<172, 135, 167, 83, 94, 158, 240, 172, 165, 213, 237, 31, 172, 211, 85, 242,
    37, 12, 236, 199, 97, 52, 96, 23, 112, 24, 194, 88, 75, 10, 175, 73,
    0, 0, 0, 56, 74, 182, 208, 93, 103, 178, 24, 70, 252, 0, 0, 0>>

BlockHash ==
  <<207, 28, 201, 66, 176, 93, 187, 97, 28, 249, 151, 157, 46, 127, 92, 109,
    212, 4, 43, 66, 108, 153, 193, 197, 206, 90, 215, 132, 6, 90, 63, 133>>

\* testWorkScore1: the digest, whose value it compares with the threshold.
TestWork ==
  <<222, 250, 246, 130, 183, 75, 51, 36>>

WorkScore ==
  <<229, 199, 175, 125, 240, 255, 255, 255>>

\* RFC 7693, appendix B: BLAKE2s-256 of "abc"; and of the block above, which fills
\* more than one block of blake2s.
AbcDigest ==
  <<80, 140, 94, 140, 50, 124, 20, 226, 225, 167, 43, 163, 78, 235, 69, 47,
    55, 69, 139, 32, 158, 214, 58, 41, 77, 153, 155, 76, 134, 103, 89, 130>>

BlockDigest ==
  <<35, 47, 156, 190, 199, 152, 190, 111, 47, 120, 0, 14, 50, 2, 97, 124,
    63, 25, 211, 168, 107, 39, 81, 71, 206, 51, 233, 146, 18, 157, 76, 220>>

MCTests == {
  [f |-> "b", outlen |-> 32, msg |-> Previous \o DestinationAndBalance,
   digest |-> BlockHash],
  [f |-> "b", outlen |-> 8, msg |-> TestWork \o Previous, digest |-> WorkScore],
  [f |-> "s", outlen |-> 32, msg |-> <<97, 98, 99>>, digest |-> AbcDigest],
  [f |-> "s", outlen |-> 32, msg |-> Previous \o DestinationAndBalance,
   digest |-> BlockDigest]}

MCInit == Init /\ Compress!Init

MCNext ==
  \/ /\ test = Compress!NoTest
     /\ Next
     /\ UNCHANGED <<test, h, v, block, round>>
  \/ /\ call = NoCall
     /\ Compress!Next
     /\ UNCHANGED vars

MCSpec == MCInit /\ [][MCNext]_<<vars, test, h, v, block, round>>

\* Compress!DigestMatchesTest, of the real compression functions.
KnownDigests == Compress!DigestMatchesTest
=============================================================================

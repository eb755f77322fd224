---------------------------- MODULE MCVocabulary ----------------------------
EXTENDS Vocabulary

CONSTANTS w1, w2

(* Nothing looks into a word, and the properties are about every word.     *)
WordSymmetry == Permutations({w1, w2})
=============================================================================

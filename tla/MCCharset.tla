------------------------------- MODULE MCCharset -------------------------------
(* The bytes of the marks and one more, for TLC.                            *)
EXTENDS Charset

SomeOctets == {"EF", "BB", "BF", "FF", "FE", "a"}

=============================================================================

------------------------------- MODULE MCKeysDb -------------------------------
(* Contents with one value, with two, and with none that is listed (only      *)
(* fields whose names begin with "pass"), for TLC.                            *)
EXTENDS KeysDb

CONSTANTS t1, t2, one, both, secret

MCContents == {one, both, secret}
MCTermsOf == [c \in MCContents |-> CASE c = one -> {t1}
                                      [] c = both -> {t1, t2}
                                      [] c = secret -> {}]
===============================================================================

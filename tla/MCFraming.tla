------------------------------ MODULE MCFraming ------------------------------
(* Length fields of two digits.  The contents are those that could be taken  *)
(* for something else: the whole of a length field, bars and digits only,    *)
(* nothing at all, two digits of length.                                     *)
EXTENDS Framing

Echo(content) == [type |-> TEcho, content |-> content]
Tests == [type |-> TTest, content |-> <<Other, Bar, 2, Bar>>]
Unknown == [type |-> 3, content |-> <<2, Bar, 0, 3>>]

MCExchanges ==
  { << Echo(<<2, Bar, 0, 7, 1, Bar, 1>>), Unknown, Echo(<<>>), Tests >>,
    << Tests, Echo(<<Bar, Bar>>), Unknown, Echo(<<1, 2, Bar>>) >>,
    << Echo([i \in 1 .. 10 |-> Other]), Echo(<<7>>) >> }
=============================================================================

--------------------------- MODULE MCGapyTarget ---------------------------
(* Command lines and target classes for model checking GapyTarget. *)
EXTENDS GapyTarget, TLC

MCIntOf == ("1" :> "0x1") @@ ("0x1" :> "0x1") @@ ("16" :> "0x10")
MCDefaultContent == {"rom", "readfs", "raw"}

Line == [inlined |-> <<>>, properties |-> <<>>, flash_properties |-> <<>>,
         flash_contents |-> <<>>, multi_flash_content |-> <<>>, flash_override |-> <<>>,
         commands |-> <<"image", "target_properties", "flash_layout", "run">>]

P(name, value) == [name |-> name, value |-> value]
PropertyLists ==
  {<<>>, <<P("size", "1")>>, <<P("size", "16"), P("trace", "yes"), P("size", "0x1")>>,
   <<P("size", "one")>>, <<P("trace", "no"), Malformed>>, <<P("core", "big")>>,
   <<P("other", "1"), P("core", "small")>>}
Inlined == {<<>>, <<P("trace", "yes"), P("trace", "no")>>, <<P("size", "1"), P("core", "small")>>}

PropertyLines ==
  {[Line EXCEPT !.properties = list, !.inlined = inlined] :
     list \in PropertyLists, inlined \in Inlined}

F(flash_name, section, key, value) ==
  [flash |-> flash_name, section |-> section, key |-> key, value |-> value]
FlashLines ==
  {[Line EXCEPT !.flash_properties = list] : list \in
     {<<F("mram", "readfs", "files", "a"), F("target/chip/soc/mram", "readfs", "files", "b"),
        F("spi", "raw", "size", "16"), F("mram", "rom", "boot", "true")>>,
      <<F("spi", "raw", "size", "1"), F("none", "raw", "size", "1")>>,
      <<Malformed>>}}

C(flash_name, content) == [flash |-> flash_name, content |-> content]
ContentLines ==
  {[Line EXCEPT !.flash_contents = list] : list \in
     {<<C("mram", {"rom"}), C("spi", {"lfs"}), C("mram", {})>>,
      <<C("spi", {"raw"}), C("none", {})>>, <<Malformed>>}}
  \cup
  {[Line EXCEPT !.multi_flash_content = list] : list \in
     {<< <<C("mram", {"rom"})>>, <<C("spi", {"lfs"}), C("mram", {"raw"})>> >>,
      << <<C("spi", {"raw"}), Malformed>> >>, << <<C("none", {"raw"})>> >>}}
  \cup {[Line EXCEPT !.multi_flash_content = << <<>> >>, !.flash_contents = <<C("spi", {})>>]}

O(flash_name, attribute) == [flash |-> flash_name, attribute |-> attribute]
OverrideLines ==
  {[Line EXCEPT !.flash_override = list] : list \in
     {<<O("spi", "littlefs_block_size"), O("mram", "section_start_align")>>,
      <<O("spi", "littlefs_align"), O("none", "littlefs_align")>>, <<Malformed>>}}

MCCommandLines == PropertyLines \cup FlashLines \cup ContentLines \cup OverrideLines

D(name, value, allowed, cast) == [name |-> name, value |-> value, allowed |-> allowed, cast |-> cast]
Declarations ==
  {{D("size", "0x0", AnyString, "int"), D("trace", "False", AnyString, "bool"),
    D("core", "small", {"small", "big"}, "none")},
   {D("size", "0x0", {"1", "16"}, "int"), D("size", "0x2", AnyString, "none")},
   {}}

MCTargets ==
  {[declares |-> declares, flashes |-> {"mram", "spi"}, handles |-> {"run"},
    uses |-> IF declares = {} THEN {} ELSE {"size"}] : declares \in Declarations}
    \cup {[declares |-> {}, flashes |-> {"mram"}, handles |-> {}, uses |-> {}]}
=============================================================================

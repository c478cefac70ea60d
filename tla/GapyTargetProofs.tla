-------------------------- MODULE GapyTargetProofs --------------------------
(***************************************************************************)
(* Theorems about GapyTarget, for every set of command lines and target    *)
(* classes: which value of a property wins, that a value that was read is  *)
(* final, that nothing is done before everything is accepted, that each    *)
(* flash gets its properties in order, and that the commands run in order. *)
(***************************************************************************)
EXTENDS GapyTarget, DataLemmas

-----------------------------------------------------------------------------
(* Dictionaries and lists                                                  *)

\* What the command line says of properties is a list.
LEMMA GivenList ==
  ASSUME args \in CommandLines
  PROVE  /\ Len(Given) \in Nat
         /\ DOMAIN Given = 1 .. Len(Given)
BY GapyConstants DEF Given, IsPropertyList, IsList

-----------------------------------------------------------------------------
(* Target properties                                                       *)

Running == Phases \ {"start"}

\* The first n - 1 given properties are in args_properties, the last value of
\* each name.
IsLast(i, n, name) ==
  /\ i \in 1 .. n - 1 /\ Given[i].name = name
  /\ \A j \in i + 1 .. n - 1 : Given[j].name # name

ArgsUpTo(n) ==
  /\ \A i \in 1 .. n - 1 : Given[i] # Malformed /\ Given[i].name \in DOMAIN args_properties
  /\ \A name \in DOMAIN args_properties :
       \E i \in 1 .. n - 1 : IsLast(i, n, name) /\ args_properties[name] = Given[i].value

Started ==
  /\ args \in CommandLines /\ next \in Nat \ {0} /\ pc \in Phases \cup Stopped
  /\ pc \in Running => ReparsedProperties = Given

Unparsed ==
  ~target_properties_parsed =>
    /\ args_properties = <<>> /\ target_properties = <<>> /\ declared = {}
    /\ pc \notin {"parse", "declare"}

Parsed ==
  target_properties_parsed =>
    /\ pc # "start"
    /\ pc = "parse" => /\ next <= Len(Given) + 1 /\ ArgsUpTo(next)
                       /\ declared = {}
    /\ pc \in Phases \ {"parse"} => ArgsUpTo(Len(Given) + 1)

Values ==
  \A d \in declared :
    /\ d.name \in DOMAIN target_properties
    /\ IF d.name \in DOMAIN args_properties
       THEN /\ Allowed(d, args_properties[d.name])
            /\ target_properties[d.name] = Cast(d, args_properties[d.name])
       ELSE target_properties[d.name] = d.value

PropertyInv ==
  /\ target_properties_parsed \in BOOLEAN
  /\ Started /\ Unparsed /\ Parsed /\ Values /\ UsedIsFinal

\* The steps that are not about properties.
Elsewhere ==
  /\ UNCHANGED <<args, default_properties, target_properties_parsed, args_properties,
                 target_properties, declared, used>>
  /\ next' \in Nat \ {0}
  /\ \/ pc' \in Stopped
     \/ pc' = pc /\ pc \in Phases \ {"start", "parse"}
     \/ pc \in Running \ {"parse"} /\ pc' \in Running \ {"parse", "declare"}

\* Steps that are not about properties keep the invariant.
LEMMA ElsewhereInv == PropertyInv /\ Elsewhere => PropertyInv'
<1> SUFFICES ASSUME PropertyInv, Elsewhere PROVE PropertyInv'
  OBVIOUS
<1> USE DEF PropertyInv, Elsewhere
<1>0. Given' = Given /\ ReparsedProperties' = ReparsedProperties
  BY DEF Given, ReparsedProperties
<1>1. \A n : ArgsUpTo(n)' = ArgsUpTo(n)
  BY <1>0 DEF ArgsUpTo, IsLast
<1>2. Started'
  BY <1>0 DEF Started, Running, Phases, Stopped
<1>3. Unparsed'
  BY DEF Unparsed, Running, Phases, Stopped
<1>4. Parsed'
  BY <1>0, <1>1 DEF Parsed, Running, Phases, Stopped
<1>5. Values' /\ UsedIsFinal'
  BY DEF Values, UsedIsFinal
<1> QED BY <1>2, <1>3, <1>4, <1>5

\* Nothing is parsed, declared or read before the target is built.
LEMMA PropertyInit == Init => PropertyInv
<1> SUFFICES ASSUME Init PROVE PropertyInv
  OBVIOUS
<1>1. Started /\ Unparsed /\ Parsed
  BY DEF Init, Started, Unparsed, Parsed, Running, Phases
<1>2. Values /\ UsedIsFinal
  BY DEF Init, Values, UsedIsFinal
<1> QED BY <1>1, <1>2 DEF Init, PropertyInv

\* Inlined properties reach the second parse when there are no others.
LEMMA InstantiateInv == PropertyInv /\ Instantiate => PropertyInv'
<1> SUFFICES ASSUME PropertyInv, Instantiate PROVE PropertyInv'
  OBVIOUS
<1> USE DEF PropertyInv, Instantiate, properties
<1>1. ReparsedProperties' = Given'
  BY DEF ReparsedProperties, Given
<1>2. Started'
  BY <1>1 DEF Started, Running, Phases
<1>3. ~target_properties_parsed
  BY DEF Parsed
<1>4. Unparsed' /\ Parsed' /\ Values' /\ UsedIsFinal'
  BY <1>3 DEF Unparsed, Parsed, Values, UsedIsFinal
<1> QED BY <1>2, <1>4

\* The first declaration starts the parse, a later one finds it complete.
LEMMA DeclareInv ==
  ASSUME PropertyInv, NEW d \in target.declares, Declare(d) PROVE PropertyInv'
<1> USE DEF PropertyInv, Declare, setup
<1>0. Given' = Given /\ ReparsedProperties' = ReparsedProperties
  BY DEF Given, ReparsedProperties
<1>1. \A n : ArgsUpTo(n)' = ArgsUpTo(n)
  BY <1>0 DEF ArgsUpTo, IsLast
<1>2. Started'
  BY <1>0 DEF Started, Running, Phases, Stopped
<1>3. Unparsed' /\ Values' /\ UsedIsFinal'
  BY DEF Unparsed, Values, UsedIsFinal
<1>4. Parsed'
  <2>1. CASE target_properties_parsed
    BY <2>1, <1>0, <1>1 DEF Parsed, Phases
  <2>2. CASE ~target_properties_parsed
    <3>1. ArgsUpTo(1)'
      BY <2>2, <1>1 DEF ArgsUpTo, Unparsed
    <3>2. 1 <= Len(Given) + 1
      BY GivenList DEF Started
    <3> QED BY <2>2, <3>1, <3>2, <1>0 DEF Parsed, Unparsed, Phases
  <2> QED BY <2>1, <2>2
<1> QED BY <1>2, <1>3, <1>4

\* One more property: it replaces the value its name had.
LEMMA ParsePropertyInv == PropertyInv /\ ParseProperty => PropertyInv'
<1> SUFFICES ASSUME PropertyInv, ParseProperty PROVE PropertyInv'
  OBVIOUS
<1> USE DEF PropertyInv
<1>1. CASE ReparsedProperties[next] = Malformed
  <2>1. Elsewhere
    BY <1>1 DEF ParseProperty, Raise, Elsewhere, setup, properties, Stopped, Started
  <2> QED BY <2>1, ElsewhereInv
<1>2. CASE ReparsedProperties[next] # Malformed
  <2> DEFINE given == Given[next]
  <2>0. /\ pc = "parse" /\ ReparsedProperties = Given /\ next \in Nat \ {0}
        /\ next <= Len(Given) /\ given # Malformed
        /\ args_properties' = Put(args_properties, given.name, given.value)
        /\ next' = next + 1
        /\ UNCHANGED <<args, default_properties, target_properties_parsed,
                       target_properties, declared, used, pc>>
    BY <1>2 DEF ParseProperty, setup, Started, Running, Phases
  <2>1. Given' = Given /\ ReparsedProperties' = ReparsedProperties
    BY <2>0 DEF Given, ReparsedProperties
  <2>2. target_properties_parsed /\ ArgsUpTo(next) /\ declared = {}
    BY <2>0 DEF Unparsed, Parsed
  <2>3. \A i \in 1 .. next : Given[i] # Malformed /\ Given[i].name \in DOMAIN args_properties'
    BY <2>0, <2>2 DEF Put, ArgsUpTo
  <2>4. ASSUME NEW name \in DOMAIN args_properties'
        PROVE  \E i \in 1 .. next : /\ Given[i].name = name
                                    /\ \A j \in i + 1 .. next : Given[j].name # name
                                    /\ args_properties'[name] = Given[i].value
    <3>1. CASE name = given.name
      <4>1. args_properties'[name] = given.value
        BY <2>0, <3>1 DEF Put
      <4>2. next \in 1 .. next /\ \A j \in next + 1 .. next : FALSE
        BY <2>0
      <4> QED BY <3>1, <4>1, <4>2
    <3>2. CASE name # given.name
      <4>1. name \in DOMAIN args_properties /\ args_properties'[name] = args_properties[name]
        BY <2>0, <2>4, <3>2 DEF Put
      <4>2. PICK i \in 1 .. next - 1 : IsLast(i, next, name) /\ args_properties[name] = Given[i].value
        BY <2>2, <4>1 DEF ArgsUpTo
      <4>3. \A j \in i + 1 .. next : Given[j].name # name
        BY <2>0, <4>2, <3>2 DEF IsLast
      <4> QED BY <2>0, <4>1, <4>2, <4>3 DEF IsLast
    <3> QED BY <3>1, <3>2
  <2>5. ArgsUpTo(next)'
    <3>1. next' - 1 = next
      BY <2>0
    <3> QED BY <3>1, <2>1, <2>3, <2>4 DEF ArgsUpTo, IsLast
  <2>6. Started'
    BY <2>0, <2>1 DEF Started
  <2>7. Parsed'
    <3>1. next' <= Len(Given') + 1
      BY <2>0, <2>1, GivenList DEF Started
    <3> QED BY <2>0, <2>2, <2>5, <3>1 DEF Parsed
  <2>8. Unparsed' /\ Values' /\ UsedIsFinal'
    BY <2>0, <2>2 DEF Unparsed, Values, UsedIsFinal
  <2> QED BY <2>0, <2>6, <2>7, <2>8
<1> QED BY <1>1, <1>2

\* All given properties are parsed when the loop ends.
LEMMA ParseDoneInv == PropertyInv /\ ParseDone => PropertyInv'
<1> SUFFICES ASSUME PropertyInv, ParseDone PROVE PropertyInv'
  OBVIOUS
<1> USE DEF PropertyInv, ParseDone, Goto, setup, properties
<1>0. Given' = Given /\ ReparsedProperties' = ReparsedProperties
  BY DEF Given, ReparsedProperties
<1>1. \A n : ArgsUpTo(n)' = ArgsUpTo(n)
  BY <1>0 DEF ArgsUpTo, IsLast
<1>2. next = Len(Given) + 1
  BY GivenList DEF Started, Parsed, Unparsed, Running, Phases
<1>3. Started'
  BY <1>0 DEF Started, Running, Phases, Stopped
<1>4. Unparsed' /\ Values' /\ UsedIsFinal'
  BY DEF Unparsed, Values, UsedIsFinal
<1>5. Parsed'
  BY <1>0, <1>1, <1>2 DEF Parsed, Unparsed, Phases
<1> QED BY <1>3, <1>4, <1>5

\* A declared property gets its value, and no other one changes.
LEMMA DeclarePropertyInv == PropertyInv /\ DeclareProperty => PropertyInv'
<1> SUFFICES ASSUME PropertyInv, DeclareProperty PROVE PropertyInv'
  OBVIOUS
<1> USE DEF PropertyInv
<1>1. CASE Raise("error") \/ Raise("crash")
  <2>1. Elsewhere
    BY <1>1 DEF Raise, Elsewhere, setup, properties, Stopped, Started
  <2> QED BY <2>1, ElsewhereInv
<1>2. CASE ~(Raise("error") \/ Raise("crash"))
  <2> DEFINE name == pending.name
             arg == args_properties[name]
             value == IF name \in DOMAIN args_properties THEN Cast(pending, arg) ELSE pending.value
  <2>0. /\ pc = "declare" /\ pc' = "construct"
        /\ name \notin DOMAIN target_properties
        /\ name \in DOMAIN args_properties => Allowed(pending, arg)
        /\ target_properties' = Put(target_properties, name, value)
        /\ declared' = declared \cup {pending}
        /\ UNCHANGED <<args, default_properties, target_properties_parsed, args_properties,
                       used, next>>
    BY <1>2 DEF DeclareProperty, AlreadyDeclared, setup
  <2>1. Given' = Given /\ ReparsedProperties' = ReparsedProperties
    BY <2>0 DEF Given, ReparsedProperties
  <2>2. \A n : ArgsUpTo(n)' = ArgsUpTo(n)
    BY <2>0, <2>1 DEF ArgsUpTo, IsLast
  <2>3. Started'
    BY <2>0, <2>1 DEF Started, Running, Phases, Stopped
  <2>4. Unparsed' /\ Parsed'
    BY <2>0, <2>1, <2>2 DEF Unparsed, Parsed, Phases
  <2>5. \A k \in DOMAIN target_properties :
          k \in DOMAIN target_properties' /\ target_properties'[k] = target_properties[k]
    BY <2>0 DEF Put
  <2>6. name \in DOMAIN target_properties' /\ target_properties'[name] = value
    BY <2>0 DEF Put
  <2>7. Values'
    <3> SUFFICES ASSUME NEW d \in declared' PROVE Values!(d)'
      BY DEF Values
    <3>1. CASE d \in declared
      BY <3>1, <2>0, <2>5 DEF Values
    <3>2. CASE d = pending
      BY <3>2, <2>0, <2>6
    <3> QED BY <3>1, <3>2, <2>0
  <2>8. UsedIsFinal'
    BY <2>0, <2>5 DEF UsedIsFinal
  <2> QED BY <2>0, <2>3, <2>4, <2>7, <2>8
<1> QED BY <1>1, <1>2

\* A component takes the value of a declared property.
LEMMA GetPropertyInv ==
  ASSUME PropertyInv, NEW name \in target.uses, GetProperty(name) PROVE PropertyInv'
<1> USE DEF PropertyInv
<1>1. CASE name \notin DOMAIN target_properties
  <2>1. Elsewhere
    BY <1>1 DEF GetProperty, Raise, Elsewhere, setup, properties, Stopped, Started
  <2> QED BY <2>1, ElsewhereInv
<1>2. CASE name \in DOMAIN target_properties
  <2>0. /\ used' = Put(used, name, target_properties[name])
        /\ UNCHANGED <<args, default_properties, properties, next, pc>>
    BY <1>2 DEF GetProperty, setup
  <2>1. UsedIsFinal'
    BY <1>2, <2>0 DEF Put, UsedIsFinal, properties
  <2>2. Given' = Given /\ ReparsedProperties' = ReparsedProperties
    BY <2>0 DEF Given, ReparsedProperties
  <2>3. \A n : ArgsUpTo(n)' = ArgsUpTo(n)
    BY <2>0, <2>2 DEF ArgsUpTo, IsLast, properties
  <2>4. Started' /\ Unparsed' /\ Parsed' /\ Values'
    BY <2>0, <2>2, <2>3 DEF Started, Unparsed, Parsed, Values, properties
  <2> QED BY <2>0, <2>1, <2>4 DEF properties
<1> QED BY <1>1, <1>2

\* Every other action leaves the properties alone.
LEMMA OtherActions ==
  ASSUME PropertyInv,
         \/ InvalidTarget \/ \E name \in target.flashes : RegisterFlash(name)
         \/ ConstructDone
         \/ ExtractFlashProperty \/ PropagateFlashProperties
         \/ BothContents \/ FlashContent \/ ReadMultiFlashContent \/ MultiFlashContent
         \/ ContentsDone \/ FlashOverride \/ OverrideDone \/ check_args
         \/ HandleCommand \/ StartFlashCommand \/ InvalidCommand \/ FlashCommand
         \/ FlashCommandDone
         \/ UNCHANGED vars
  PROVE  PropertyInv'
<1> USE DEF setup, properties, Raise, Goto, SetContentOf, Elsewhere, Phases, Running, Stopped
<1>0. next \in Nat \ {0} /\ pc \in Phases \cup Stopped
  BY DEF PropertyInv, Started
<1>1. CASE UNCHANGED vars
  <2>1. \A n : ArgsUpTo(n)' = ArgsUpTo(n)
    BY <1>1 DEF ArgsUpTo, IsLast, Given, vars
  <2>2. Given' = Given /\ ReparsedProperties' = ReparsedProperties
    BY <1>1 DEF Given, ReparsedProperties, vars
  <2> QED BY <1>1, <2>1, <2>2
          DEF PropertyInv, vars, Started, Unparsed, Parsed, Values, UsedIsFinal
<1>2. CASE InvalidTarget \/ ConstructDone \/ \E name \in target.flashes : RegisterFlash(name)
  <2>1. Elsewhere
    BY <1>0, <1>2 DEF InvalidTarget, ConstructDone, RegisterFlash
  <2> QED BY <2>1, ElsewhereInv
<1>3. CASE ExtractFlashProperty \/ PropagateFlashProperties
  <2>1. Elsewhere
    BY <1>0, <1>3 DEF ExtractFlashProperty, PropagateFlashProperties
  <2> QED BY <2>1, ElsewhereInv
<1>4. CASE BothContents \/ FlashContent \/ ReadMultiFlashContent \/ MultiFlashContent \/ ContentsDone
  <2>1. CASE BothContents \/ ReadMultiFlashContent \/ ContentsDone
    <3>1. Elsewhere
      BY <1>0, <2>1 DEF BothContents, ReadMultiFlashContent, ContentsDone
    <3> QED BY <3>1, ElsewhereInv
  <2>2. CASE FlashContent \/ MultiFlashContent
    <3>1. Elsewhere
      BY <1>0, <2>2 DEF FlashContent, MultiFlashContent
    <3> QED BY <3>1, ElsewhereInv
  <2> QED BY <1>4, <2>1, <2>2
<1>5. CASE FlashOverride \/ OverrideDone \/ check_args
  <2>1. Elsewhere
    BY <1>0, <1>5 DEF FlashOverride, OverrideDone, check_args
  <2> QED BY <2>1, ElsewhereInv
<1>6. CASE HandleCommand \/ StartFlashCommand \/ InvalidCommand
  <2>1. CASE HandleCommand
    <3>1. pc = "commands" /\ UNCHANGED <<setup, properties, used, next, pc>>
      BY <2>1 DEF HandleCommand
    <3>2. Elsewhere
      BY <1>0, <3>1
    <3> QED BY <3>2, ElsewhereInv
  <2>2. CASE StartFlashCommand \/ InvalidCommand
    <3>1. pc = "commands" /\ (Goto("flash_command") \/ Raise("error"))
      BY <2>2 DEF StartFlashCommand, InvalidCommand
    <3>2. Elsewhere
      BY <1>0, <3>1
    <3> QED BY <3>2, ElsewhereInv
  <2> QED BY <1>6, <2>1, <2>2
<1>7. CASE FlashCommand \/ FlashCommandDone
  <2>1. Elsewhere
    BY <1>0, <1>7 DEF FlashCommand, FlashCommandDone
  <2> QED BY <2>1, ElsewhereInv
<1> QED BY <1>1, <1>2, <1>3, <1>4, <1>5, <1>6, <1>7

\* Every action keeps the invariant about properties.
LEMMA PropertyStep == PropertyInv /\ [Next]_vars => PropertyInv'
<1> SUFFICES ASSUME PropertyInv, [Next]_vars PROVE PropertyInv'
  OBVIOUS
<1>1. CASE Instantiate
  BY <1>1, InstantiateInv
<1>2. CASE \E d \in target.declares : Declare(d)
  BY <1>2, DeclareInv
<1>3. CASE ParseProperty \/ ParseDone \/ DeclareProperty
  BY <1>3, ParsePropertyInv, ParseDoneInv, DeclarePropertyInv
<1>4. CASE \E name \in target.uses : GetProperty(name)
  BY <1>4, GetPropertyInv
<1> QED BY <1>1, <1>2, <1>3, <1>4, OtherActions DEF Next

\* The invariant about properties holds in every reachable state.
THEOREM PropertyInvariant == Spec => []PropertyInv
BY PropertyInit, PropertyStep, PTL DEF Spec

\* What the last value of a name is, when it has one.
LEMMA LastOne ==
  ASSUME args \in CommandLines, NEW name, NEW i, IsLast(i, Len(Given) + 1, name)
  PROVE  LastValue(name, Given) = Given[i].value
<1>1. DOMAIN Given = 1 .. Len(Given) /\ Len(Given) \in Nat
  BY GivenList
<1> DEFINE P(at) == /\ Given[at].name = name
                    /\ \A j \in at + 1 .. Len(Given) : Given[j].name # name
<1>2. i \in DOMAIN Given /\ P(i)
  BY <1>1 DEF IsLast
<1>3. \A at \in DOMAIN Given : P(at) => at = i
  BY <1>1, <1>2
<1>4. (CHOOSE at \in DOMAIN Given : P(at)) = i
  BY <1>2, <1>3
<1> QED BY <1>4 DEF LastValue

\* A property has the last value of the command line, cast and allowed, or its
\* default, whatever the order it was declared in (target.py,
\* declare_target_property and parse_target_properties).
THEOREM LastValueWins == Spec => []CommandLineWins
<1>1. ASSUME PropertyInv PROVE CommandLineWins
  <2> USE <1>1 DEF PropertyInv
  <2> SUFFICES ASSUME Constructed, NEW d \in declared
               PROVE  IF IsGiven(d.name, Given)
                      THEN /\ Allowed(d, LastValue(d.name, Given))
                           /\ target_properties[d.name] = Cast(d, LastValue(d.name, Given))
                      ELSE target_properties[d.name] = d.value
    BY DEF CommandLineWins
  <2>1. ArgsUpTo(Len(Given) + 1)
    BY DEF Unparsed, Parsed, Constructed, Phases
  <2>2. DOMAIN Given = 1 .. Len(Given) /\ Len(Given) \in Nat
    BY GivenList DEF Started
  <2>3. CASE d.name \in DOMAIN args_properties
    <3>1. PICK i \in 1 .. Len(Given) + 1 - 1 :
            /\ IsLast(i, Len(Given) + 1, d.name)
            /\ args_properties[d.name] = Given[i].value
      BY <2>1, <2>3 DEF ArgsUpTo
    <3>2. IsGiven(d.name, Given)
      BY <2>2, <3>1 DEF IsGiven, IsLast
    <3>3. LastValue(d.name, Given) = args_properties[d.name]
      BY <3>1, LastOne DEF Started
    <3> QED BY <2>3, <3>2, <3>3 DEF Values
  <2>4. CASE d.name \notin DOMAIN args_properties
    <3>1. ~IsGiven(d.name, Given)
      BY <2>1, <2>2, <2>4 DEF ArgsUpTo, IsGiven
    <3> QED BY <2>4, <3>1 DEF Values
  <2> QED BY <2>3, <2>4
<1> QED BY <1>1, PropertyInvariant, PTL

\* A property value that a component was built with never changes (target.py,
\* get_target_property and declare_target_property).
THEOREM ReadIsFinal == Spec => []UsedIsFinal
<1>1. PropertyInv => UsedIsFinal
  BY DEF PropertyInv
<1> QED BY <1>1, PropertyInvariant, PTL

-----------------------------------------------------------------------------
(* Nothing is done before everything is accepted                           *)

Building == {"start", "construct", "parse", "declare"}
Acting == {"commands", "flash_command"}
Overridden == {"check_args"} \cup Acting
WithContents == {"flash_override"} \cup Overridden
WithProperties == {"contents", "multi_flash_content"} \cup WithContents

KnownTo(list, n) ==
  \A i \in DOMAIN list : i < n => list[i] # Malformed /\ ~Unknown(list[i].flash)
StagedTo(n) ==
  \A i \in DOMAIN args.flash_properties : i < n =>
    LET p == args.flash_properties[i] IN p # Malformed /\ Alias(p.flash) \in DOMAIN staged
KnownProperties ==
  \A i \in DOMAIN args.flash_properties :
    LET p == args.flash_properties[i] IN p # Malformed /\ ~Unknown(Alias(p.flash))
KnownGiven ==
  target_properties_parsed =>
    \A i \in DOMAIN Given : Given[i] # Malformed /\ Given[i].name \in DOMAIN target_properties

OptionsInv ==
  /\ pc = "flash_properties" => StagedTo(next)
  /\ pc \in WithProperties => KnownProperties
  /\ pc = "contents" => KnownTo(args.flash_contents, next)
  /\ pc = "multi_flash_content" => args.flash_contents = <<>>
  /\ pc \in WithContents => KnownTo(args.flash_contents, Len(args.flash_contents) + 1)
  /\ pc = "flash_override" => KnownTo(args.flash_override, next)
  /\ pc \in Overridden => KnownTo(args.flash_override, Len(args.flash_override) + 1)
  /\ pc \in Acting => KnownGiven
  /\ handled # <<>> => pc \in Acting \cup Stopped /\ AllKnown

\* Options are lists.
LEMMA OptionLists ==
  ASSUME PropertyInv
  PROVE  /\ \A i \in DOMAIN args.flash_properties : i < Len(args.flash_properties) + 1
         /\ \A i \in DOMAIN args.flash_contents : i < Len(args.flash_contents) + 1
         /\ \A i \in DOMAIN args.flash_override : i < Len(args.flash_override) + 1
BY GapyConstants DEF PropertyInv, Started, IsFlashPropertyList, IsList

\* Nothing is accepted or done at the start.
LEMMA OptionsInit == Init => OptionsInv
BY DEF Init, OptionsInv, WithProperties, WithContents, Overridden, Acting

\* What the actions say that only move the program on or stop it.
Same == UNCHANGED <<args, flashes, staged, target_properties_parsed, target_properties, handled>>

\* What is known depends on the command line, the flashes and the properties.
LEMMA SameKnown ==
  ASSUME UNCHANGED <<args, flashes, target_properties_parsed, target_properties>>
  PROVE  /\ AllKnown' = AllKnown /\ KnownProperties' = KnownProperties
         /\ KnownGiven' = KnownGiven
         /\ \A n : KnownTo(args.flash_contents, n)' = KnownTo(args.flash_contents, n)
         /\ \A n : KnownTo(args.flash_override, n)' = KnownTo(args.flash_override, n)
<1>1. Given' = Given /\ \A name : Unknown(name)' = Unknown(name)
  BY DEF Given, Unknown
<1>2. AllKnown' = AllKnown
  BY <1>1 DEF AllKnown
<1>3. KnownProperties' = KnownProperties /\ KnownGiven' = KnownGiven
  BY <1>1 DEF KnownProperties, KnownGiven
<1>4. /\ \A n : KnownTo(args.flash_contents, n)' = KnownTo(args.flash_contents, n)
      /\ \A n : KnownTo(args.flash_override, n)' = KnownTo(args.flash_override, n)
  BY <1>1 DEF KnownTo
<1> QED BY <1>2, <1>3, <1>4

\* Stopping, or a step that moves nothing, keeps the invariant.
LEMMA StopOrStay ==
  ASSUME OptionsInv, Same, pc' \in Stopped \/ UNCHANGED <<next, pc>>
  PROVE  OptionsInv'
<1>1. StagedTo(next)' = StagedTo(next) \/ pc' \in Stopped
  BY DEF Same, StagedTo, Stopped
<1>2. CASE UNCHANGED <<next, pc>>
  BY <1>2, SameKnown DEF OptionsInv, Same, StagedTo
<1>3. CASE pc' \in Stopped
  BY <1>3, SameKnown
     DEF OptionsInv, Same, Stopped, WithProperties, WithContents, Overridden, Acting
<1> QED BY <1>2, <1>3

\* While the target is built nothing has been done.
LEMMA BuildingStep ==
  ASSUME OptionsInv, pc \in Building,
         handled' = handled, pc' \in Building \cup Stopped \cup {"flash_properties"},
         pc' = "flash_properties" => next' = 1 /\ PropertyInv'
  PROVE  OptionsInv'
<1>1. handled' = <<>>
  BY DEF OptionsInv, Building, Acting, Stopped
<1>2. pc' = "flash_properties" => StagedTo(next)'
  <2> SUFFICES ASSUME pc' = "flash_properties" PROVE StagedTo(next)'
    OBVIOUS
  <2>1. \A i \in DOMAIN args'.flash_properties : ~(i < 1)
    BY GapyConstants DEF PropertyInv, Started, IsFlashPropertyList, IsList
  <2> QED BY <2>1 DEF StagedTo
<1> QED BY <1>1, <1>2
        DEF OptionsInv, Building, Stopped, WithProperties, WithContents, Overridden, Acting

\* From one phase of parse_args to the next, or on in the same one.
LEMMA FlashPropertyStep ==
  ASSUME PropertyInv, OptionsInv, ExtractFlashProperty PROVE OptionsInv'
<1> USE DEF Raise, setup, properties, devices, progress
<1>1. CASE args.flash_properties[next] = Malformed
  <2>1. Same /\ pc' \in Stopped
    BY <1>1 DEF ExtractFlashProperty, Same, Stopped
  <2> QED BY <2>1, StopOrStay
<1>2. CASE args.flash_properties[next] # Malformed
  <2> DEFINE p == args.flash_properties[next]
  <2>1. /\ pc = "flash_properties" /\ pc' = pc /\ next' = next + 1
        /\ staged' = StagedWith(p)
        /\ UNCHANGED <<args, flashes, handled, target_properties_parsed, target_properties>>
    BY <1>2 DEF ExtractFlashProperty
  <2>2. Alias(p.flash) \in DOMAIN staged' /\ \A k \in DOMAIN staged : k \in DOMAIN staged'
    BY <2>1 DEF StagedWith, Put
  <2>3. next \in Nat
    BY DEF PropertyInv, Started
  <2>4. DOMAIN args.flash_properties \subseteq Nat
    BY GapyConstants DEF PropertyInv, Started, IsList
  <2>5. StagedTo(next)'
    <3> SUFFICES ASSUME NEW i \in DOMAIN args.flash_properties, i < next + 1
                 PROVE  /\ args.flash_properties[i] # Malformed
                        /\ Alias(args.flash_properties[i].flash) \in DOMAIN staged'
      BY <2>1 DEF StagedTo
    <3>1. CASE i = next
      BY <3>1, <2>2, <1>2
    <3>2. CASE i < next
      BY <3>2, <2>1, <2>2 DEF OptionsInv, StagedTo
    <3> QED BY <3>1, <3>2, <2>3, <2>4
  <2>6. handled' = <<>>
    BY <2>1 DEF OptionsInv, Acting, Stopped
  <2> QED BY <2>1, <2>5, <2>6
          DEF OptionsInv, WithProperties, WithContents, Overridden, Acting
<1> QED BY <1>1, <1>2

\* Every flash of --flash-property is known once they are propagated.
LEMMA PropagateStep ==
  ASSUME PropertyInv, OptionsInv, PropagateFlashProperties PROVE OptionsInv'
<1> USE DEF setup, properties, devices, progress
<1>1. CASE \E name \in DOMAIN staged : Unknown(name)
  <2>1. Same /\ pc' \in Stopped
    BY <1>1 DEF PropagateFlashProperties, Raise, Same, Stopped
  <2> QED BY <2>1, StopOrStay
<1>2. CASE \A name \in DOMAIN staged : ~Unknown(name)
  <2>1. /\ pc = "flash_properties" /\ pc' = "contents" /\ next' = 1
        /\ next > Len(args.flash_properties)
        /\ UNCHANGED <<args, flashes, handled, target_properties_parsed, target_properties>>
    BY <1>2 DEF PropagateFlashProperties
  <2>2. \A i \in DOMAIN args.flash_properties : i < next
    BY <2>1, GapyConstants DEF PropertyInv, Started, IsList
  <2>3. KnownProperties
    BY <1>2, <2>1, <2>2 DEF OptionsInv, StagedTo, KnownProperties
  <2>4. KnownTo(args.flash_contents, 1)
    BY GapyConstants DEF PropertyInv, Started, IsList, KnownTo
  <2>5. KnownTo(args.flash_contents, next)'
    BY <2>1, <2>4, SameKnown DEF KnownTo, Unknown
  <2>6. handled' = <<>>
    BY <2>1 DEF OptionsInv, Acting, Stopped
  <2> QED BY <2>1, <2>3, <2>5, <2>6, SameKnown
          DEF OptionsInv, WithContents, Overridden, Acting
<1> QED BY <1>1, <1>2

\* One more --flash-content, of a known flash.
LEMMA FlashContentStep ==
  ASSUME PropertyInv, OptionsInv, FlashContent PROVE OptionsInv'
<1> USE DEF setup, properties, devices, progress
<1> DEFINE p == args.flash_contents[next]
<1>1. CASE Raise("error") \/ Raise("crash")
  <2>1. Same /\ pc' \in Stopped
    BY <1>1 DEF Raise, Same, Stopped
  <2> QED BY <2>1, StopOrStay
<1>2. CASE ~(Raise("error") \/ Raise("crash"))
  <2>1. pc = "contents" /\ p # Malformed /\ ~Unknown(p.flash) /\ SetContentOf(p)
    BY <1>2 DEF FlashContent
  <2>2. /\ pc' = pc /\ next' = next + 1
        /\ UNCHANGED <<args, flashes, handled, target_properties_parsed, target_properties>>
    BY <2>1 DEF SetContentOf
  <2>3. KnownTo(args.flash_contents, next + 1)
    <3>1. DOMAIN args.flash_contents \subseteq Nat /\ next \in Nat
      BY GapyConstants DEF PropertyInv, Started, IsList
    <3>2. \A i \in DOMAIN args.flash_contents : i < next + 1 => i = next \/ i < next
      BY <3>1
    <3>3. KnownTo(args.flash_contents, next)
      BY <2>1 DEF OptionsInv
    <3> QED BY <2>1, <3>2, <3>3 DEF KnownTo
  <2>4. KnownTo(args.flash_contents, next)'
    BY <2>2, <2>3 DEF KnownTo, Unknown
  <2>5. handled' = <<>>
    BY <2>1, <2>2 DEF OptionsInv, Acting, Stopped
  <2> QED BY <2>1, <2>2, <2>4, <2>5, SameKnown
          DEF OptionsInv, WithProperties, WithContents, Overridden, Acting
<1> QED BY <1>1, <1>2

\* Contents of the multi-flash file: --flash-content is empty then.
LEMMA MultiContentStep ==
  ASSUME OptionsInv, BothContents \/ ReadMultiFlashContent \/ MultiFlashContent
  PROVE  OptionsInv'
<1> USE DEF setup, properties, devices, progress
<1>1. CASE BothContents
  <2>1. Same /\ pc' \in Stopped
    BY <1>1 DEF BothContents, Raise, Same, Stopped
  <2> QED BY <2>1, StopOrStay
<1>2. CASE ReadMultiFlashContent
  <2>1. CASE Raise("error") \/ Raise("crash")
    <3>1. Same /\ pc' \in Stopped
      BY <2>1 DEF Raise, Same, Stopped
    <3> QED BY <3>1, StopOrStay
  <2>2. CASE Goto("multi_flash_content")
    <3>1. /\ pc = "contents" /\ args.flash_contents = <<>> /\ pc' = "multi_flash_content"
          /\ UNCHANGED <<args, flashes, handled, target_properties_parsed, target_properties>>
      BY <1>2, <2>2 DEF ReadMultiFlashContent, Goto
    <3>2. handled' = <<>>
      BY <3>1 DEF OptionsInv, Acting, Stopped
    <3> QED BY <3>1, <3>2, SameKnown
            DEF OptionsInv, WithProperties, WithContents, Overridden, Acting
  <2> QED BY <1>2, <2>1, <2>2 DEF ReadMultiFlashContent
<1>3. CASE MultiFlashContent
  <2> DEFINE p == Last(args.multi_flash_content)[next]
  <2>1. CASE Raise("error") \/ Raise("crash")
    <3>1. Same /\ pc' \in Stopped
      BY <2>1 DEF Raise, Same, Stopped
    <3> QED BY <3>1, StopOrStay
  <2>2. CASE ~(Raise("error") \/ Raise("crash"))
    <3>0. pc = "multi_flash_content" /\ SetContentOf(p)
      BY <1>3, <2>2 DEF MultiFlashContent
    <3>1. /\ pc = "multi_flash_content" /\ pc' = pc
          /\ UNCHANGED <<args, flashes, handled, target_properties_parsed, target_properties>>
      BY <3>0 DEF SetContentOf
    <3>2. handled' = <<>>
      BY <3>1 DEF OptionsInv, Acting, Stopped
    <3> QED BY <3>1, <3>2, SameKnown
            DEF OptionsInv, WithProperties, WithContents, Overridden, Acting
  <2> QED BY <2>1, <2>2
<1> QED BY <1>1, <1>2, <1>3

\* All contents are accepted when the loop ends.
LEMMA ContentsDoneStep ==
  ASSUME PropertyInv, OptionsInv, ContentsDone PROVE OptionsInv'
<1>1. /\ pc \in {"contents", "multi_flash_content"} /\ pc' = "flash_override" /\ next' = 1
      /\ UNCHANGED <<args, flashes, handled, target_properties_parsed, target_properties>>
  BY DEF ContentsDone, Goto, setup, properties, devices, progress
<1>2. KnownTo(args.flash_contents, Len(args.flash_contents) + 1)
  <2>1. CASE pc = "contents"
    <3>1. next > Len(args.flash_contents)
      BY <2>1 DEF ContentsDone
    <3>2. \A i \in DOMAIN args.flash_contents : i < next
      BY <3>1, GapyConstants DEF PropertyInv, Started, IsList
    <3>3. KnownTo(args.flash_contents, next)
      BY <2>1 DEF OptionsInv
    <3> QED BY <3>2, <3>3 DEF KnownTo
  <2>2. CASE pc = "multi_flash_content"
    BY <2>2 DEF OptionsInv, KnownTo
  <2> QED BY <1>1, <2>1, <2>2
<1>3. \A i \in DOMAIN args.flash_override : ~(i < 1)
  BY GapyConstants DEF PropertyInv, Started, IsList
<1>4. KnownTo(args.flash_override, next)'
  BY <1>1, <1>3 DEF KnownTo
<1>5. handled' = <<>>
  BY <1>1 DEF OptionsInv, Acting, Stopped
<1> QED BY <1>1, <1>2, <1>4, <1>5, SameKnown
        DEF OptionsInv, WithProperties, WithContents, Overridden, Acting

\* One more --flash-property-override, of a known flash.
LEMMA FlashOverrideStep ==
  ASSUME PropertyInv, OptionsInv, FlashOverride PROVE OptionsInv'
<1> USE DEF setup, properties, devices, progress
<1> DEFINE p == args.flash_override[next]
<1>1. CASE Raise("error") \/ Raise("crash")
  <2>1. Same /\ pc' \in Stopped
    BY <1>1 DEF Raise, Same, Stopped
  <2> QED BY <2>1, StopOrStay
<1>2. CASE ~(Raise("error") \/ Raise("crash"))
  <2>1. /\ pc = "flash_override" /\ pc' = pc /\ next' = next + 1
        /\ p # Malformed /\ ~Unknown(p.flash)
        /\ UNCHANGED <<args, flashes, handled, target_properties_parsed, target_properties>>
    BY <1>2 DEF FlashOverride
  <2>2. KnownTo(args.flash_override, next + 1)
    <3>1. DOMAIN args.flash_override \subseteq Nat /\ next \in Nat
      BY GapyConstants DEF PropertyInv, Started, IsList
    <3>2. \A i \in DOMAIN args.flash_override : i < next + 1 => i = next \/ i < next
      BY <3>1
    <3>3. KnownTo(args.flash_override, next)
      BY <2>1 DEF OptionsInv
    <3> QED BY <2>1, <3>2, <3>3 DEF KnownTo
  <2>3. KnownTo(args.flash_override, next)'
    BY <2>1, <2>2 DEF KnownTo, Unknown
  <2>4. handled' = <<>>
    BY <2>1 DEF OptionsInv, Acting, Stopped
  <2> QED BY <2>1, <2>3, <2>4, SameKnown
          DEF OptionsInv, WithProperties, WithContents, Overridden, Acting
<1> QED BY <1>1, <1>2

\* All overrides are accepted when the loop ends.
LEMMA OverrideDoneStep ==
  ASSUME PropertyInv, OptionsInv, OverrideDone PROVE OptionsInv'
<1>1. /\ pc = "flash_override" /\ pc' = "check_args" /\ next > Len(args.flash_override)
      /\ UNCHANGED <<args, flashes, handled, target_properties_parsed, target_properties>>
  BY DEF OverrideDone, Goto, setup, properties, devices, progress
<1>2. KnownTo(args.flash_override, Len(args.flash_override) + 1)
  <2>1. \A i \in DOMAIN args.flash_override : i < next
    BY <1>1, GapyConstants DEF PropertyInv, Started, IsList
  <2> QED BY <1>1, <2>1 DEF OptionsInv, KnownTo
<1>3. handled' = <<>>
  BY <1>1 DEF OptionsInv, Acting, Stopped
<1> QED BY <1>1, <1>2, <1>3, SameKnown
        DEF OptionsInv, WithProperties, WithContents, Overridden, Acting

\* check_args lets only declared properties pass.
LEMMA CheckArgsStep ==
  ASSUME PropertyInv, OptionsInv, check_args PROVE OptionsInv'
<1> USE DEF setup, properties, devices, progress
<1>1. CASE Undefined # {}
  <2>1. Same /\ pc' \in Stopped
    BY <1>1 DEF check_args, Raise, Same, Stopped
  <2> QED BY <2>1, StopOrStay
<1>2. CASE Undefined = {}
  <2>1. /\ pc = "check_args" /\ pc' = "commands"
        /\ UNCHANGED <<args, flashes, handled, target_properties_parsed, target_properties>>
    BY <1>2 DEF check_args, Goto
  <2>2. KnownGiven
    <3> SUFFICES ASSUME target_properties_parsed, NEW i \in DOMAIN Given
                 PROVE  Given[i] # Malformed /\ Given[i].name \in DOMAIN target_properties
      BY DEF KnownGiven
    <3>1. ArgsUpTo(Len(Given) + 1)
      BY <2>1 DEF PropertyInv, Parsed, Phases
    <3>2. DOMAIN Given = 1 .. Len(Given) /\ Len(Given) \in Nat
      BY GivenList DEF PropertyInv, Started
    <3>3. Given[i] # Malformed /\ Given[i].name \in DOMAIN args_properties
      BY <3>1, <3>2 DEF ArgsUpTo
    <3> QED BY <3>3, <1>2 DEF Undefined
  <2>3. handled' = <<>>
    BY <2>1 DEF OptionsInv, Acting, Stopped
  <2> QED BY <2>1, <2>2, <2>3, SameKnown
          DEF OptionsInv, WithProperties, WithContents, Overridden, Acting
<1> QED BY <1>1, <1>2

\* Commands run with everything accepted, and change none of it.
LEMMA CommandStep ==
  ASSUME PropertyInv, OptionsInv,
         HandleCommand \/ StartFlashCommand \/ InvalidCommand \/ FlashCommand \/ FlashCommandDone
  PROVE  OptionsInv'
<1>1. /\ pc \in Acting /\ pc' \in Acting \cup Stopped
      /\ UNCHANGED <<args, flashes, target_properties_parsed, target_properties>>
  <2> USE DEF setup, properties, devices, progress, Acting, Stopped
  <2>1. CASE HandleCommand \/ FlashCommandDone
    BY <2>1 DEF HandleCommand, FlashCommandDone
  <2>2. CASE StartFlashCommand \/ InvalidCommand
    BY <2>2 DEF StartFlashCommand, InvalidCommand, Goto, Raise
  <2>3. CASE FlashCommand
    BY <2>3 DEF FlashCommand, Raise
  <2> QED BY <2>1, <2>2, <2>3
<1>2. AllKnown
  <2>1. /\ KnownProperties /\ KnownGiven
        /\ KnownTo(args.flash_contents, Len(args.flash_contents) + 1)
        /\ KnownTo(args.flash_override, Len(args.flash_override) + 1)
    BY <1>1 DEF OptionsInv, WithProperties, WithContents, Overridden
  <2> QED BY <2>1, OptionLists DEF AllKnown, KnownProperties, KnownGiven, KnownTo
<1> QED BY <1>1, <1>2, SameKnown
        DEF OptionsInv, WithProperties, WithContents, Overridden, Acting, Stopped

\* Every action keeps the invariant about the options.
LEMMA OptionsStep == PropertyInv /\ OptionsInv /\ [Next]_vars => OptionsInv'
<1> SUFFICES ASSUME PropertyInv, OptionsInv, [Next]_vars PROVE OptionsInv'
  OBVIOUS
<1>0. PropertyInv'
  BY PropertyStep
<1>1. CASE UNCHANGED vars
  BY <1>1, StopOrStay DEF vars, Same, setup, properties, devices, progress
<1>2. CASE \/ InvalidTarget \/ Instantiate \/ \E name \in target.flashes : RegisterFlash(name)
           \/ \E d \in target.declares : Declare(d)
  <2>1. /\ pc \in Building /\ pc' \in Building \cup Stopped /\ handled' = handled
    BY <1>2 DEF InvalidTarget, Instantiate, RegisterFlash, Declare, Raise, progress, Building, Stopped
  <2> QED BY <2>1, BuildingStep DEF Building, Stopped
<1>3. CASE \/ ParseProperty \/ ParseDone \/ DeclareProperty
           \/ \E name \in target.uses : GetProperty(name)
  <2>1. /\ pc \in Building /\ pc' \in Building \cup Stopped /\ handled' = handled
    BY <1>3 DEF ParseProperty, ParseDone, DeclareProperty, GetProperty, Raise, Goto, progress,
                Building, Stopped
  <2> QED BY <2>1, BuildingStep DEF Building, Stopped
<1>4. CASE ConstructDone
  <2>1. pc \in Building /\ pc' = "flash_properties" /\ next' = 1 /\ handled' = handled
    BY <1>4 DEF ConstructDone, Goto, progress, Building
  <2> QED BY <1>0, <2>1, BuildingStep
<1>5. CASE ExtractFlashProperty \/ PropagateFlashProperties
  BY <1>5, FlashPropertyStep, PropagateStep
<1>6. CASE BothContents \/ FlashContent \/ ReadMultiFlashContent \/ MultiFlashContent \/ ContentsDone
  BY <1>6, FlashContentStep, MultiContentStep, ContentsDoneStep
<1>7. CASE FlashOverride \/ OverrideDone \/ check_args
  BY <1>7, FlashOverrideStep, OverrideDoneStep, CheckArgsStep
<1>8. CASE HandleCommand \/ StartFlashCommand \/ InvalidCommand \/ FlashCommand \/ FlashCommandDone
  BY <1>8, CommandStep
<1> QED BY <1>1, <1>2, <1>3, <1>4, <1>5, <1>6, <1>7, <1>8 DEF Next

\* Both invariants hold in every reachable state.
THEOREM OptionsInvariant == Spec => [](PropertyInv /\ OptionsInv)
BY PropertyInit, PropertyStep, OptionsInit, OptionsStep, PTL DEF Spec

\* No command has done anything to a flash, or anything else, unless every
\* flash option and every property of the command line was accepted
\* (gapy's main program, Target.parse_args and Target.check_args).
THEOREM NothingBeforeAccepted == Spec => []AcceptedBeforeDone
<1>1. OptionsInv => AcceptedBeforeDone
  BY DEF OptionsInv, AcceptedBeforeDone
<1> QED BY <1>1, OptionsInvariant, PTL

-----------------------------------------------------------------------------
(* Types                                                                   *)

\* The inductive invariant.  TypeOK needs to know that what is declared is of
\* the target, and that commands come from the command line.
TypesInv ==
  /\ TypeOK
  /\ args \in CommandLines /\ target \in Targets
  /\ flashes \in Seq(target.flashes)
  /\ commands \in Seq(STRING)
  /\ pc \in {"parse", "declare"} => pending \in target.declares

\* A dictionary with one more entry holds what it held and the entry.
LEMMA PutHolds ==
  ASSUME NEW f, NEW key, NEW value, NEW S, \A n \in DOMAIN f : f[n] \in S, value \in S
  PROVE  /\ \A n \in DOMAIN Put(f, key, value) : Put(f, key, value)[n] \in S
         /\ DOMAIN Put(f, key, value) = DOMAIN f \cup {key}
BY DEF Put

LEMMA TypesInit == Init => TypesInv
<1> SUFFICES ASSUME Init PROVE TypesInv
  OBVIOUS
<1>1. commands \in Seq(STRING)
  BY GapyConstants DEF Init
<1>2. ToSet(flashes) = {} /\ DOMAIN flash = {} /\ DOMAIN staged = {} /\ DOMAIN used = {}
      /\ DOMAIN args_properties = {} /\ DOMAIN target_properties = {}
  BY DEF Init, ToSet
<1>3. TypeOK
  <2>1. handled \in Seq(Acts)
    BY DEF Init
  <2>2. /\ target_properties_parsed \in BOOLEAN /\ next \in Nat \ {0}
        /\ pc \in Phases \cup Stopped
    <3>1. target_properties_parsed = FALSE /\ next = 1 /\ pc = "start"
      BY DEF Init
    <3>2. "start" \in Phases
      BY DEF Phases
    <3>3. FALSE \in BOOLEAN /\ 1 \in Nat \ {0}
      OBVIOUS
    <3> QED BY <3>1, <3>2, <3>3
  <2>5. declared \subseteq target.declares
    <3>1. declared = {}
      BY DEF Init
    <3> QED BY <3>1
  <2>3. \A f \in {args_properties, target_properties, used} : \A n \in DOMAIN f : FALSE
    BY <1>2, Zenon
  <2>4. /\ ToSet(flashes) = DOMAIN flash /\ DOMAIN flash \subseteq target.flashes
        /\ \A name \in DOMAIN staged : FALSE
    BY <1>2
  <2> QED BY <2>1, <2>2, <2>3, <2>4, <2>5 DEF TypeOK
<1> QED BY <1>1, <1>3 DEF Init, TypesInv

\* Steps that only move on, or change what a flash holds.
Moving ==
  /\ UNCHANGED <<args, target, properties, used, flashes, staged, commands, handled>>
  /\ DOMAIN flash' = DOMAIN flash
  /\ next' \in Nat \ {0} /\ pc' \in Phases \cup Stopped
  /\ pc' \in {"parse", "declare"} => pc \in {"parse", "declare"}

LEMMA MovingTypes == TypesInv /\ Moving => TypesInv'
BY DEF TypesInv, TypeOK, Moving, properties

\* A step that raises an exception moves on.
LEMMA RaiseMoves ==
  ASSUME TypesInv, NEW kind \in Stopped, Raise(kind) PROVE Moving
BY DEF TypesInv, TypeOK, Raise, Moving, setup, devices, progress, Stopped, Phases

\* So does a step from one part of the program to another one.
LEMMA GotoMoves ==
  ASSUME TypesInv, NEW place \in Phases \ {"parse"}, place = "declare" => pc = "parse",
         Goto(place)
  PROVE Moving
BY DEF TypesInv, TypeOK, Goto, Moving, setup, devices, progress, Phases

\* And setting the content of a flash.
LEMMA ContentMoves ==
  ASSUME TypesInv, NEW p, SetContentOf(p), pc \notin {"parse", "declare"} PROVE Moving
BY DEF TypesInv, TypeOK, SetContentOf, Moving, setup, progress, Phases

\* The steps that move on.
LEMMA MovingSteps ==
  ASSUME TypesInv,
         \/ InvalidTarget \/ Instantiate \/ ParseDone \/ ConstructDone
         \/ PropagateFlashProperties
         \/ BothContents \/ FlashContent \/ ReadMultiFlashContent \/ MultiFlashContent
         \/ ContentsDone \/ FlashOverride \/ OverrideDone \/ check_args
         \/ StartFlashCommand \/ InvalidCommand
  PROVE  TypesInv'
<1>0. /\ {"error", "crash", "type_error"} = Stopped /\ next \in Nat \ {0} /\ pc \in Phases \cup Stopped
  BY DEF TypesInv, TypeOK, Stopped
<1>1. CASE \E kind \in Stopped : Raise(kind)
  BY <1>1, RaiseMoves, MovingTypes
<1>2. CASE \E p : SetContentOf(p) /\ pc \notin {"parse", "declare"}
  BY <1>2, ContentMoves, MovingTypes
<1>3. CASE \/ \E place \in Phases \ {"parse", "declare"} : Goto(place)
           \/ pc = "parse" /\ Goto("declare")
  <2>1. "declare" \in Phases \ {"parse"}
    BY DEF Phases
  <2> QED BY <1>3, <2>1, GotoMoves, MovingTypes
<1>4. CASE Instantiate
  <2>1. Moving
    BY <1>0, <1>4 DEF Instantiate, Moving, devices, progress, Phases
  <2> QED BY <2>1, MovingTypes
<1>5. CASE PropagateFlashProperties
  <2>1. CASE Raise("error")
    BY <1>0, <1>1, <2>1
  <2>2. CASE ~Raise("error")
    <3>1. Moving
      BY <1>5, <2>2 DEF PropagateFlashProperties, Moving, setup, progress, Phases
    <3> QED BY <3>1, MovingTypes
  <2> QED BY <2>1, <2>2
<1>6. CASE FlashOverride
  <2>1. CASE Raise("error") \/ Raise("crash")
    BY <1>0, <1>1, <2>1
  <2>2. CASE ~(Raise("error") \/ Raise("crash"))
    <3>1. Moving
      BY <1>0, <1>6, <2>2 DEF FlashOverride, Moving, setup, progress, Phases
    <3> QED BY <3>1, MovingTypes
  <2> QED BY <2>1, <2>2
<1>7. CASE InvalidTarget \/ BothContents \/ InvalidCommand
  BY <1>0, <1>1, <1>7 DEF InvalidTarget, BothContents, InvalidCommand
<1>8. CASE ParseDone \/ ConstructDone \/ ContentsDone \/ OverrideDone \/ StartFlashCommand
  BY <1>3, <1>8 DEF ParseDone, ConstructDone, ContentsDone, OverrideDone, StartFlashCommand, Phases
<1>9. CASE check_args \/ ReadMultiFlashContent
  BY <1>0, <1>1, <1>3, <1>9 DEF check_args, ReadMultiFlashContent, Phases
<1>10. CASE FlashContent \/ MultiFlashContent
  BY <1>0, <1>1, <1>2, <1>10 DEF FlashContent, MultiFlashContent
<1> QED BY <1>4, <1>5, <1>6, <1>7, <1>8, <1>9, <1>10

\* A flash is registered once, under a name of the target.
LEMMA RegisterTypes ==
  ASSUME TypesInv, NEW name \in target.flashes, RegisterFlash(name) PROVE TypesInv'
<1>1. /\ flashes' = Append(flashes, name) /\ flash' = Put(flash, name, NewFlash)
      /\ pc' = pc /\ pc = "construct"
      /\ UNCHANGED <<args, target, properties, used, staged, commands, handled, next>>
  BY DEF RegisterFlash, setup, progress
<1>2. flashes' \in Seq(target.flashes) /\ ToSet(flashes') = ToSet(flashes) \cup {name}
  <2>1. flashes \in Seq(target.flashes) /\ Len(flashes) \in Nat
    BY DEF TypesInv
  <2>2. /\ flashes' \in Seq(target.flashes) /\ Len(flashes') = Len(flashes) + 1
        /\ \A k \in 1 .. Len(flashes) : flashes'[k] = flashes[k]
        /\ flashes'[Len(flashes) + 1] = name
    BY <1>1, <2>1
  <2>3. DOMAIN flashes = 1 .. Len(flashes) /\ DOMAIN flashes' = 1 .. Len(flashes) + 1
    BY <2>1, <2>2
  <2>4. 1 .. Len(flashes) + 1 = 1 .. Len(flashes) \cup {Len(flashes) + 1}
    BY <2>1
  <2> QED BY <2>2, <2>3, <2>4 DEF ToSet
<1>3. DOMAIN flash' = DOMAIN flash \cup {name}
  BY <1>1 DEF Put
<1> QED BY <1>1, <1>2, <1>3 DEF TypesInv, TypeOK, properties

\* What is declared is of the target.
LEMMA DeclareTypes ==
  ASSUME TypesInv, NEW d \in target.declares, Declare(d) PROVE TypesInv'
<1>1. /\ pending' = d /\ target_properties_parsed' = TRUE /\ pc' \in {"declare", "parse"}
      /\ next' = 1
      /\ UNCHANGED <<args, target, args_properties, target_properties, declared, used,
                     flashes, flash, staged, commands, handled>>
  BY DEF Declare, setup, devices, progress
<1> QED BY <1>1 DEF TypesInv, TypeOK, Phases

\* Values of the command line are strings.
LEMMA ParseTypes ==
  ASSUME TypesInv, PropertyInv, ParseProperty PROVE TypesInv'
<1>1. CASE ReparsedProperties[next] = Malformed
  <2>1. "error" \in Stopped /\ Raise("error")
    BY <1>1 DEF ParseProperty, Stopped
  <2> QED BY <2>1, RaiseMoves, MovingTypes
<1>2. CASE ReparsedProperties[next] # Malformed
  <2>1. /\ pc = "parse" /\ next <= Len(ReparsedProperties)
        /\ args_properties' = Put(args_properties, ReparsedProperties[next].name,
                                  ReparsedProperties[next].value)
        /\ next' = next + 1
        /\ UNCHANGED <<args, target, target_properties_parsed, target_properties, pending,
                       declared, used, flashes, flash, staged, commands, handled, pc>>
    BY <1>2 DEF ParseProperty, setup, devices, progress
  <2>2. ReparsedProperties = Given
    BY <2>1 DEF PropertyInv, Started, Running, Phases
  <2>3. next \in DOMAIN Given
    BY <2>1, <2>2, GivenList DEF TypesInv, TypeOK
  <2>4. IsPropertyList(Given)
    BY GapyConstants DEF TypesInv, Given
  <2>5. ReparsedProperties[next].value \in STRING
    BY <1>2, <2>2, <2>3, <2>4 DEF IsPropertyList
  <2>6. \A n \in DOMAIN args_properties : args_properties[n] \in STRING
    BY DEF TypesInv, TypeOK
  <2>7. \A n \in DOMAIN args_properties' : args_properties'[n] \in STRING
    BY <2>1, <2>5, <2>6, PutHolds
  <2> QED BY <2>1, <2>7 DEF TypesInv, TypeOK
<1> QED BY <1>1, <1>2

\* A property has a string of the command line, what int or bool make of it,
\* or its default.
LEMMA DeclarePropertyTypes ==
  ASSUME TypesInv, DeclareProperty PROVE TypesInv'
<1> DEFINE name == pending.name
           arg == args_properties[name]
           value == IF name \in DOMAIN args_properties THEN Cast(pending, arg) ELSE pending.value
<1>1. CASE Raise("error") \/ Raise("crash")
  <2>1. \E kind \in Stopped : Raise(kind)
    BY <1>1 DEF Stopped
  <2> QED BY <2>1, RaiseMoves, MovingTypes
<1>2. CASE ~(Raise("error") \/ Raise("crash"))
  <2>1. /\ pc = "declare" /\ pc' = "construct"
        /\ name \in DOMAIN args_properties => Castable(pending, arg)
        /\ target_properties' = Put(target_properties, name, value)
        /\ declared' = declared \cup {pending}
        /\ UNCHANGED <<args, target, target_properties_parsed, args_properties, pending,
                       used, flashes, flash, staged, commands, handled, next>>
    BY <1>2 DEF DeclareProperty, setup, devices, progress
  <2>2. pending \in target.declares
    BY <2>1 DEF TypesInv
  <2>3. value \in PropertyValues
    <3>1. pending.value \in PropertyValues
      BY <2>2, TargetConstants DEF TypesInv
    <3>2. CASE name \in DOMAIN args_properties
      <4>1. arg \in STRING
        BY <3>2 DEF TypesInv, TypeOK
      <4>2. pending.cast = "int" => IntOf[arg] \in PropertyValues
        BY <2>1, <3>2, TargetConstants DEF Castable
      <4>3. "True" \in PropertyValues /\ "False" \in PropertyValues
        BY DEF PropertyValues
      <4>4. CASE pending.cast = "int"
        BY <3>2, <4>2, <4>4 DEF Cast
      <4>5. CASE pending.cast = "bool"
        BY <3>2, <4>3, <4>5 DEF Cast
      <4>6. CASE pending.cast \notin {"int", "bool"}
        BY <3>2, <4>1, <4>6 DEF Cast, PropertyValues
      <4> QED BY <4>4, <4>5, <4>6
    <3> QED BY <3>1, <3>2
  <2> HIDE DEF value, name
  <2>4. \A n \in DOMAIN target_properties : target_properties[n] \in PropertyValues
    BY DEF TypesInv, TypeOK
  <2>5. \A n \in DOMAIN target_properties' : target_properties'[n] \in PropertyValues
    BY <2>1, <2>3, <2>4, PutHolds
  <2> QED BY <2>1, <2>2, <2>5 DEF TypesInv, TypeOK, Phases
<1> QED BY <1>1, <1>2

\* A component is built with a value of a property.
LEMMA GetPropertyTypes ==
  ASSUME TypesInv, NEW name \in target.uses, GetProperty(name) PROVE TypesInv'
<1>1. CASE name \notin DOMAIN target_properties
  <2>1. "error" \in Stopped /\ Raise("error")
    BY <1>1 DEF GetProperty, Stopped
  <2> QED BY <2>1, RaiseMoves, MovingTypes
<1>2. CASE name \in DOMAIN target_properties
  <2>1. /\ used' = Put(used, name, target_properties[name])
        /\ UNCHANGED <<args, target, properties, flashes, flash, staged, commands, handled,
                       next, pc>>
    BY <1>2 DEF GetProperty, setup, devices, progress
  <2>2. \A n \in DOMAIN used : used[n] \in PropertyValues
    BY DEF TypesInv, TypeOK
  <2>3. target_properties[name] \in PropertyValues
    BY <1>2 DEF TypesInv, TypeOK
  <2>4. \A n \in DOMAIN used' : used'[n] \in PropertyValues
    BY <2>1, <2>2, <2>3, PutHolds
  <2> QED BY <2>1, <2>4 DEF TypesInv, TypeOK, properties
<1> QED BY <1>1, <1>2

\* What is staged for a section, with one more value.
LEMMA StagedLooks ==
  ASSUME NEW p
  PROVE  /\ DOMAIN StagedWith(p) = DOMAIN staged \cup {Alias(p.flash)}
         /\ \A name \in DOMAIN staged :
              name # Alias(p.flash) => StagedWith(p)[name] = staged[name]
         /\ DOMAIN StagedWith(p)[Alias(p.flash)] =
              (IF Alias(p.flash) \in DOMAIN staged THEN DOMAIN staged[Alias(p.flash)] ELSE {})
                \cup {p.section}
         /\ \A s : /\ Alias(p.flash) \in DOMAIN staged
                   /\ s \in DOMAIN staged[Alias(p.flash)] /\ s # p.section
                   => StagedWith(p)[Alias(p.flash)][s] = staged[Alias(p.flash)][s]
         /\ StagedWith(p)[Alias(p.flash)][p.section] =
              Append(Staged(Alias(p.flash), p.section), [key |-> p.key, value |-> p.value])
<1> DEFINE name == Alias(p.flash)
           sections == IF name \in DOMAIN staged THEN staged[name] ELSE <<>>
           more == Append(Staged(name, p.section), [key |-> p.key, value |-> p.value])
<1>1. StagedWith(p) = Put(staged, name, Put(sections, p.section, more))
  BY DEF StagedWith
<1>2. DOMAIN sections = IF name \in DOMAIN staged THEN DOMAIN staged[name] ELSE {}
  OBVIOUS
<1> HIDE DEF name, more, sections
<1>3. /\ DOMAIN StagedWith(p) = DOMAIN staged \cup {name}
      /\ \A n \in DOMAIN staged : n # name => StagedWith(p)[n] = staged[n]
      /\ StagedWith(p)[name] = Put(sections, p.section, more)
  BY <1>1 DEF Put
<1>4. /\ DOMAIN Put(sections, p.section, more) = DOMAIN sections \cup {p.section}
      /\ Put(sections, p.section, more)[p.section] = more
      /\ \A s \in DOMAIN sections :
           s # p.section => Put(sections, p.section, more)[s] = sections[s]
  BY DEF Put
<1>5. name \in DOMAIN staged => sections = staged[name]
  BY DEF sections
<1> QED BY <1>2, <1>3, <1>4, <1>5 DEF name, more

\* A property of a flash is put in the list of its section.
LEMMA ExtractTypes ==
  ASSUME TypesInv, ExtractFlashProperty PROVE TypesInv'
<1> DEFINE p == args.flash_properties[next]
<1>1. CASE p = Malformed
  <2>1. "error" \in Stopped /\ Raise("error")
    BY <1>1 DEF ExtractFlashProperty, Stopped
  <2> QED BY <2>1, RaiseMoves, MovingTypes
<1>2. CASE p # Malformed
  <2>1. /\ next <= Len(args.flash_properties)
        /\ staged' = StagedWith(p) /\ next' = next + 1
        /\ UNCHANGED <<args, target, properties, used, flashes, flash, commands, handled, pc>>
    BY <1>2 DEF ExtractFlashProperty, setup, progress
  <2>2. p.key \in STRING /\ p.value \in STRING
    <3>1. IsFlashPropertyList(args.flash_properties)
      BY GapyConstants DEF TypesInv
    <3>2. next \in DOMAIN args.flash_properties
      BY <2>1, <3>1 DEF IsFlashPropertyList, IsList, TypesInv, TypeOK
    <3> QED BY <1>2, <3>1, <3>2 DEF IsFlashPropertyList
  <2>3. [key |-> p.key, value |-> p.value] \in Keyed
    BY <2>2 DEF Keyed
  <2> HIDE DEF p
  <2>4. Append(Staged(Alias(p.flash), p.section), [key |-> p.key, value |-> p.value]) \in Seq(Keyed)
    <3>1. Staged(Alias(p.flash), p.section) \in Seq(Keyed)
      BY DEF Staged, TypesInv, TypeOK
    <3> QED BY <2>3, <3>1
  <2>5. ASSUME NEW name \in DOMAIN staged', NEW s \in DOMAIN staged'[name]
        PROVE  staged'[name][s] \in Seq(Keyed)
    <3>1. CASE name # Alias(p.flash)
      <4>1. name \in DOMAIN staged /\ staged'[name] = staged[name]
        BY <2>1, <2>5, <3>1, StagedLooks
      <4> QED BY <2>5, <4>1 DEF TypesInv, TypeOK
    <3>2. CASE name = Alias(p.flash) /\ s = p.section
      BY <2>1, <2>4, <3>2, StagedLooks
    <3>3. CASE name = Alias(p.flash) /\ s # p.section
      <4>1. name \in DOMAIN staged /\ s \in DOMAIN staged[name] /\ staged'[name][s] = staged[name][s]
        BY <2>1, <2>5, <3>3, StagedLooks
      <4> QED BY <4>1 DEF TypesInv, TypeOK
    <3> QED BY <3>1, <3>2, <3>3
  <2> QED BY <2>1, <2>5 DEF TypesInv, TypeOK, properties
<1> QED BY <1>1, <1>2

\* What is done is done for a command of the command line and a flash of the
\* target, or none.
LEMMA DidTypes ==
  ASSUME TypesInv, NEW name \in STRING \cup {""}, Did(name), commands # <<>>
  PROVE  /\ handled' \in Seq(Acts)
         /\ Tail(commands) \in Seq(STRING)
<1>1. commands \in Seq(STRING) /\ handled \in Seq(Acts)
  BY DEF TypesInv, TypeOK
<1>2. Head(commands) \in STRING /\ Tail(commands) \in Seq(STRING)
  BY <1>1, HeadTailProperties
<1>3. [command |-> Head(commands), flash |-> name] \in Acts
  BY <1>2 DEF Acts
<1> QED BY <1>1, <1>2, <1>3, AppendProperties DEF Did

LEMMA CommandTypes ==
  ASSUME TypesInv, pc = "flash_command" => commands # <<>>,
         HandleCommand \/ FlashCommand \/ FlashCommandDone
  PROVE  TypesInv'
<1>1. CASE HandleCommand
  <2>1. /\ commands # <<>> /\ Did("") /\ commands' = Tail(commands)
        /\ UNCHANGED <<args, target, properties, used, flashes, flash, staged, next, pc>>
        /\ pc = "commands"
    BY <1>1 DEF HandleCommand, setup, devices
  <2>2. /\ handled' \in Seq(Acts)
        /\ Tail(commands) \in Seq(STRING)
    BY <2>1, DidTypes
  <2> QED BY <2>1, <2>2 DEF TypesInv, TypeOK, properties
<1>2. CASE FlashCommand
  <2>1. CASE Raise("error") \/ Raise("crash") \/ Raise("type_error")
    <3>1. \E kind \in Stopped : Raise(kind)
      BY <2>1 DEF Stopped
    <3> QED BY <3>1, RaiseMoves, MovingTypes
  <2>2. CASE ~(Raise("error") \/ Raise("crash") \/ Raise("type_error"))
    <3>1. /\ pc = "flash_command" /\ next <= Len(flashes) /\ Did(flashes[next])
          /\ next' = next + 1
          /\ UNCHANGED <<args, target, properties, used, flashes, flash, staged, commands, pc>>
      BY <1>2, <2>2 DEF FlashCommand, setup, devices
    <3>2. flashes[next] \in STRING
      <4>1. flashes[next] \in target.flashes
        BY <3>1 DEF TypesInv, TypeOK
      <4> QED BY <4>1, TargetConstants DEF TypesInv
    <3>3. handled' \in Seq(Acts)
      BY <3>1, <3>2, DidTypes
    <3> QED BY <3>1, <3>3 DEF TypesInv, TypeOK, properties
  <2> QED BY <2>1, <2>2
<1>3. CASE FlashCommandDone
  <2>1. /\ pc = "flash_command" /\ commands' = Tail(commands) /\ next' = 1 /\ pc' = "commands"
        /\ UNCHANGED <<args, target, properties, used, flashes, flash, staged, handled>>
    BY <1>3 DEF FlashCommandDone, setup, devices
  <2>2. Tail(commands) \in Seq(STRING)
    BY <2>1 DEF TypesInv
  <2> QED BY <2>1, <2>2 DEF TypesInv, TypeOK, properties, Phases
<1> QED BY <1>1, <1>2, <1>3

-----------------------------------------------------------------------------
(* Flashes get their properties in order                                   *)

\* list is what the command line says, before place n, of section s of a
\* flash: the k-th value is that of the k-th property for it.
HoldsTo(list, name, s, n) ==
  /\ Len(list) = Cardinality(MineTo(n, name, s))
  /\ \A i \in MineTo(n, name, s) :
       list[Cardinality(MineTo(i + 1, name, s))] =
         [key |-> args.flash_properties[i].key, value |-> args.flash_properties[i].value]

\* staged holds the first n - 1 properties, and nothing else.
StagedHolds(n) ==
  /\ \A i \in 1 .. n - 1 :
       LET p == args.flash_properties[i]
       IN Alias(p.flash) \in DOMAIN staged /\ p.section \in DOMAIN staged[Alias(p.flash)]
  /\ \A name \in DOMAIN staged : \A s \in DOMAIN staged[name] :
       HoldsTo(staged[name][s], name, s, n)

FlashHolds ==
  \A name \in DOMAIN flash :
    /\ "properties" \in DOMAIN flash[name]
    /\ \A i \in 1 .. Len(args.flash_properties) :
         Alias(args.flash_properties[i].flash) = name
           => args.flash_properties[i].section \in DOMAIN flash[name].properties
    /\ \A s \in DOMAIN flash[name].properties :
         HoldsTo(flash[name].properties[s], name, s, Len(args.flash_properties) + 1)

\* What becomes of the properties, from the first one staged to the end.
SectionsInv ==
  /\ pc \in Building => staged = <<>>
  /\ pc \in Building \cup {"flash_properties"} =>
       \A name \in DOMAIN flash : flash[name] = NewFlash
  /\ pc = "flash_properties" =>
       next <= Len(args.flash_properties) + 1 /\ StagedHolds(next)
  /\ pc \in WithProperties => FlashHolds

\* The places of the properties for a section are a finite set, to which the
\* next property belongs or not.
LEMMA MineFinite ==
  ASSUME NEW n \in Nat, NEW name, NEW s
  PROVE  IsFiniteSet(MineTo(n, name, s)) /\ Cardinality(MineTo(n, name, s)) \in Nat
<1>1. IsFiniteSet(1 .. n - 1)
  BY FS_Interval
<1>2. MineTo(n, name, s) \subseteq 1 .. n - 1
  BY DEF MineTo
<1>3. IsFiniteSet(MineTo(n, name, s))
  BY <1>1, <1>2, FS_Subset
<1> QED BY <1>3, FS_CardinalityType

LEMMA MineMore ==
  ASSUME NEW n \in Nat \ {0}, NEW name, NEW s
  PROVE  IF /\ Alias(args.flash_properties[n].flash) = name
            /\ args.flash_properties[n].section = s
         THEN /\ MineTo(n + 1, name, s) = MineTo(n, name, s) \cup {n}
              /\ Cardinality(MineTo(n + 1, name, s)) = Cardinality(MineTo(n, name, s)) + 1
         ELSE MineTo(n + 1, name, s) = MineTo(n, name, s)
<1>1. 1 .. n + 1 - 1 = 1 .. n - 1 \cup {n} /\ n \notin 1 .. n - 1
  OBVIOUS
<1>2. CASE /\ Alias(args.flash_properties[n].flash) = name
           /\ args.flash_properties[n].section = s
  <2>1. MineTo(n + 1, name, s) = MineTo(n, name, s) \cup {n} /\ n \notin MineTo(n, name, s)
    BY <1>1, <1>2 DEF MineTo
  <2>2. IsFiniteSet(MineTo(n, name, s))
    BY MineFinite
  <2>3. Cardinality(MineTo(n, name, s) \cup {n}) = Cardinality(MineTo(n, name, s)) + 1
    BY <2>1, <2>2, FS_AddElement
  <2> QED BY <1>2, <2>1, <2>3
<1>3. CASE ~(/\ Alias(args.flash_properties[n].flash) = name
             /\ args.flash_properties[n].section = s)
  <2>1. MineTo(n + 1, name, s) = MineTo(n, name, s)
    BY <1>1, <1>3 DEF MineTo
  <2> QED BY <1>3, <2>1
<1> QED BY <1>2, <1>3

\* A property has one of the first places among those before n.
LEMMA MinePlace ==
  ASSUME NEW n \in Nat \ {0}, NEW name, NEW s, NEW i \in MineTo(n, name, s)
  PROVE  Cardinality(MineTo(i + 1, name, s)) \in 1 .. Cardinality(MineTo(n, name, s))
<1>1. i \in 1 .. n - 1 /\ i + 1 \in Nat
  BY DEF MineTo
<1>2. MineTo(i + 1, name, s) \subseteq MineTo(n, name, s) /\ i \in MineTo(i + 1, name, s)
  BY <1>1 DEF MineTo
<1>3. /\ IsFiniteSet(MineTo(n, name, s)) /\ Cardinality(MineTo(n, name, s)) \in Nat
      /\ IsFiniteSet(MineTo(i + 1, name, s)) /\ Cardinality(MineTo(i + 1, name, s)) \in Nat
  BY <1>1, MineFinite
<1>4. Cardinality(MineTo(i + 1, name, s)) <= Cardinality(MineTo(n, name, s))
  BY <1>2, <1>3, FS_Subset
<1>5. Cardinality(MineTo(i + 1, name, s)) # 0
  BY <1>2, <1>3, FS_EmptySet
<1> QED BY <1>3, <1>4, <1>5

\* One more property for a section is put at the end of its list.
LEMMA HoldsMore ==
  ASSUME NEW n \in Nat \ {0}, NEW name, NEW s, NEW list \in Seq(Keyed),
         HoldsTo(list, name, s, n),
         Alias(args.flash_properties[n].flash) = name, args.flash_properties[n].section = s,
         NEW entry \in Keyed,
         entry = [key |-> args.flash_properties[n].key,
                  value |-> args.flash_properties[n].value]
  PROVE  HoldsTo(Append(list, entry), name, s, n + 1)
<1>1. /\ MineTo(n + 1, name, s) = MineTo(n, name, s) \cup {n}
      /\ Cardinality(MineTo(n + 1, name, s)) = Cardinality(MineTo(n, name, s)) + 1
  BY MineMore
<1>2. /\ Len(list) = Cardinality(MineTo(n, name, s)) /\ Len(list) \in Nat
      /\ \A i \in MineTo(n, name, s) :
           list[Cardinality(MineTo(i + 1, name, s))] =
             [key |-> args.flash_properties[i].key, value |-> args.flash_properties[i].value]
  BY DEF HoldsTo
<1>3. /\ Len(Append(list, entry)) = Len(list) + 1
      /\ \A k \in 1 .. Len(list) : Append(list, entry)[k] = list[k]
      /\ Append(list, entry)[Len(list) + 1] = entry
  BY AppendProperties
<1>4. ASSUME NEW i \in MineTo(n, name, s)
      PROVE  Append(list, entry)[Cardinality(MineTo(i + 1, name, s))] =
               [key |-> args.flash_properties[i].key, value |-> args.flash_properties[i].value]
  <2>1. Cardinality(MineTo(i + 1, name, s)) \in 1 .. Len(list)
    BY <1>2, MinePlace
  <2> QED BY <1>2, <1>3, <2>1
<1>5. Append(list, entry)[Cardinality(MineTo(n + 1, name, s))] = entry
  BY <1>1, <1>2, <1>3
<1> QED BY <1>1, <1>2, <1>3, <1>4, <1>5 DEF HoldsTo

\* Nothing holds nothing.
LEMMA HoldsNone ==
  ASSUME NEW n, NEW name, NEW s, MineTo(n, name, s) = {} PROVE HoldsTo(<<>>, name, s, n)
BY FS_EmptySet DEF HoldsTo

\* What is staged after one more property.
LEMMA StagedMore ==
  ASSUME TypesInv, NEW n \in Nat \ {0}, StagedHolds(n), n \in DOMAIN args.flash_properties,
         args.flash_properties[n] # Malformed,
         staged' = StagedWith(args.flash_properties[n]), args' = args
  PROVE  StagedHolds(n + 1)'
<1> DEFINE p == args.flash_properties[n]
<1>1. [key |-> p.key, value |-> p.value] \in Keyed
  <2>1. IsFlashPropertyList(args.flash_properties)
    BY GapyConstants DEF TypesInv
  <2> QED BY <2>1 DEF IsFlashPropertyList, Keyed
<1> HIDE DEF p
<1>2. \A i \in 1 .. n - 1 :
        LET q == args.flash_properties[i]
        IN Alias(q.flash) \in DOMAIN staged /\ q.section \in DOMAIN staged[Alias(q.flash)]
  BY DEF StagedHolds
<1>3. ASSUME NEW name \in DOMAIN staged, NEW s \in DOMAIN staged[name]
      PROVE  staged[name][s] \in Seq(Keyed) /\ HoldsTo(staged[name][s], name, s, n)
  BY <1>3 DEF StagedHolds, TypesInv, TypeOK
<1>4. ASSUME NEW i \in 1 .. n
      PROVE  LET q == args.flash_properties[i]
             IN Alias(q.flash) \in DOMAIN staged' /\ q.section \in DOMAIN staged'[Alias(q.flash)]
  <2>1. CASE i = n
    BY <2>1, StagedLooks DEF p
  <2>2. CASE i # n
    <3> DEFINE name == Alias(args.flash_properties[i].flash)
               s == args.flash_properties[i].section
    <3>1. name \in DOMAIN staged /\ s \in DOMAIN staged[name]
      BY <1>2, <2>2
    <3> HIDE DEF name, s
    <3>2. name \in DOMAIN staged'
      BY <3>1, StagedLooks
    <3>3. s \in DOMAIN staged'[name]
      <4>1. CASE name = Alias(p.flash)
        BY <3>1, <4>1, StagedLooks DEF p
      <4>2. CASE name # Alias(p.flash)
        BY <3>1, <4>2, StagedLooks DEF p
      <4> QED BY <4>1, <4>2
    <3> QED BY <3>2, <3>3 DEF name, s
  <2> QED BY <2>1, <2>2
<1>5. ASSUME NEW name \in DOMAIN staged', NEW s \in DOMAIN staged'[name]
      PROVE  HoldsTo(staged'[name][s], name, s, n + 1)
  <2>1. CASE name = Alias(p.flash) /\ s = p.section
    <3>1. Staged(name, s) \in Seq(Keyed) /\ HoldsTo(Staged(name, s), name, s, n)
      <4>1. CASE name \in DOMAIN staged /\ s \in DOMAIN staged[name]
        BY <1>3, <4>1 DEF Staged
      <4>2. CASE ~(name \in DOMAIN staged /\ s \in DOMAIN staged[name])
        <5>1. MineTo(n, name, s) = {}
          BY <1>2, <4>2 DEF MineTo
        <5>2. HoldsTo(<<>>, name, s, n)
          BY <5>1, HoldsNone
        <5>3. Staged(name, s) = <<>>
          BY <4>2 DEF Staged
        <5> QED BY <5>2, <5>3
      <4> QED BY <4>1, <4>2
    <3>2. staged'[name][s] = Append(Staged(name, s), [key |-> p.key, value |-> p.value])
      BY <2>1, StagedLooks DEF p
    <3> QED BY <1>1, <2>1, <3>1, <3>2, HoldsMore DEF p
  <2>2. CASE ~(name = Alias(p.flash) /\ s = p.section)
    <3>1. /\ name \in DOMAIN staged /\ s \in DOMAIN staged[name]
          /\ staged'[name][s] = staged[name][s]
      <4>1. CASE name # Alias(p.flash)
        BY <1>5, <4>1, StagedLooks DEF p
      <4>2. CASE name = Alias(p.flash) /\ s # p.section
        <5>1. s \in DOMAIN StagedWith(p)[Alias(p.flash)] /\ staged' = StagedWith(p)
          BY <1>5, <4>2 DEF p
        <5>2. Alias(p.flash) \in DOMAIN staged /\ s \in DOMAIN staged[Alias(p.flash)]
          <6>1. DOMAIN StagedWith(p)[Alias(p.flash)] =
                  (IF Alias(p.flash) \in DOMAIN staged THEN DOMAIN staged[Alias(p.flash)] ELSE {})
                    \cup {p.section}
            BY StagedLooks
          <6> QED BY <4>2, <5>1, <6>1
        <5>3. StagedWith(p)[Alias(p.flash)][s] = staged[Alias(p.flash)][s]
          BY <4>2, <5>2, StagedLooks, Zenon
        <5> QED BY <4>2, <5>1, <5>2, <5>3
      <4> QED BY <2>2, <4>1, <4>2
    <3>2. MineTo(n + 1, name, s) = MineTo(n, name, s)
      BY <2>2, MineMore DEF p
    <3>3. HoldsTo(staged[name][s], name, s, n)
      BY <1>3, <3>1
    <3> QED BY <3>1, <3>2, <3>3 DEF HoldsTo
  <2> QED BY <2>1, <2>2
<1>6. \A list, name, s : HoldsTo(list, name, s, n + 1)' = HoldsTo(list, name, s, n + 1)
  BY DEF HoldsTo, MineTo
<1>7. n + 1 - 1 = n
  OBVIOUS
<1> QED BY <1>4, <1>5, <1>6, <1>7 DEF StagedHolds

\* Nothing is staged and no flash has a property while the target is built.
LEMMA SectionsInit == Init => SectionsInv
<1> SUFFICES ASSUME Init PROVE SectionsInv
  OBVIOUS
<1>1. staged = <<>> /\ pc = "start" /\ \A name \in DOMAIN flash : FALSE
  BY DEF Init
<1> QED BY <1>1 DEF SectionsInv, WithProperties, WithContents, Overridden, Acting

LEMMA BuildingSections ==
  ASSUME SectionsInv, pc \in Building, pc' \in Building \cup Stopped, staged' = staged,
         \/ flash' = flash
         \/ \E name : flash' = Put(flash, name, NewFlash)
  PROVE  SectionsInv'
<1>1. \A name \in DOMAIN flash' : flash'[name] = NewFlash
  <2>1. \A name \in DOMAIN flash : flash[name] = NewFlash
    BY DEF SectionsInv
  <2> QED BY <2>1 DEF Put
<1>2. pc' \notin {"flash_properties"} \cup WithProperties
  BY DEF Building, Stopped, WithProperties, WithContents, Overridden, Acting
<1> QED BY <1>1, <1>2 DEF SectionsInv

\* What flashes hold depends on nothing but their properties.
LEMMA KeepsSections ==
  ASSUME SectionsInv, args' = args, pc \in WithProperties, pc' \in WithProperties \cup Stopped,
         DOMAIN flash' = DOMAIN flash,
         \A name \in DOMAIN flash :
           "properties" \in DOMAIN flash[name] =>
             /\ "properties" \in DOMAIN flash'[name]
             /\ flash'[name].properties = flash[name].properties
  PROVE  SectionsInv'
<1>1. FlashHolds
  BY DEF SectionsInv
<1>2. FlashHolds'
  <2>1. \A list, name, s, n : HoldsTo(list, name, s, n)' = HoldsTo(list, name, s, n)
    BY DEF HoldsTo, MineTo
  <2> QED BY <1>1, <2>1 DEF FlashHolds
<1>3. pc' \notin Building \cup {"flash_properties"}
  BY DEF Building, Stopped, WithProperties, WithContents, Overridden, Acting
<1> QED BY <1>2, <1>3 DEF SectionsInv

\* A program that stops keeps nothing.
LEMMA StopSections == pc' \in Stopped => SectionsInv'
BY DEF SectionsInv, Building, Stopped, WithProperties, WithContents, Overridden, Acting

\* Lists of properties have places.
LEMMA PropertyPlaces ==
  ASSUME args \in CommandLines
  PROVE  /\ Len(args.flash_properties) \in Nat
         /\ DOMAIN args.flash_properties = 1 .. Len(args.flash_properties)
BY GapyConstants DEF IsFlashPropertyList, IsList

LEMMA ConstructDoneSections == ASSUME TypesInv, SectionsInv, ConstructDone PROVE SectionsInv'
<1>1. /\ pc = "construct" /\ pc' = "flash_properties" /\ next' = 1
      /\ UNCHANGED <<args, flash, staged>>
  BY DEF ConstructDone, Goto, setup, devices
<1>2. staged = <<>> /\ \A name \in DOMAIN flash : flash[name] = NewFlash
  BY <1>1 DEF SectionsInv, Building
<1>3. StagedHolds(1)'
  <2>1. \A name \in DOMAIN staged' : FALSE
    BY <1>1, <1>2
  <2>2. \A k \in 1 .. 1 - 1 : FALSE
    OBVIOUS
  <2> QED BY <2>1, <2>2 DEF StagedHolds
<1>4. 1 <= Len(args.flash_properties) + 1
  BY PropertyPlaces DEF TypesInv
<1> QED BY <1>1, <1>2, <1>3, <1>4
        DEF SectionsInv, Building, WithProperties, WithContents, Overridden, Acting

LEMMA ExtractSections == ASSUME TypesInv, SectionsInv, ExtractFlashProperty PROVE SectionsInv'
<1>1. CASE args.flash_properties[next] = Malformed
  <2>1. pc' \in Stopped
    BY <1>1 DEF ExtractFlashProperty, Raise, Stopped
  <2> QED BY <2>1, StopSections
<1>2. CASE args.flash_properties[next] # Malformed
  <2>1. /\ pc = "flash_properties" /\ pc' = pc /\ next <= Len(args.flash_properties)
        /\ staged' = StagedWith(args.flash_properties[next]) /\ next' = next + 1
        /\ UNCHANGED <<args, flash>>
    BY <1>2 DEF ExtractFlashProperty, setup
  <2>2. next \in Nat \ {0} /\ next \in DOMAIN args.flash_properties /\ StagedHolds(next)
        /\ Len(args.flash_properties) \in Nat
    BY <2>1, PropertyPlaces DEF TypesInv, TypeOK, SectionsInv
  <2>3. PICK n \in Nat \ {0} : n = next
    BY <2>2
  <2>4. StagedHolds(n + 1)'
    BY <1>2, <2>1, <2>2, <2>3, StagedMore
  <2>5. StagedHolds(next)'
    BY <2>1, <2>3, <2>4 DEF StagedHolds
  <2>6. next' <= Len(args'.flash_properties) + 1
    BY <2>1, <2>2
  <2>7. \A name \in DOMAIN flash' : flash'[name] = NewFlash
    BY <2>1 DEF SectionsInv
  <2> QED BY <2>1, <2>5, <2>6, <2>7
          DEF SectionsInv, Building, WithProperties, WithContents, Overridden, Acting
<1> QED BY <1>1, <1>2

\* A flash without staged properties is named by none.
LEMMA PropagateSections ==
  ASSUME TypesInv, SectionsInv, PropagateFlashProperties PROVE SectionsInv'
<1>1. CASE \E name \in DOMAIN staged : Unknown(name)
  <2>1. pc' \in Stopped
    BY <1>1 DEF PropagateFlashProperties, Raise, Stopped
  <2> QED BY <2>1, StopSections
<1>2. CASE ~ \E name \in DOMAIN staged : Unknown(name)
  <2>1. /\ pc = "flash_properties" /\ pc' = "contents" /\ args' = args
        /\ next > Len(args.flash_properties)
        /\ flash' = [name \in DOMAIN flash |->
                       IF name \in DOMAIN staged
                       THEN [flash[name] EXCEPT !.properties = staged[name]]
                       ELSE flash[name]]
    BY <1>2 DEF PropagateFlashProperties, setup
  <2>2. next = Len(args.flash_properties) + 1 /\ StagedHolds(next)
        /\ Len(args.flash_properties) \in Nat
    BY <2>1, PropertyPlaces DEF TypesInv, TypeOK, SectionsInv
  <2>3. \A name \in DOMAIN flash :
          "properties" \in DOMAIN flash[name] /\ flash[name].properties = <<>>
    BY <2>1 DEF SectionsInv, NewFlash
  <2> DEFINE n == Len(args.flash_properties)
  <2>4. ASSUME NEW name \in DOMAIN flash'
        PROVE  /\ "properties" \in DOMAIN flash'[name]
               /\ \A i \in 1 .. n :
                    Alias(args.flash_properties[i].flash) = name
                      => args.flash_properties[i].section \in DOMAIN flash'[name].properties
               /\ \A s \in DOMAIN flash'[name].properties :
                    HoldsTo(flash'[name].properties[s], name, s, n + 1)
    <3>1. name \in DOMAIN flash
      BY <2>1, <2>4
    <3>2. n \in Nat /\ 1 .. next - 1 = 1 .. n /\ next = n + 1
      BY <2>2
    <3> HIDE DEF n
    <3>3. CASE name \in DOMAIN staged
      <4>1. flash'[name].properties = staged[name] /\ "properties" \in DOMAIN flash'[name]
        <5>1. flash'[name] = [flash[name] EXCEPT !.properties = staged[name]]
          BY <2>1, <3>1, <3>3
        <5>2. flash[name] = NewFlash
          BY <2>1, <3>1 DEF SectionsInv
        <5>3. flash'[name] = [NewFlash EXCEPT !.properties = staged[name]]
          BY <5>1, <5>2
        <5> QED BY <5>3 DEF NewFlash
      <4> QED BY <2>2, <3>2, <3>3, <4>1 DEF StagedHolds
    <3>4. CASE name \notin DOMAIN staged
      <4>1. flash'[name].properties = <<>> /\ "properties" \in DOMAIN flash'[name]
        BY <2>1, <2>3, <3>1, <3>4
      <4>2. \A i \in 1 .. n : Alias(args.flash_properties[i].flash) # name
        BY <2>2, <3>2, <3>4 DEF StagedHolds
      <4>3. \A s \in DOMAIN flash'[name].properties : FALSE
        BY <4>1
      <4> QED BY <4>1, <4>2, <4>3
    <3> QED BY <3>3, <3>4
  <2>5. FlashHolds'
    <3>1. \A list, name, s, k : HoldsTo(list, name, s, k)' = HoldsTo(list, name, s, k)
      BY <2>1 DEF HoldsTo, MineTo
    <3> QED BY <2>1, <2>4, <3>1 DEF FlashHolds
  <2> QED BY <2>1, <2>5
          DEF SectionsInv, Building, WithContents, Overridden, Acting
<1> QED BY <1>1, <1>2

\* Contents and overrides change other things of a flash.
LEMMA ContentSections ==
  ASSUME TypesInv, SectionsInv,
         \/ BothContents \/ FlashContent \/ ReadMultiFlashContent \/ MultiFlashContent
         \/ ContentsDone \/ FlashOverride \/ OverrideDone
  PROVE  SectionsInv'
<1>1. CASE pc' \in Stopped
  BY <1>1, StopSections
<1>2. CASE pc' \notin Stopped
  <2>0. "error" \in Stopped /\ "crash" \in Stopped
    BY DEF Stopped
  <2>1. CASE \/ pc \in {"contents", "multi_flash_content", "flash_override"} /\ flash' = flash
             \/ pc \in {"contents", "multi_flash_content"} /\ \E p : SetContentOf(p)
             \/ FlashOverride /\ pc' = pc
    <3>1. pc \in WithProperties
      BY <2>1 DEF FlashOverride, WithProperties, WithContents
    <3>2. /\ DOMAIN flash' = DOMAIN flash
          /\ \A name \in DOMAIN flash :
               "properties" \in DOMAIN flash[name] =>
                 /\ "properties" \in DOMAIN flash'[name]
                 /\ flash'[name].properties = flash[name].properties
      <4>1. CASE flash' = flash
        BY <4>1
      <4>2. CASE \E p : flash' = [flash EXCEPT ![p.flash].content = p.content]
        BY <4>2
      <4>3. CASE \E p : flash' = [flash EXCEPT ![p.flash].overridden = @ \cup {p.attribute}]
        BY <4>3
      <4>4. CASE FlashOverride /\ pc' = pc
        <5>1. pc # "error" /\ pc # "crash"
          BY <1>2, <2>0, <4>4
        <5> QED BY <4>3, <4>4, <5>1 DEF FlashOverride, Raise
      <4> QED BY <2>1, <4>1, <4>2, <4>4 DEF SetContentOf
    <3>3. args' = args
      BY DEF BothContents, FlashContent, ReadMultiFlashContent, MultiFlashContent, ContentsDone,
             FlashOverride, OverrideDone, Raise, Goto, SetContentOf, setup
    <3>4. pc' \in WithProperties
      BY <1>2, <2>0
         DEF BothContents, FlashContent, ReadMultiFlashContent, MultiFlashContent, ContentsDone,
             FlashOverride, OverrideDone, Raise, Goto, SetContentOf, WithProperties,
             WithContents, Overridden
    <3> QED BY <3>1, <3>2, <3>3, <3>4, KeepsSections
  <2>2. CASE BothContents
    BY <1>2, <2>0, <2>2 DEF BothContents, Raise
  <2>3. CASE FlashContent \/ MultiFlashContent
    <3>1. pc \in {"contents", "multi_flash_content"} /\ \E p : SetContentOf(p)
      BY <1>2, <2>0, <2>3 DEF FlashContent, MultiFlashContent, Raise
    <3> QED BY <2>1, <3>1
  <2>4. CASE ReadMultiFlashContent \/ ContentsDone \/ OverrideDone
    <3>1. pc \in {"contents", "multi_flash_content", "flash_override"} /\ flash' = flash
      BY <1>2, <2>0, <2>4
         DEF ReadMultiFlashContent, ContentsDone, OverrideDone, Raise, Goto, devices
    <3> QED BY <2>1, <3>1
  <2>5. CASE FlashOverride
    <3>1. pc' = pc
      BY <1>2, <2>0, <2>5 DEF FlashOverride, Raise
    <3> QED BY <2>1, <2>5, <3>1
  <2> QED BY <2>2, <2>3, <2>4, <2>5
<1> QED BY <1>1, <1>2

\* Checking the arguments and running commands leaves the flashes alone.
LEMMA CommandSections ==
  ASSUME SectionsInv,
         \/ check_args \/ HandleCommand \/ StartFlashCommand \/ InvalidCommand
         \/ FlashCommand \/ FlashCommandDone
  PROVE  SectionsInv'
<1>1. /\ pc \in {"check_args", "commands", "flash_command"}
      /\ pc' \in {"check_args", "commands", "flash_command"} \cup Stopped
      /\ UNCHANGED <<args, flash>>
  <2> USE DEF setup, devices, Stopped
  <2>1. CASE check_args
    BY <2>1 DEF check_args, Raise, Goto
  <2>2. CASE HandleCommand \/ FlashCommandDone
    BY <2>2 DEF HandleCommand, FlashCommandDone
  <2>3. CASE StartFlashCommand \/ InvalidCommand
    BY <2>3 DEF StartFlashCommand, InvalidCommand, Goto, Raise
  <2>4. CASE FlashCommand
    BY <2>4 DEF FlashCommand, Raise
  <2> QED BY <2>1, <2>2, <2>3, <2>4
<1>2. pc \in WithProperties /\ pc' \in WithProperties \cup Stopped
  BY <1>1 DEF WithProperties, WithContents, Overridden, Acting
<1> QED BY <1>1, <1>2, KeepsSections

\* Every step.
LEMMA SectionsStep == TypesInv /\ SectionsInv /\ [Next]_vars => SectionsInv'
<1> SUFFICES ASSUME TypesInv, SectionsInv, [Next]_vars PROVE SectionsInv'
  OBVIOUS
<1>1. CASE UNCHANGED vars
  <2>1. \A list, name, s, n : HoldsTo(list, name, s, n)' = HoldsTo(list, name, s, n)
    BY <1>1 DEF HoldsTo, MineTo, vars, setup
  <2>2. UNCHANGED <<args, flash, staged, next, pc>>
    BY <1>1 DEF vars, setup, devices
  <2>3. \A n : StagedHolds(n)' = StagedHolds(n)
    BY <2>1, <2>2 DEF StagedHolds
  <2>4. FlashHolds' = FlashHolds
    BY <2>1, <2>2 DEF FlashHolds
  <2>5. StagedHolds(next)' = StagedHolds(next)
    BY <2>2, <2>3 DEF StagedHolds
  <2> QED BY <2>2, <2>4, <2>5 DEF SectionsInv
<1>2. CASE \/ InvalidTarget \/ Instantiate \/ \E name \in target.flashes : RegisterFlash(name)
           \/ \E d \in target.declares : Declare(d)
  <2>1. /\ pc \in Building /\ pc' \in Building \cup Stopped /\ staged' = staged
        /\ flash' = flash \/ \E name : flash' = Put(flash, name, NewFlash)
    BY <1>2 DEF InvalidTarget, Instantiate, RegisterFlash, Declare, Raise, devices, Building, Stopped
  <2> QED BY <2>1, BuildingSections
<1>3. CASE \/ ParseProperty \/ ParseDone \/ DeclareProperty
           \/ \E name \in target.uses : GetProperty(name)
  <2>1. /\ pc \in Building /\ pc' \in Building \cup Stopped /\ staged' = staged /\ flash' = flash
    BY <1>3 DEF ParseProperty, ParseDone, DeclareProperty, GetProperty, Raise, Goto, devices,
                Building, Stopped
  <2> QED BY <2>1, BuildingSections
<1>4. CASE ConstructDone \/ ExtractFlashProperty \/ PropagateFlashProperties
  BY <1>4, ConstructDoneSections, ExtractSections, PropagateSections
<1>5. CASE \/ BothContents \/ FlashContent \/ ReadMultiFlashContent \/ MultiFlashContent
           \/ ContentsDone \/ FlashOverride \/ OverrideDone
  BY <1>5, ContentSections
<1>6. CASE \/ check_args \/ HandleCommand \/ StartFlashCommand \/ InvalidCommand
           \/ FlashCommand \/ FlashCommandDone
  BY <1>6, CommandSections
<1> QED BY <1>1, <1>2, <1>3, <1>4, <1>5, <1>6 DEF Next

-----------------------------------------------------------------------------
(* Commands run in order                                                   *)

\* All steps of some commands, and of the command line.
StepsOf(list) == [i \in DOMAIN list |-> Steps(list[i])]
AllSteps == FlattenSeq(StepsOf(args.commands))

\* What was done and what is left are, one behind the other, what was asked
\* for; a program that stopped did the first part of it.
OrderInv ==
  /\ pc \notin Acting \cup Stopped => handled = <<>> /\ commands = args.commands
  /\ pc = "commands" => handled \o FlattenSeq(StepsOf(commands)) = AllSteps
  /\ pc = "flash_command" =>
       /\ commands # <<>> /\ Head(commands) \in FlashCommands \ HandledAtOnce
       /\ handled \o (SubSeq(Steps(Head(commands)), next, Len(flashes))
                        \o FlattenSeq(StepsOf(Tail(commands)))) = AllSteps
  /\ pc \in Stopped => \E rest \in Seq(Acts) : handled \o rest = AllSteps

\* What is asked of a flash is a step of a command.
LEMMA StepsType ==
  ASSUME TypesInv, NEW c \in STRING
  PROVE  /\ Steps(c) \in Seq(Acts)
         /\ c \in FlashCommands \ HandledAtOnce =>
              /\ Len(Steps(c)) = Len(flashes)
              /\ \A i \in 1 .. Len(flashes) : Steps(c)[i] = [command |-> c, flash |-> flashes[i]]
         /\ c \notin FlashCommands \ HandledAtOnce =>
              Steps(c) = << [command |-> c, flash |-> ""] >>
<1>1. flashes \in Seq(target.flashes) /\ DOMAIN flashes = 1 .. Len(flashes) /\ Len(flashes) \in Nat
  BY DEF TypesInv
<1>2. \A i \in 1 .. Len(flashes) : flashes[i] \in STRING
  BY <1>1, ElementOfSeq, TargetConstants DEF TypesInv
<1>3. CASE c \in FlashCommands \ HandledAtOnce
  <2>1. Steps(c) = [i \in 1 .. Len(flashes) |-> [command |-> c, flash |-> flashes[i]]]
    BY <1>1, <1>3 DEF Steps
  <2>2. \A i \in 1 .. Len(flashes) : [command |-> c, flash |-> flashes[i]] \in Acts
    BY <1>2 DEF Acts
  <2>3. Steps(c) \in [1 .. Len(flashes) -> Acts]
    BY <2>1, <2>2
  <2>4. Steps(c) \in Seq(Acts) /\ Len(Steps(c)) = Len(flashes)
    BY <1>1, <2>3, FunIsSeq
  <2> QED BY <1>3, <2>1, <2>4
<1>4. CASE c \notin FlashCommands \ HandledAtOnce
  <2>1. [command |-> c, flash |-> ""] \in Acts
    BY DEF Acts
  <2>2. Steps(c) = << [command |-> c, flash |-> ""] >>
    BY <1>4, Zenon DEF Steps
  <2>3. << [command |-> c, flash |-> ""] >> \in Seq(Acts)
    <3>1. PICK a \in Acts : a = [command |-> c, flash |-> ""]
      BY <2>1
    <3>2. << a >> \in Seq(Acts)
      OBVIOUS
    <3> QED BY <3>1, <3>2, Zenon
  <2>4. Steps(c) \in Seq(Acts)
    BY <2>2, <2>3, Zenon
  <2> QED BY <1>4, <2>2, <2>4, Zenon
<1> QED BY <1>3, <1>4

LEMMA StepsOfType ==
  ASSUME TypesInv, NEW list \in Seq(STRING)
  PROVE  /\ StepsOf(list) \in Seq(Seq(Acts)) /\ FlattenSeq(StepsOf(list)) \in Seq(Acts)
         /\ list = <<>> => FlattenSeq(StepsOf(list)) = <<>>
         /\ list # <<>> =>
              FlattenSeq(StepsOf(list)) = Steps(Head(list)) \o FlattenSeq(StepsOf(Tail(list)))
<1>1. PICK n \in Nat : n = Len(list) /\ DOMAIN list = 1 .. n
  OBVIOUS
<1>2. \A i \in 1 .. n : list[i] \in STRING /\ Steps(list[i]) \in Seq(Acts)
  BY <1>1, ElementOfSeq, StepsType
<1>3. StepsOf(list) = [i \in 1 .. n |-> Steps(list[i])]
  BY <1>1 DEF StepsOf
<1>4. /\ StepsOf(list) \in Seq(Seq(Acts)) /\ Len(StepsOf(list)) = n
      /\ \A i \in 1 .. n : StepsOf(list)[i] = Steps(list[i])
  <2>1. StepsOf(list) \in Seq(Seq(Acts))
    BY <1>2, <1>3
  <2>2. \A i \in 1 .. n : StepsOf(list)[i] = Steps(list[i])
    BY <1>3
  <2> QED BY <1>3, <2>1, <2>2
<1>5. ASSUME list = <<>> PROVE StepsOf(list) = <<>>
  <2>1. n = 0
    BY <1>1, <1>5
  <2> QED BY <1>4, <2>1, EmptySeq
<1>6. ASSUME list # <<>>
      PROVE  /\ StepsOf(list) # <<>> /\ Head(StepsOf(list)) = Steps(Head(list))
             /\ Tail(StepsOf(list)) = StepsOf(Tail(list))
  <2>1. n > 0 /\ Head(list) = list[1]
    BY <1>1, <1>6
  <2>2. StepsOf(list) # <<>> /\ Head(StepsOf(list)) = Steps(Head(list))
    BY <1>4, <2>1
  <2>3. PICK m \in Nat : m = n - 1
    BY <2>1
  <2>4. /\ Tail(list) \in Seq(STRING) /\ Len(Tail(list)) = m
        /\ \A i \in 1 .. m : Tail(list)[i] = list[i + 1]
    BY <1>1, <1>6, <2>3, HeadTailProperties
  <2>5. StepsOf(Tail(list)) = [i \in 1 .. m |-> Steps(list[i + 1])]
    <3>1. DOMAIN Tail(list) = 1 .. m
      BY <2>4
    <3> QED BY <2>4, <3>1, Zenon DEF StepsOf
  <2>6. /\ Tail(StepsOf(list)) \in Seq(Seq(Acts)) /\ Len(Tail(StepsOf(list))) = m
        /\ \A i \in 1 .. m : Tail(StepsOf(list))[i] = StepsOf(list)[i + 1]
    BY <1>4, <2>2, <2>3, HeadTailProperties
  <2>7. \A i \in 1 .. m : i + 1 \in 1 .. n
    BY <2>3
  <2>8. \A i \in 1 .. m : Tail(StepsOf(list))[i] = Steps(list[i + 1]) /\ Steps(list[i + 1]) \in Seq(Acts)
    BY <1>2, <1>4, <2>6, <2>7
  <2>9. /\ StepsOf(Tail(list)) \in Seq(Seq(Acts)) /\ Len(StepsOf(Tail(list))) = m
        /\ \A i \in 1 .. m : StepsOf(Tail(list))[i] = Steps(list[i + 1])
    BY <2>5, <2>8
  <2>10. Tail(StepsOf(list)) = StepsOf(Tail(list))
    BY <2>6, <2>8, <2>9, SeqEqual
  <2> QED BY <2>2, <2>10
<1> QED BY <1>4, <1>5, <1>6, FlattenFirst

\* Commands that were run in order are a first part of what was asked for.
LEMMA OrderIsPrefix == TypesInv /\ OrderInv => InOrder
<1> SUFFICES ASSUME TypesInv, OrderInv PROVE InOrder
  OBVIOUS
<1>0. args.commands \in Seq(STRING) /\ commands \in Seq(STRING) /\ handled \in Seq(Acts)
  BY GapyConstants DEF TypesInv, TypeOK
<1>1. AllSteps \in Seq(Acts)
  BY <1>0, StepsOfType DEF AllSteps
<1>2. \E rest \in Seq(Acts) : handled \o rest = AllSteps
  <2>1. CASE pc \notin Acting \cup Stopped
    <3>1. handled = <<>>
      BY <2>1 DEF OrderInv
    <3> QED BY <1>1, <3>1, ConcatEmptySeq
  <2>2. CASE pc = "commands"
    BY <1>0, <2>2, StepsOfType DEF OrderInv
  <2>3. CASE pc = "flash_command"
    <3>1. commands # <<>> /\ Head(commands) \in FlashCommands \ HandledAtOnce
      BY <2>3 DEF OrderInv
    <3>2. Head(commands) \in STRING /\ Tail(commands) \in Seq(STRING)
      BY <1>0, <3>1, HeadTailProperties
    <3>3. SubSeq(Steps(Head(commands)), next, Len(flashes)) \in Seq(Acts)
      <4>1. /\ Steps(Head(commands)) \in Seq(Acts)
            /\ Len(Steps(Head(commands))) = Len(flashes) /\ Len(flashes) \in Nat
            /\ next \in Nat \ {0}
        <5>1. Len(flashes) \in Nat /\ next \in Nat \ {0}
          BY DEF TypesInv, TypeOK
        <5>2. /\ Steps(Head(commands)) \in Seq(Acts)
              /\ Len(Steps(Head(commands))) = Len(flashes)
          BY <3>1, <3>2, StepsType, Zenon
        <5> QED BY <5>1, <5>2
      <4>2. \A i \in next .. Len(flashes) : Steps(Head(commands))[i] \in Acts
        BY <4>1, ElementOfSeq
      <4> QED BY <4>1, <4>2, SubSeqProperties
    <3>4. FlattenSeq(StepsOf(Tail(commands))) \in Seq(Acts)
      BY <3>2, StepsOfType
    <3>5. SubSeq(Steps(Head(commands)), next, Len(flashes))
            \o FlattenSeq(StepsOf(Tail(commands))) \in Seq(Acts)
      BY <3>3, <3>4, ConcatProperties
    <3> QED BY <2>3, <3>5 DEF OrderInv
  <2>4. CASE pc \in Stopped
    BY <2>4 DEF OrderInv
  <2> QED BY <2>1, <2>2, <2>3, <2>4 DEF Acting
<1>3. IsPrefix(handled, AllSteps)
  BY <1>0, <1>2, PrefixOf
<1>4. ASSUME pc = "commands", commands = <<>> PROVE handled = AllSteps
  <2>1. FlattenSeq(StepsOf(commands)) = <<>>
    BY <1>0, <1>4, StepsOfType
  <2>2. handled \o <<>> = AllSteps
    BY <1>4, <2>1 DEF OrderInv
  <2> QED BY <1>0, <2>2, ConcatEmptySeq
<1> QED BY <1>3, <1>4 DEF InOrder, AllSteps, StepsOf

\* Before the commands nothing is done.
LEMMA BeforeOrder ==
  ASSUME TypesInv, OrderInv, pc \notin Acting \cup Stopped, UNCHANGED <<args, target, commands, handled>>,
         \/ pc' \in Phases \ Acting
         \/ pc' \in {"commands"} \cup Stopped /\ flashes' = flashes
  PROVE  OrderInv'
<1>1. handled' = <<>> /\ commands' = args'.commands
  BY DEF OrderInv
<1>2. CASE pc' \in Phases \ Acting
  <2>1. pc' \notin Acting /\ pc' \notin Stopped /\ pc' # "commands" /\ pc' # "flash_command"
    BY <1>2 DEF Phases, Acting, Stopped
  <2> QED BY <1>1, <2>1 DEF OrderInv
<1>3. CASE pc' \in {"commands"} \cup Stopped /\ flashes' = flashes
  <2>1. args.commands \in Seq(STRING)
    BY GapyConstants DEF TypesInv
  <2>2. AllSteps \in Seq(Acts)
    BY <2>1, StepsOfType DEF AllSteps
  <2>3. StepsOf(args.commands)' = StepsOf(args.commands)
    BY <1>3 DEF StepsOf, Steps, HandledAtOnce
  <2>4. AllSteps' = AllSteps
    BY <2>3 DEF AllSteps
  <2>5. <<>> \o AllSteps = AllSteps
    BY <2>2, ConcatEmptySeq
  <2>6. pc' = "commands" => handled' \o FlattenSeq(StepsOf(commands))' = AllSteps'
    BY <1>1, <2>4, <2>5 DEF AllSteps, StepsOf, Steps, HandledAtOnce
  <2>7. pc' \in Stopped => \E rest \in Seq(Acts) : handled' \o rest = AllSteps'
    BY <1>1, <2>2, <2>4, <2>5
  <2>8. pc' # "flash_command" /\ pc' \in Acting \cup Stopped
    BY <1>3 DEF Acting, Stopped
  <2> QED BY <2>6, <2>7, <2>8 DEF OrderInv
<1> QED BY <1>2, <1>3

\* The steps of a command depend on the flashes and the target.
LEMMA SameSteps ==
  ASSUME UNCHANGED <<args, target, flashes>>
  PROVE  /\ \A c : Steps(c)' = Steps(c)
         /\ \A list : StepsOf(list)' = StepsOf(list)
         /\ AllSteps' = AllSteps /\ HandledAtOnce' = HandledAtOnce
<1>1. HandledAtOnce' = HandledAtOnce
  BY DEF HandledAtOnce
<1>2. \A c : Steps(c)' = Steps(c)
  BY <1>1 DEF Steps
<1>3. \A list : StepsOf(list)' = StepsOf(list)
  BY <1>2 DEF StepsOf
<1>4. StepsOf(args.commands)' = StepsOf(args.commands)
  BY <1>2 DEF StepsOf
<1> QED BY <1>1, <1>2, <1>3, <1>4 DEF AllSteps

\* What is left when a command fails was not done.
LEMMA StopOrder ==
  ASSUME TypesInv, OrderInv, pc \in Acting, pc' \in Stopped,
         UNCHANGED <<args, target, flashes, handled>>
  PROVE  OrderInv'
<1>1. InOrder
  BY OrderIsPrefix
<1>2. \E rest \in Seq(Acts) : handled \o rest = AllSteps
  <2>1. handled \in Seq(Acts) /\ AllSteps \in Seq(Acts)
    <3>1. args.commands \in Seq(STRING)
      BY GapyConstants DEF TypesInv
    <3> QED BY <3>1, StepsOfType DEF AllSteps, TypesInv, TypeOK
  <2>2. IsPrefix(handled, AllSteps)
    BY <1>1 DEF InOrder, AllSteps, StepsOf
  <2> QED BY <2>1, <2>2, PrefixRest
<1>3. AllSteps' = AllSteps
  BY SameSteps
<1>4. pc' \notin Acting
  BY DEF Acting, Stopped
<1> QED BY <1>2, <1>3, <1>4 DEF OrderInv, Acting

\* A command that a handler takes is one step.
LEMMA HandleOrder == ASSUME TypesInv, OrderInv, HandleCommand PROVE OrderInv'
<1>1. /\ pc = "commands" /\ pc' = pc /\ commands # <<>> /\ Head(commands) \in HandledAtOnce
      /\ handled' = Append(handled, [command |-> Head(commands), flash |-> ""])
      /\ commands' = Tail(commands)
      /\ UNCHANGED <<args, target, flashes>>
  BY DEF HandleCommand, Did, setup, devices
<1>2. /\ commands \in Seq(STRING) /\ handled \in Seq(Acts)
      /\ Head(commands) \in STRING /\ Tail(commands) \in Seq(STRING)
  BY <1>1, HeadTailProperties DEF TypesInv, TypeOK
<1> DEFINE a == [command |-> Head(commands), flash |-> ""]
           F == FlattenSeq(StepsOf(Tail(commands)))
<1>3. a \in Acts /\ Steps(Head(commands)) = << a >>
  <2>1. a \in Acts
    BY <1>2 DEF Acts
  <2>2. Head(commands) \notin FlashCommands \ HandledAtOnce
    BY <1>1
  <2> QED BY <1>2, <2>1, <2>2, StepsType, Zenon
<1>4. F \in Seq(Acts)
  BY <1>2, StepsOfType
<1>5. FlattenSeq(StepsOf(commands)) = << a >> \o F
  BY <1>1, <1>2, <1>3, StepsOfType
<1>6. handled \o (<< a >> \o F) = AllSteps
  BY <1>1, <1>5 DEF OrderInv
<1>7. Append(handled, a) \o F = handled \o (<< a >> \o F)
  <2>1. handled \in Seq(Acts) /\ a \in Acts /\ F \in Seq(Acts)
    BY <1>2, <1>3, <1>4
  <2> HIDE DEF a, F
  <2> QED BY <2>1, AppendThen
<1>8. StepsOf(commands)' = StepsOf(Tail(commands))
  <2>1. \A c : Steps(c)' = Steps(c)
    BY <1>1, SameSteps
  <2> QED BY <1>1, <2>1 DEF StepsOf
<1>9. handled' \o FlattenSeq(StepsOf(commands))' = AllSteps'
  <2>1. AllSteps' = AllSteps
    BY <1>1, SameSteps
  <2> HIDE DEF F
  <2>2. handled' \o F = AllSteps'
    BY <1>1, <1>6, <1>7, <2>1
  <2> QED BY <1>8, <2>2 DEF F
<1> QED BY <1>1, <1>9 DEF OrderInv, Acting, Stopped

\* A command on the flashes is what is asked of all of them.
LEMMA StartOrder == ASSUME TypesInv, OrderInv, StartFlashCommand PROVE OrderInv'
<1>1. /\ pc = "commands" /\ pc' = "flash_command" /\ commands # <<>> /\ next' = 1
      /\ Head(commands) \in FlashCommands \ HandledAtOnce
      /\ UNCHANGED <<args, target, flashes, commands, handled>>
  BY DEF StartFlashCommand, Goto, setup, devices, progress
<1>2. commands \in Seq(STRING) /\ Head(commands) \in STRING /\ Tail(commands) \in Seq(STRING)
  BY <1>1, HeadTailProperties DEF TypesInv
<1>3. Steps(Head(commands)) \in Seq(Acts) /\ Len(Steps(Head(commands))) = Len(flashes)
  BY <1>1, <1>2, StepsType, Zenon
<1>4. SubSeq(Steps(Head(commands)), 1, Len(flashes)) = Steps(Head(commands))
  BY <1>3, SubSeqFull
<1>5. FlattenSeq(StepsOf(commands)) = Steps(Head(commands)) \o FlattenSeq(StepsOf(Tail(commands)))
  BY <1>1, <1>2, StepsOfType
<1>6. handled \o (SubSeq(Steps(Head(commands)), 1, Len(flashes))
                    \o FlattenSeq(StepsOf(Tail(commands)))) = AllSteps
  BY <1>1, <1>4, <1>5 DEF OrderInv
<1>7. Steps(Head(commands))' = Steps(Head(commands)) /\ HandledAtOnce' = HandledAtOnce
  BY <1>1 DEF Steps, HandledAtOnce
<1>8. StepsOf(Tail(commands))' = StepsOf(Tail(commands)) /\ AllSteps' = AllSteps
  <2>1. \A c : Steps(c)' = Steps(c)
    BY <1>1, SameSteps
  <2>2. AllSteps' = AllSteps
    BY <1>1, SameSteps
  <2> QED BY <1>1, <2>1, <2>2 DEF StepsOf
<1>9. (handled \o (SubSeq(Steps(Head(commands)), next, Len(flashes))
                     \o FlattenSeq(StepsOf(Tail(commands)))))' = AllSteps'
  BY <1>1, <1>6, <1>7, <1>8, Zenon
<1> QED BY <1>1, <1>7, <1>9 DEF OrderInv, Acting, Stopped

\* The command on one flash is the first of the steps left.
LEMMA FlashOrder == ASSUME TypesInv, OrderInv, FlashCommand PROVE OrderInv'
<1>1. CASE pc' \in Stopped /\ UNCHANGED <<args, target, flashes, handled>>
  <2>1. pc \in Acting
    BY DEF FlashCommand, Acting
  <2> QED BY <1>1, <2>1, StopOrder
<1>2. CASE /\ Did(flashes[next]) /\ next' = next + 1
           /\ UNCHANGED <<args, target, flashes, commands, pc>>
  <2>1. /\ pc = "flash_command" /\ next <= Len(flashes) /\ next \in Nat \ {0}
        /\ commands # <<>> /\ Head(commands) \in FlashCommands \ HandledAtOnce
        /\ commands \in Seq(STRING) /\ handled \in Seq(Acts)
        /\ flashes \in Seq(target.flashes)
    BY DEF FlashCommand, OrderInv, TypesInv, TypeOK
  <2>2. Head(commands) \in STRING /\ Tail(commands) \in Seq(STRING)
    BY <2>1, HeadTailProperties
  <2>3. /\ Steps(Head(commands)) \in Seq(Acts) /\ Len(Steps(Head(commands))) = Len(flashes)
        /\ \A i \in 1 .. Len(flashes) :
             Steps(Head(commands))[i] = [command |-> Head(commands), flash |-> flashes[i]]
    BY <2>1, <2>2, StepsType, Zenon
  <2>4. PICK st \in Seq(Acts) : st = Steps(Head(commands))
    BY <2>3
  <2>5. PICK rest \in Seq(Acts) : rest = FlattenSeq(StepsOf(Tail(commands)))
    BY <2>2, StepsOfType
  <2>6. PICK k \in Nat \ {0}, n \in Nat : k = next /\ n = Len(flashes) /\ k <= n
    <3>1. Len(flashes) \in Nat
      BY <2>1, LenProperties
    <3>2. next \in Nat \ {0} /\ next <= Len(flashes)
      BY <2>1
    <3> QED BY <3>1, <3>2, Zenon
  <2>7. handled' = Append(handled, st[k]) /\ st[k] \in Acts
    <3>1. k \in 1 .. n
      BY <2>6
    <3>2. st[k] = [command |-> Head(commands), flash |-> flashes[next]]
      BY <2>3, <2>4, <2>6, <3>1, Zenon
    <3>3. st[k] \in Acts
      BY <2>3, <2>4, <2>6, <3>1, ElementOfSeq
    <3> QED BY <1>2, <3>2, <3>3 DEF Did
  <2>8. SubSeq(st, k, n) = << st[k] >> \o SubSeq(st, k + 1, n) /\ SubSeq(st, k + 1, n) \in Seq(Acts)
    <3>1. Len(st) = n
      BY <2>3, <2>4, <2>6
    <3>2. k \in 1 .. Len(st) /\ n \in k .. Len(st)
      BY <2>6, <3>1
    <3>3. SubSeq(st, k, n) = << st[k] >> \o SubSeq(st, k + 1, n)
      BY <3>2, SubSeqRecursiveFirst
    <3>4. \A i \in k + 1 .. n : i \in 1 .. Len(st)
      BY <2>6, <3>1
    <3>5. \A i \in k + 1 .. n : st[i] \in Acts
      BY <3>4, ElementOfSeq
    <3> QED BY <2>6, <3>3, <3>5, SubSeqProperties
  <2>9. handled \o (SubSeq(st, k, n) \o rest) = AllSteps
    BY <2>1, <2>4, <2>5, <2>6 DEF OrderInv
  <2>10. handled' \o (SubSeq(st, k + 1, n) \o rest) = AllSteps
    <3>1. PICK b \in Seq(Acts) : b = SubSeq(st, k + 1, n)
      BY <2>8
    <3>2. PICK a \in Acts : a = st[k]
      BY <2>7
    <3>3. Append(handled, a) \o (b \o rest) = handled \o ((<< a >> \o b) \o rest)
      <4>1. << a >> \in Seq(Acts)
        OBVIOUS
      <4>2. Append(handled, a) = handled \o << a >>
        BY <2>1, AppendIsConcat
      <4>3. PICK left \in Seq(Acts) : left = b \o rest
        BY ConcatProperties
      <4>4. (handled \o << a >>) \o left = handled \o (<< a >> \o left)
        BY <2>1, <4>1, ConcatAssociative, SMTT(30)
      <4>5. (<< a >> \o b) \o rest = << a >> \o (b \o rest)
        BY <4>1, ConcatAssociative, SMTT(30)
      <4> QED BY <4>2, <4>3, <4>4, <4>5, Zenon
    <3> QED BY <2>7, <2>8, <2>9, <3>1, <3>2, <3>3, Zenon
  <2>11. \A c : Steps(c)' = Steps(c)
    BY <1>2, SameSteps
  <2>12. AllSteps' = AllSteps /\ HandledAtOnce' = HandledAtOnce
    BY <1>2, SameSteps
  <2>13. Steps(Head(commands))' = st /\ FlattenSeq(StepsOf(Tail(commands)))' = rest
    <3>1. Steps(Head(commands))' = Steps(Head(commands))
      BY <1>2 DEF Steps, HandledAtOnce
    <3>2. StepsOf(Tail(commands))' = StepsOf(Tail(commands))
      BY <1>2, <2>11 DEF StepsOf
    <3> QED BY <2>4, <2>5, <3>1, <3>2
  <2>14. next' = k + 1 /\ Len(flashes)' = n
    BY <1>2, <2>6
  <2>15. (handled \o (SubSeq(Steps(Head(commands)), next, Len(flashes))
                        \o FlattenSeq(StepsOf(Tail(commands)))))' = AllSteps'
    BY <2>10, <2>12, <2>13, <2>14, Zenon
  <2> QED BY <1>2, <2>1, <2>12, <2>15 DEF OrderInv, Acting, Stopped
<1> QED
  <2>1. \A kind \in Stopped : Raise(kind) => pc' \in Stopped /\ UNCHANGED <<args, target, flashes, handled>>
    BY DEF Raise, setup, devices, progress
  <2>2. {"error", "crash", "type_error"} = Stopped
    BY DEF Stopped
  <2>3. \/ \E kind \in Stopped : Raise(kind)
        \/ /\ Did(flashes[next]) /\ next' = next + 1
           /\ UNCHANGED <<args, target, flashes, commands, pc>>
    BY <2>2 DEF FlashCommand, setup, devices
  <2> QED BY <1>1, <1>2, <2>1, <2>3

\* When all flashes had their turn, none of the command's steps is left.
LEMMA DoneOrder == ASSUME TypesInv, OrderInv, FlashCommandDone PROVE OrderInv'
<1>1. /\ pc = "flash_command" /\ pc' = "commands" /\ next > Len(flashes) /\ commands # <<>>
      /\ commands' = Tail(commands)
      /\ UNCHANGED <<args, target, flashes, handled>>
  BY DEF FlashCommandDone, OrderInv, setup, devices
<1>2. next \in Nat /\ Len(flashes) \in Nat /\ Tail(commands) \in Seq(STRING)
  BY <1>1, HeadTailProperties DEF TypesInv, TypeOK
<1>3. SubSeq(Steps(Head(commands)), next, Len(flashes)) = <<>>
  BY <1>1, <1>2, SubSeqEmpty
<1>4. FlattenSeq(StepsOf(Tail(commands))) \in Seq(Acts)
  BY <1>2, StepsOfType
<1>5. <<>> \o FlattenSeq(StepsOf(Tail(commands))) = FlattenSeq(StepsOf(Tail(commands)))
  BY <1>4, ConcatEmptySeq
<1>6. handled \o FlattenSeq(StepsOf(Tail(commands))) = AllSteps
  BY <1>1, <1>3, <1>5 DEF OrderInv
<1>7. StepsOf(commands)' = StepsOf(Tail(commands)) /\ AllSteps' = AllSteps
  <2>1. \A c : Steps(c)' = Steps(c)
    BY <1>1, SameSteps
  <2>2. AllSteps' = AllSteps
    BY <1>1, SameSteps
  <2> QED BY <1>1, <2>1, <2>2 DEF StepsOf
<1>8. handled' \o FlattenSeq(StepsOf(commands))' = AllSteps'
  BY <1>1, <1>6, <1>7
<1> QED BY <1>1, <1>8 DEF OrderInv, Acting, Stopped

LEMMA OrderInit == Init => OrderInv
BY DEF Init, OrderInv, Acting, Stopped

\* Every action keeps the invariant about the commands.
LEMMA OrderStep == TypesInv /\ OrderInv /\ [Next]_vars => OrderInv'
<1> SUFFICES ASSUME TypesInv, OrderInv, [Next]_vars PROVE OrderInv'
  OBVIOUS
<1>0. pc \in Phases \cup Stopped
  BY DEF TypesInv, TypeOK
<1>1. CASE UNCHANGED vars
  <2>1. UNCHANGED <<args, target, flashes, commands, handled, next, pc>>
    BY <1>1 DEF vars, setup, devices, progress
  <2>2. HandledAtOnce' = HandledAtOnce
    BY <2>1, SameSteps
  <2>3. Steps(Head(commands))' = Steps(Head(commands))
    BY <2>1 DEF Steps, HandledAtOnce
  <2>4. \A c : Steps(c)' = Steps(c)
    BY <2>1, SameSteps
  <2>5. AllSteps' = AllSteps
    BY <2>1, SameSteps
  <2>6. StepsOf(commands)' = StepsOf(commands) /\ StepsOf(Tail(commands))' = StepsOf(Tail(commands))
    BY <2>1, <2>4 DEF StepsOf
  <2> QED BY <2>1, <2>2, <2>3, <2>5, <2>6 DEF OrderInv
<1>2. CASE \/ InvalidTarget \/ Instantiate \/ \E name \in target.flashes : RegisterFlash(name)
           \/ \E d \in target.declares : Declare(d)
  <2>1. /\ pc \in Building /\ pc' \in Building \cup Stopped
        /\ UNCHANGED <<args, target, commands, handled>>
        /\ pc' \in Stopped => flashes' = flashes
    BY <1>2 DEF InvalidTarget, Instantiate, RegisterFlash, Declare, Raise, setup, devices, progress,
                Building, Stopped
  <2> QED BY <2>1, BeforeOrder DEF Building, Phases, Acting, Stopped
<1>3. CASE \/ ParseProperty \/ ParseDone \/ DeclareProperty
           \/ \E name \in target.uses : GetProperty(name)
  <2>1. /\ pc \in Building /\ pc' \in Building \cup Stopped
        /\ UNCHANGED <<args, target, flashes, commands, handled>>
    BY <1>3 DEF ParseProperty, ParseDone, DeclareProperty, GetProperty, Raise, Goto, setup, devices,
                progress, Building, Stopped
  <2> QED BY <2>1, BeforeOrder DEF Building, Phases, Acting, Stopped
<1> DEFINE Options == {"construct", "flash_properties", "contents", "multi_flash_content",
                       "flash_override", "check_args"}
           Later == /\ pc \in Options /\ pc' \in Options \cup {"commands"} \cup Stopped
                    /\ UNCHANGED <<args, target, flashes, commands, handled>>
<1>4. ASSUME Later PROVE OrderInv'
  BY <1>4, BeforeOrder DEF Phases, Acting, Stopped
<1>5. CASE ConstructDone \/ ExtractFlashProperty \/ PropagateFlashProperties
  <2>1. Later
    BY <1>5 DEF ConstructDone, ExtractFlashProperty, PropagateFlashProperties, Raise, Goto,
                setup, devices, progress, Stopped
  <2> QED BY <1>4, <2>1
<1>6. CASE \/ BothContents \/ FlashContent \/ ReadMultiFlashContent \/ MultiFlashContent
           \/ ContentsDone
  <2>1. Later
    BY <1>6 DEF BothContents, FlashContent, ReadMultiFlashContent, MultiFlashContent, ContentsDone,
                SetContentOf, Raise, Goto, setup, devices, progress, Stopped
  <2> QED BY <1>4, <2>1
<1>7. CASE FlashOverride \/ OverrideDone \/ check_args
  <2>1. Later
    BY <1>7 DEF FlashOverride, OverrideDone, check_args, Raise, Goto, setup, devices, progress,
                Stopped
  <2> QED BY <1>4, <2>1
<1>8. CASE InvalidCommand
  <2>1. pc \in Acting /\ pc' \in Stopped /\ UNCHANGED <<args, target, flashes, handled>>
    BY <1>8 DEF InvalidCommand, Raise, setup, devices, progress, Acting, Stopped
  <2> QED BY <2>1, StopOrder
<1>9. CASE HandleCommand \/ StartFlashCommand \/ FlashCommand \/ FlashCommandDone
  BY <1>9, HandleOrder, StartOrder, FlashOrder, DoneOrder
<1> QED BY <1>1, <1>2, <1>3, <1>5, <1>6, <1>7, <1>8, <1>9 DEF Next

-----------------------------------------------------------------------------
(* The theorems about all of a call                                        *)

\* Every action keeps the types.
LEMMA TypesStep == PropertyInv /\ OrderInv /\ TypesInv /\ [Next]_vars => TypesInv'
<1> SUFFICES ASSUME PropertyInv, OrderInv, TypesInv, [Next]_vars PROVE TypesInv'
  OBVIOUS
<1>1. CASE UNCHANGED vars
  <2>1. UNCHANGED <<args, target, target_properties_parsed, args_properties, target_properties,
                    pending, declared, used, flashes, flash, staged, commands, handled, next, pc>>
    BY <1>1 DEF vars, setup, properties, devices, progress
  <2> QED BY <2>1 DEF TypesInv, TypeOK
<1>2. CASE \/ InvalidTarget \/ Instantiate \/ ParseDone \/ ConstructDone
           \/ PropagateFlashProperties
           \/ BothContents \/ FlashContent \/ ReadMultiFlashContent \/ MultiFlashContent
           \/ ContentsDone \/ FlashOverride \/ OverrideDone \/ check_args
           \/ StartFlashCommand \/ InvalidCommand
  BY <1>2, MovingSteps
<1>3. CASE \/ \E name \in target.flashes : RegisterFlash(name)
           \/ \E d \in target.declares : Declare(d)
  BY <1>3, RegisterTypes, DeclareTypes
<1>4. CASE ParseProperty \/ DeclareProperty \/ \E name \in target.uses : GetProperty(name)
  BY <1>4, ParseTypes, DeclarePropertyTypes, GetPropertyTypes
<1>5. CASE ExtractFlashProperty
  BY <1>5, ExtractTypes
<1>6. CASE HandleCommand \/ FlashCommand \/ FlashCommandDone
  <2>1. pc = "flash_command" => commands # <<>>
    BY DEF OrderInv
  <2> QED BY <1>6, <2>1, CommandTypes
<1> QED BY <1>1, <1>2, <1>3, <1>4, <1>5, <1>6 DEF Next

\* All of it holds in every reachable state.
THEOREM CallInvariant == Spec => [](PropertyInv /\ TypesInv /\ SectionsInv /\ OrderInv)
BY PropertyInit, PropertyStep, TypesInit, TypesStep, SectionsInit, SectionsStep,
   OrderInit, OrderStep, PTL DEF Spec

\* Every attribute of the target, of its properties and of its flashes has the
\* type it is used with, whatever the command line and the target class
\* (Target, its TargetProperty descriptors and its flashes).
THEOREM GapyTypes == Spec => []TypeOK
<1>1. TypesInv => TypeOK
  BY DEF TypesInv
<1> QED BY <1>1, CallInvariant, PTL

\* Each flash has, for each of its sections, exactly the values the command
\* line gives it, in command-line order (Target.__extract_flash_properties and
\* the loop over the flashes of parse_args).
THEOREM FlashPropertiesKeepOrder == Spec => []FlashPropertiesInOrder
<1>1. TypesInv /\ SectionsInv => FlashPropertiesInOrder
  <2> SUFFICES ASSUME TypesInv, SectionsInv, pc \in WithProperties,
                      NEW name \in DOMAIN flash
               PROVE  /\ \A i \in DOMAIN args.flash_properties :
                           Alias(args.flash_properties[i].flash) = name
                             => args.flash_properties[i].section \in DOMAIN flash[name].properties
                      /\ \A s \in DOMAIN flash[name].properties :
                           /\ Len(flash[name].properties[s]) = Cardinality(Mine(name, s))
                           /\ \A i \in Mine(name, s) :
                                flash[name].properties[s]
                                    [Cardinality({j \in Mine(name, s) : j <= i})] =
                                  [key |-> args.flash_properties[i].key,
                                   value |-> args.flash_properties[i].value]
    BY Zenon DEF FlashPropertiesInOrder, WithProperties, WithContents, Overridden, Acting
  <2>1. FlashHolds
    BY DEF SectionsInv
  <2>2. DOMAIN args.flash_properties = 1 .. Len(args.flash_properties)
        /\ Len(args.flash_properties) \in Nat
    BY PropertyPlaces DEF TypesInv
  <2>3. ASSUME NEW s \in DOMAIN flash[name].properties
        PROVE  /\ Len(flash[name].properties[s]) = Cardinality(Mine(name, s))
               /\ \A i \in Mine(name, s) :
                    flash[name].properties[s][Cardinality({j \in Mine(name, s) : j <= i})] =
                      [key |-> args.flash_properties[i].key,
                       value |-> args.flash_properties[i].value]
    <3>1. HoldsTo(flash[name].properties[s], name, s, Len(args.flash_properties) + 1)
      BY <2>1, <2>3 DEF FlashHolds
    <3>2. \A i \in Mine(name, s) : {j \in Mine(name, s) : j <= i} = MineTo(i + 1, name, s)
      BY <2>2 DEF Mine, MineTo
    <3> QED BY <3>1, <3>2, Zenon DEF HoldsTo, Mine
  <2> QED BY <2>1, <2>2, <2>3 DEF FlashHolds
<1> QED BY <1>1, CallInvariant, PTL

\* Commands run in command-line order, each on every flash in the order of
\* registration, and nothing runs after one that failed (Target.handle_command
\* and the loop of gapy's main program).
THEOREM CommandsInOrder == Spec => []InOrder
BY OrderIsPrefix, CallInvariant, PTL
=============================================================================

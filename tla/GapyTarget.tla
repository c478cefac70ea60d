----------------------------- MODULE GapyTarget -----------------------------
(***************************************************************************)
(* One call of gapy: the target class is instantiated, declares its        *)
(* properties and registers its flashes, the rest of the command line is   *)
(* handed to the flashes, checked, and the commands run one after the      *)
(* other, each on every flash.                                             *)
(*                                                                         *)
(* A value is the string of the command line, or what int(_, 0) and the    *)
(* boolean cast make of it.  Malformed stands for an argument that does    *)
(* not have the form its option asks for.  pc says where the program is;   *)
(* "error" is a RuntimeError (gapy prints it and exits), "crash" any other *)
(* Python exception, with "type_error" for one of them.  What a flash does *)
(* of a command is FlashLayout.                                            *)
(***************************************************************************)
EXTENDS Integers, Sequences, FiniteSets, SequencesExt

CONSTANTS
  CommandLines,  \* what gapy may be called with; the comma-separated lists of
                 \* --target-property are given as one list of properties
  Targets,       \* what a target class may declare and register
  IntOf,         \* the strings int(_, 0) accepts, and their values
  None,          \* no descriptor
  Malformed,
  AnyString,     \* allowed_values of a property that takes any string
  DefaultContent \* section templates of the default content of a flash

IsList(list) == Len(list) \in Nat /\ DOMAIN list = 1 .. Len(list)
IsPropertyList(list) ==
  /\ IsList(list)
  /\ \A i \in DOMAIN list :
       list[i] = Malformed \/ (list[i].name \in STRING /\ list[i].value \in STRING)

IsFlashPropertyList(list) ==
  /\ IsList(list)
  /\ \A i \in DOMAIN list :
       list[i] = Malformed \/ (list[i].key \in STRING /\ list[i].value \in STRING)

ASSUME GapyConstants ==
  \A c \in CommandLines :
    /\ IsPropertyList(c.inlined) /\ IsPropertyList(c.properties)
    /\ IsFlashPropertyList(c.flash_properties) /\ IsList(c.flash_contents)
    /\ IsList(c.multi_flash_content) /\ IsList(c.flash_override)
    /\ c.commands \in Seq(STRING)

\* What a property may be: a string, or what the boolean cast gives.
PropertyValues == STRING \cup {"True", "False"}

ASSUME TargetConstants ==
  /\ \A arg \in DOMAIN IntOf : IntOf[arg] \in PropertyValues
  /\ \A t \in Targets : /\ \A name \in t.flashes : name \in STRING
                       /\ \A d \in t.declares : d.value \in PropertyValues

VARIABLES
  args,                      \* the command line
  target,                    \* the target class
  default_properties,        \* default list of --target-property in the parser
  target_properties_parsed,
  args_properties,           \* properties of the command line, by name
  target_properties,         \* values of the declared properties, by name
  pending,                   \* descriptor being declared
  declared,                  \* descriptors declared so far
  used,                      \* property values the target was built with
  flashes,                   \* registered flashes, in order
  flash,                     \* their section properties, content and attributes
  staged,                    \* flash properties found so far, by flash
  commands,                  \* commands left
  handled,                   \* what has been done: a command on a flash
  next,                      \* element the current loop is at
  pc

setup == <<args, target, default_properties>>
properties == <<target_properties_parsed, args_properties, target_properties, pending, declared>>
devices == <<flashes, flash, staged>>
progress == <<commands, handled>>
vars == <<setup, properties, used, devices, progress, next, pc>>

-----------------------------------------------------------------------------
(* Dictionaries and values                                                 *)

\* Mutant: an entry is replaced but never added.
PutReplace(f, key, value) == [k \in DOMAIN f |-> IF k = key THEN value ELSE f[k]]

Put(f, key, value) == [k \in DOMAIN f \cup {key} |-> IF k = key THEN value ELSE f[k]]

TrueStrings == {"true", "1", "yes", "y"}

Allowed(d, arg) == d.allowed = AnyString \/ arg \in d.allowed

\* int raises a ValueError on what it does not accept.
Castable(d, arg) == d.cast = "int" => arg \in DOMAIN IntOf

Cast(d, arg) == CASE d.cast = "int" -> IntOf[arg]
                  [] d.cast = "bool" -> IF arg \in TrueStrings THEN "True" ELSE "False"
                  [] OTHER -> arg

\* What a second parse of the command line gives: argparse copies the default
\* list before it appends to it, so options hide what was put in the default.
ReparsedProperties ==
  IF args.properties = <<>> THEN default_properties ELSE args.properties

Unknown(name) == name \notin ToSet(flashes)

\* "Temporary hack for gap_sdk"
Alias(name) == IF name = "target/chip/soc/mram" THEN "mram" ELSE name

\* A flash: its section properties, the templates of its content's sections
\* and the attributes set from the command line.
NewFlash == [properties |-> <<>>, content |-> DefaultContent, overridden |-> {}]

\* Laying out the content adds the value of an overridden attribute to an
\* offset, but the value is a string: at the first section, or at a littlefs.
AlignsByString(f) ==
  f.content # {} /\ f.overridden \cap {"section_start_align", "section_size_align"} # {}
AddsString(f) ==
  AlignsByString(f) \/ ("lfs" \in f.content /\ "littlefs_align" \in f.overridden)

-----------------------------------------------------------------------------
Init ==
  /\ args \in CommandLines /\ target \in Targets
  /\ default_properties = <<>> /\ target_properties_parsed = FALSE
  /\ args_properties = <<>> /\ target_properties = <<>>
  /\ pending = None /\ declared = {} /\ used = <<>>
  /\ flashes = <<>> /\ flash = <<>> /\ staged = <<>>
  /\ commands = args.commands /\ handled = <<>>
  /\ next = 1 /\ pc = "start"

Raise(kind) ==
  pc' = kind /\ UNCHANGED <<setup, properties, used, devices, progress, next>>

Goto(place) ==
  next' = 1 /\ pc' = place /\ UNCHANGED <<setup, properties, used, devices, progress>>

\* The module of the target does not exist, or has no Target class.
InvalidTarget == pc = "start" /\ Raise("error")

\* gapy's main program: properties inlined in the name of the target are
\* appended to the list argparse returned, which is the default list itself
\* when the command line has no --target-property.
Instantiate ==
  /\ pc = "start"
  /\ default_properties' = IF args.properties = <<>> THEN args.inlined ELSE <<>>
  /\ pc' = "construct"
  /\ UNCHANGED <<args, target, properties, used, devices, progress, next>>

-----------------------------------------------------------------------------
(* The target's constructor: declare, register and read in any order       *)

RegisterFlash(name) ==
  /\ pc = "construct" /\ name \in target.flashes \ ToSet(flashes)
  /\ flashes' = Append(flashes, name)
  /\ flash' = Put(flash, name, NewFlash)
  /\ UNCHANGED <<setup, properties, used, staged, progress, next, pc>>

\* declare_target_property, which first makes sure that the properties of
\* the command line are parsed.
Declare(d) ==
  /\ pc = "construct" /\ d \in target.declares \ declared
  /\ pending' = d
  /\ target_properties_parsed' = TRUE
  /\ pc' = IF target_properties_parsed THEN "declare" ELSE "parse"
  /\ next' = 1
  /\ UNCHANGED <<setup, args_properties, target_properties, declared, used, devices, progress>>

\* Mutant: the first value of a property is kept.
ParsePropertyKeepsFirst ==
  /\ pc = "parse" /\ next <= Len(ReparsedProperties)
  /\ LET given == ReparsedProperties[next]
     IN IF given = Malformed
        THEN Raise("error")
        ELSE /\ args_properties' = IF given.name \in DOMAIN args_properties
                                   THEN args_properties
                                   ELSE Put(args_properties, given.name, given.value)
             /\ next' = next + 1
             /\ UNCHANGED <<setup, target_properties_parsed, target_properties, pending,
                            declared, used, devices, progress, pc>>

ParseProperty ==
  /\ pc = "parse" /\ next <= Len(ReparsedProperties)
  /\ LET given == ReparsedProperties[next]
     IN IF given = Malformed
        THEN Raise("error")
        ELSE /\ args_properties' = Put(args_properties, given.name, given.value)
             /\ next' = next + 1
             /\ UNCHANGED <<setup, target_properties_parsed, target_properties, pending,
                            declared, used, devices, progress, pc>>

ParseDone == pc = "parse" /\ next > Len(ReparsedProperties) /\ Goto("declare")

\* Mutant: a property may be declared a second time.
AlreadyDeclaredNever == FALSE

AlreadyDeclared == pending.name \in DOMAIN target_properties

DeclareProperty ==
  /\ pc = "declare"
  /\ LET name == pending.name
         given == name \in DOMAIN args_properties
         arg == args_properties[name]
     IN IF AlreadyDeclared \/ (given /\ ~Allowed(pending, arg))
        THEN Raise("error")
        ELSE IF given /\ ~Castable(pending, arg)
        THEN Raise("crash")
        ELSE /\ target_properties' =
                  Put(target_properties, name, IF given THEN Cast(pending, arg) ELSE pending.value)
             /\ declared' = declared \cup {pending}
             /\ pc' = "construct"
             /\ UNCHANGED <<setup, target_properties_parsed, args_properties, pending, used,
                            devices, progress, next>>

\* get_target_property: a component of the target takes a property's value.
GetProperty(name) ==
  /\ pc = "construct" /\ name \in target.uses \ DOMAIN used
  /\ IF name \in DOMAIN target_properties
     THEN /\ used' = Put(used, name, target_properties[name])
          /\ UNCHANGED <<setup, properties, devices, progress, next, pc>>
     ELSE Raise("error")

ConstructDone ==
  /\ pc = "construct"
  /\ target.declares = declared /\ target.flashes = ToSet(flashes)
  /\ target.uses = DOMAIN used
  /\ Goto("flash_properties")

-----------------------------------------------------------------------------
(* parse_args: the flash options                                           *)

\* What staged holds for a section of a flash, and the value added to it.
Staged(name, section) ==
  IF name \in DOMAIN staged /\ section \in DOMAIN staged[name]
  THEN staged[name][section] ELSE <<>>

StagedWith(p) ==
  LET name == Alias(p.flash)
      sections == IF name \in DOMAIN staged THEN staged[name] ELSE <<>>
      entry == [key |-> p.key, value |-> p.value]
  IN Put(staged, name, Put(sections, p.section, Append(Staged(name, p.section), entry)))

\* Mutant: the list of a section is started anew with every property.
ExtractFlashPropertyAlone ==
  /\ pc = "flash_properties" /\ next <= Len(args.flash_properties)
  /\ LET p == args.flash_properties[next]
     IN IF p = Malformed
        THEN Raise("error")
        ELSE /\ staged' = Put(staged, Alias(p.flash),
                              Put(<<>>, p.section, <<[key |-> p.key, value |-> p.value]>>))
             /\ next' = next + 1
             /\ UNCHANGED <<setup, properties, used, flashes, flash, progress, pc>>

ExtractFlashProperty ==
  /\ pc = "flash_properties" /\ next <= Len(args.flash_properties)
  /\ LET p == args.flash_properties[next]
     IN IF p = Malformed
        THEN Raise("error")
        ELSE /\ staged' = StagedWith(p)
             /\ next' = next + 1
             /\ UNCHANGED <<setup, properties, used, flashes, flash, progress, pc>>

\* Set the properties of every flash that has some.
PropagateFlashProperties ==
  /\ pc = "flash_properties" /\ next > Len(args.flash_properties)
  /\ IF \E name \in DOMAIN staged : Unknown(name)
     THEN Raise("error")
     ELSE /\ flash' = [name \in DOMAIN flash |->
                         IF name \in DOMAIN staged
                         THEN [flash[name] EXCEPT !.properties = staged[name]]
                         ELSE flash[name]]
          /\ next' = 1 /\ pc' = "contents"
          /\ UNCHANGED <<setup, properties, used, flashes, staged, progress>>

SetContentOf(p) ==
  /\ flash' = [flash EXCEPT ![p.flash].content = p.content]
  /\ next' = next + 1
  /\ UNCHANGED <<setup, properties, used, flashes, staged, progress, pc>>

BothContents ==
  /\ pc = "contents" /\ args.flash_contents # <<>> /\ args.multi_flash_content # <<>>
  /\ Raise("error")

\* A file that is not there is an error, one that is not JSON a crash.
FlashContent ==
  /\ pc = "contents" /\ args.multi_flash_content = <<>>
  /\ next <= Len(args.flash_contents)
  /\ LET p == args.flash_contents[next]
     IN IF p = Malformed \/ Unknown(p.flash)
        THEN Raise("error")
        ELSE Raise("error") \/ Raise("crash") \/ SetContentOf(p)

\* All files of the multi-flash contents are read, then the last one is used.
ReadMultiFlashContent ==
  /\ pc = "contents" /\ args.flash_contents = <<>> /\ args.multi_flash_content # <<>>
  /\ \/ Raise("error") \/ Raise("crash")
     \/ Goto("multi_flash_content")

MultiFlashContent ==
  /\ pc = "multi_flash_content" /\ next <= Len(Last(args.multi_flash_content))
  /\ LET p == Last(args.multi_flash_content)[next]
     IN IF p = Malformed
        THEN Raise("crash")                   \* 'Invalid flash name' + None
        ELSE IF Unknown(p.flash) THEN Raise("error") ELSE SetContentOf(p)

ContentsDone ==
  \/ /\ pc = "contents" /\ args.multi_flash_content = <<>>
     /\ next > Len(args.flash_contents)
     /\ Goto("flash_override")
  \/ /\ pc = "multi_flash_content" /\ next > Len(Last(args.multi_flash_content))
     /\ Goto("flash_override")

\* set_flash_attribute: the value stays a string.
FlashOverride ==
  /\ pc = "flash_override" /\ next <= Len(args.flash_override)
  /\ LET p == args.flash_override[next]
     IN IF p = Malformed
        THEN Raise("crash")
        ELSE IF Unknown(p.flash)
        THEN Raise("error")
        ELSE /\ flash' = [flash EXCEPT ![p.flash].overridden = @ \cup {p.attribute}]
             /\ next' = next + 1
             /\ UNCHANGED <<setup, properties, used, flashes, staged, progress, pc>>

OverrideDone ==
  pc = "flash_override" /\ next > Len(args.flash_override) /\ Goto("check_args")

\* Mutant: nothing is checked.
UndefinedNone == {}

\* Names of the command line that no property was declared for.
Undefined == DOMAIN args_properties \ DOMAIN target_properties

check_args ==
  /\ pc = "check_args"
  /\ IF Undefined # {} THEN Raise("error") ELSE Goto("commands")

-----------------------------------------------------------------------------
(* handle_command                                                          *)

FlashCommands ==
  {"flash_layout", "flash_dump_sections", "flash_dump_app_sections", "flash_properties", "image"}
OtherCommands == {"commands", "targets", "target_properties", "flash"}

Did(name) == handled' = Append(handled, [command |-> Head(commands), flash |-> name])

\* A handler registered by the target comes first and ends the command.
HandledAtOnce == target.handles \cup OtherCommands

HandleCommand ==
  /\ pc = "commands" /\ commands # <<>> /\ Head(commands) \in HandledAtOnce
  /\ Did("")
  /\ commands' = Tail(commands)
  /\ UNCHANGED <<setup, properties, used, devices, next, pc>>

StartFlashCommand ==
  /\ pc = "commands" /\ commands # <<>>
  /\ Head(commands) \in FlashCommands \ HandledAtOnce
  /\ Goto("flash_command")

InvalidCommand ==
  /\ pc = "commands" /\ commands # <<>>
  /\ Head(commands) \notin FlashCommands \cup HandledAtOnce
  /\ Raise("error")

\* Mutant: a flash that fails is skipped and the command goes on.
FlashCommandSkips ==
  /\ pc = "flash_command" /\ next <= Len(flashes)
  /\ Did(flashes[next]) \/ UNCHANGED handled
  /\ next' = next + 1
  /\ UNCHANGED <<setup, properties, used, devices, commands, pc>>

\* The command on the next flash: done, or the flash refuses its content or
\* cannot read or write a file.  The first one lays out the content, and
\* flash_layout stops at a section that overflows, maybe before a littlefs.
FlashCommand ==
  /\ pc = "flash_command" /\ next <= Len(flashes)
  /\ LET f == flash[flashes[next]]
         parsed == \E n \in DOMAIN handled : handled[n].flash = flashes[next]
         strings == ~ parsed /\ AddsString(f)
         stops == Head(commands) = "flash_layout" /\ ~ AlignsByString(f)
     IN \/ Raise("error")
        \/ strings /\ Raise("type_error")
        \/ /\ strings => stops
           /\ \/ Raise("crash")
              \/ /\ Did(flashes[next])
                 /\ next' = next + 1
                 /\ UNCHANGED <<setup, properties, used, devices, commands, pc>>

FlashCommandDone ==
  /\ pc = "flash_command" /\ next > Len(flashes)
  /\ commands' = Tail(commands)
  /\ next' = 1 /\ pc' = "commands"
  /\ UNCHANGED <<setup, properties, used, devices, handled>>

Next ==
  \/ InvalidTarget \/ Instantiate
  \/ \E name \in target.flashes : RegisterFlash(name)
  \/ \E d \in target.declares : Declare(d)
  \/ ParseProperty \/ ParseDone \/ DeclareProperty
  \/ \E name \in target.uses : GetProperty(name)
  \/ ConstructDone
  \/ ExtractFlashProperty \/ PropagateFlashProperties
  \/ BothContents \/ FlashContent \/ ReadMultiFlashContent \/ MultiFlashContent \/ ContentsDone
  \/ FlashOverride \/ OverrideDone \/ check_args
  \/ HandleCommand \/ StartFlashCommand \/ InvalidCommand \/ FlashCommand \/ FlashCommandDone

Spec == Init /\ [][Next]_vars

-----------------------------------------------------------------------------
(* Properties                                                              *)

Phases == {"start", "construct", "parse", "declare", "flash_properties", "contents",
           "multi_flash_content", "flash_override", "check_args", "commands", "flash_command"}
Stopped == {"error", "crash", "type_error"}
Keyed == [key : STRING, value : STRING]
\* What is done: a command on a flash, or on none ("").
Acts == [command : STRING, flash : STRING \cup {""}]

\* Every variable has the type the Python attributes are used with.
TypeOK ==
  /\ target_properties_parsed \in BOOLEAN
  /\ \A n \in DOMAIN args_properties : args_properties[n] \in STRING
  /\ \A f \in {target_properties, used} : \A n \in DOMAIN f : f[n] \in PropertyValues
  /\ declared \subseteq target.declares
  /\ ToSet(flashes) = DOMAIN flash /\ DOMAIN flash \subseteq target.flashes
  /\ \A name \in DOMAIN staged : \A s \in DOMAIN staged[name] : staged[name][s] \in Seq(Keyed)
  /\ handled \in Seq(Acts)
  /\ next \in Nat \ {0} /\ pc \in Phases \cup Stopped

\* Everything the command line says of target properties, in order.
Given == IF args.properties = <<>> THEN args.inlined ELSE args.properties
IsGiven(name, list) == \E i \in DOMAIN list : list[i].name = name
LastValue(name, list) ==
  LET at == CHOOSE i \in DOMAIN list : /\ list[i].name = name
                                       /\ \A j \in i + 1 .. Len(list) : list[j].name # name
  IN list[at].value

Constructed == pc \in Phases \ {"start", "construct", "parse", "declare"}

\* In whatever order a target declares its properties, each ends with the
\* last value the command line gives it, cast, or with its default; and a
\* value that is not allowed stops gapy before the target is complete.
CommandLineWins ==
  Constructed => \A d \in declared :
    IF IsGiven(d.name, Given)
    THEN /\ Allowed(d, LastValue(d.name, Given))
         /\ target_properties[d.name] = Cast(d, LastValue(d.name, Given))
    ELSE target_properties[d.name] = d.value

\* The value a component was built with is the one target_properties prints
\* at the end: no later declaration changes a property that was read.
UsedIsFinal ==
  \A name \in DOMAIN used :
    name \in DOMAIN target_properties /\ used[name] = target_properties[name]

\* The properties of the command line for a section of a flash, of those
\* before place n.
MineTo(n, name, s) ==
  {i \in 1 .. n - 1 : /\ Alias(args.flash_properties[i].flash) = name
                      /\ args.flash_properties[i].section = s}
Mine(name, s) == MineTo(Len(args.flash_properties) + 1, name, s)

\* Each flash gets, for each of its sections, exactly the values of the
\* command line for it, in command-line order (a list property appends them
\* one by one), under the new or the old name of the flash.
FlashPropertiesInOrder ==
  pc \in {"contents", "multi_flash_content", "flash_override", "check_args", "commands",
          "flash_command"} =>
    \A name \in DOMAIN flash :
      /\ \A i \in DOMAIN args.flash_properties :
           Alias(args.flash_properties[i].flash) = name
             => args.flash_properties[i].section \in DOMAIN flash[name].properties
      /\ \A s \in DOMAIN flash[name].properties :
           LET held == flash[name].properties[s]
           IN /\ Len(held) = Cardinality(Mine(name, s))
              /\ \A i \in Mine(name, s) :
                   held[Cardinality({j \in Mine(name, s) : j <= i})] =
                     [key |-> args.flash_properties[i].key,
                      value |-> args.flash_properties[i].value]

\* Everything the flash options name exists, and so do the properties when
\* the target looked at them.
AllKnown ==
  /\ \A i \in DOMAIN args.flash_properties :
       LET p == args.flash_properties[i] IN p # Malformed /\ ~Unknown(Alias(p.flash))
  /\ \A i \in DOMAIN args.flash_contents :
       LET p == args.flash_contents[i] IN p # Malformed /\ ~Unknown(p.flash)
  /\ \A i \in DOMAIN args.flash_override :
       LET p == args.flash_override[i] IN p # Malformed /\ ~Unknown(p.flash)
  /\ target_properties_parsed =>
       \A i \in DOMAIN Given : Given[i] # Malformed /\ Given[i].name \in DOMAIN target_properties

\* Nothing is done unless all of the command line was accepted: a flash image
\* is never written by a call that is refused for one of its arguments.
AcceptedBeforeDone == handled # <<>> => AllKnown

\* Commands run in command-line order, each on every flash in the order of
\* registration, and nothing runs after one that failed: what was done is
\* always a prefix of what was asked for.
Steps(command) ==
  IF command \in FlashCommands \ HandledAtOnce
  THEN [i \in DOMAIN flashes |-> [command |-> command, flash |-> flashes[i]]]
  ELSE <<[command |-> command, flash |-> ""]>>
InOrder ==
  /\ IsPrefix(handled, FlattenSeq([i \in DOMAIN args.commands |-> Steps(args.commands[i])]))
  /\ pc = "commands" /\ commands = <<>> =>
       handled = FlattenSeq([i \in DOMAIN args.commands |-> Steps(args.commands[i])])

-----------------------------------------------------------------------------
(* What the source says and the program does not do                        *)

\* "Check if the target name has target properties inlined and if so, inject
\* them into the list of target properties" (gapy): they have an effect
\* unless --target-property gives the same name.
InlinedTakesEffect ==
  Constructed => \A d \in declared :
    IsGiven(d.name, args.inlined) /\ ~IsGiven(d.name, args.properties)
      => target_properties[d.name] = Cast(d, LastValue(d.name, args.inlined))
=============================================================================

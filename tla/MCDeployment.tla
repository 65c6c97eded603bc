---------------------------- MODULE MCDeployment ----------------------------
(***************************************************************************)
(* Model checking Deployment: a chain of four slots over three modules,    *)
(* and DLLs that are all one made for it but for one thing.                *)
(***************************************************************************)
EXTENDS Deployment, SequencesExt

MCChain ==
  << [name |-> "mipmaps", block |-> 1, performance |-> FALSE],
     [name |-> "gamma.0", block |-> 3, performance |-> TRUE],
     [name |-> "delta.0", block |-> 3, performance |-> TRUE],
     [name |-> "generate", block |-> 2, performance |-> FALSE] >>

MCLimits == [textures |-> 4, storages |-> 2, uniforms |-> 2, storageBuffers |-> 1]

-----------------------------------------------------------------------------
\* The graph of both modes; performance mode estimates from one image more.
Image(role, bytes) == [role |-> role, bytes |-> bytes]
Variant(textures, storages, samplers, uniform) ==
  [textures |-> textures, storages |-> storages, samplers |-> samplers, uniform |-> uniform]
Run(slot, first, count) == [slot |-> slot, first |-> first, count |-> count]

GraphOf(estimated) ==
  [images |-> <<Image("history", 3), Image("history", 3), Image("generated", 3),
                Image("internal", 2), Image("internal", 1)>>,
   generated |-> 1,
   uniforms |-> 1,
   variants |-> <<Variant(<<1>>, <<4, 5>>, <<0>>, None), Variant(<<2>>, <<4, 5>>, <<0>>, None),
                  Variant(estimated, <<5>>, <<>>, None),
                  Variant(<<4, 5, 2>>, <<3>>, <<1, 2>>, 0),
                  Variant(<<4, 5, 1>>, <<3>>, <<1, 2>>, 0)>>,
   dispatches |-> <<Run(1, 1, 2), Run(2, 3, 1), Run(3, 3, 1), Run(4, 4, 2)>>]

MCCandidates ==
  << [performance |-> FALSE, graph |-> GraphOf(<<4>>)],
     [performance |-> TRUE, graph |-> GraphOf(<<4, 2>>)] >>

-----------------------------------------------------------------------------
\* Shader modules.
Undecorated == -1   \* as in Reflection
Variable(type, class, binding) ==
  [type |-> type, class |-> class, lengths |-> <<>>, set |-> 0, binding |-> binding]
Texture(binding) == Variable("separate_image", "uniform_constant", binding)
Sampler(binding) == Variable("sampler", "uniform_constant", binding)
Storage(binding) == Variable("storage_image", "uniform_constant", binding)
Block(binding) == Variable("block", "uniform", binding)
Use(image, sampler) == [image |-> image, sampler |-> sampler]

Module(variables, uses) ==
  [magic |-> TRUE, scan |-> "ok", compute |-> TRUE, float16 |-> FALSE, push |-> FALSE,
   specialised |-> FALSE, variables |-> variables, uses |-> uses]

Mipmaps == Module(<<Texture(32), Sampler(16), Storage(48), Storage(49)>>, <<Use(1, 2)>>)
Estimate == Module(<<Texture(32), Storage(48)>>, <<Use(1, 0)>>)
EstimateFaster == Module(<<Texture(32), Storage(48), Texture(33)>>, <<Use(3, 0), Use(1, 0)>>)

\* generate, with its images and samplers declared and used in some order.
GenerateOf(bindings, samplers, uses) ==
  Module(<<Block(0), Texture(bindings[1]), Texture(bindings[2]), Texture(bindings[3]),
           Sampler(samplers[1]), Sampler(samplers[2]), Storage(48)>>, uses)
InOrder == <<Use(2, 5), Use(3, 6), Use(4, 0)>>
Generate == GenerateOf(<<32, 33, 34>>, <<16, 17>>, InOrder)

\* Three images used in any order or with any samplers, and an image used twice.
Orders == {f \in [1 .. 3 -> 2 .. 4] : \A j, k \in 1 .. 3 : f[j] = f[k] => j = k}
UsesOf(order, samplers) == [k \in 1 .. 3 |-> Use(order[k], samplers[k])]
ThreeUses ==
  {UsesOf(order, samplers) : order \in Orders, samplers \in {<<5, 6, 0>>, <<0, 6, 5>>}}
    \cup {UsesOf(<<2, 3, 4>>, samplers) : samplers \in [1 .. 3 -> {0, 5, 6}]}
MoreUses == {<<Use(2, 6)>> \o UsesOf(order, <<5, 5, 0>>) : order \in Orders}
Generates ==
  {GenerateOf(<<32, 33, 34>>, <<16, 17>>, uses) : uses \in ThreeUses \cup MoreUses}
    \cup {GenerateOf(bindings, samplers, uses) :
            bindings \in {<<34, 32, 33>>, <<33, 34, 32>>, <<32, 33, 35>>, <<33, 34, 35>>, <<32, 33, 33>>,
                        <<32, 33, 48>>, <<31, 32, 33>>},
            samplers \in {<<16, 17>>, <<17, 16>>, <<16, 18>>, <<17, 18>>},
            uses \in {InOrder, <<Use(4, 6), Use(2, 5), Use(3, 5)>>, <<Use(2, 5), Use(3, 5)>>,
                      <<Use(2, 5), Use(3, 5), Use(2, 6)>>}}
    \cup {GenerateOf(<<32, 33, 34>>, <<16, 17>>, InOrder \o <<Use(2, 6), Use(3, 5)>>)}

\* One declaration of it changed, or one added.  A use pairs a separate image.
With(k, variable) == [Generate EXCEPT !.variables[k] = variable]
And(variable) == [Generate EXCEPT !.variables = Append(@, variable)]
Arrayed(variable, lengths) == [variable EXCEPT !.lengths = lengths]
Deep == <<1, 1, 1, 1, 1, 1, 1, 1>>
Changed ==
  {With(k, Arrayed(Generate.variables[k], lengths)) :
     k \in {1, 2, 5, 7}, lengths \in {<<2>>, <<0>>, <<4, 4>>, <<2, 8>>, Deep}}
    \cup {[With(k, Arrayed(Generate.variables[k], <<4, 4>>)) EXCEPT !.variables = Append(@, v)] :
            k \in {2, 7}, v \in {Texture(32), Storage(48)}}
    \cup {And(v) : v \in {Texture(35), Sampler(18), Storage(49), Block(1), Block(0),
                          Variable("sampled_image", "uniform_constant", 35),
                          Variable("buffer_block", "uniform", 60),
                          Variable("block", "storage_buffer", 60),
                          Variable("struct", "uniform", 1),
                          [Storage(0) EXCEPT !.set = Undecorated, !.binding = Undecorated],
                          [Block(0) EXCEPT !.set = Undecorated, !.binding = Undecorated],
                          [Storage(48) EXCEPT !.set = 1]}}
    \cup {With(1, Block(1)), With(1, Block(16)), With(7, Storage(49)),
          [With(2, Variable("sampled_image", "uniform_constant", 32)) EXCEPT !.uses = Tail(@)],
          [With(2, Variable("sampled_image", "uniform_constant", 32)) EXCEPT
             !.uses = <<Use(3, 5), Use(3, 6), Use(4, 0)>>],
          With(7, [Storage(0) EXCEPT !.binding = Undecorated]),
          With(2, [Texture(32) EXCEPT !.set = 1])}
    \cup {[Generate EXCEPT !.push = TRUE], [Generate EXCEPT !.specialised = TRUE],
          [Generate EXCEPT !.compute = FALSE], [Generate EXCEPT !.scan = "invalid_argument"],
          Module(<<>>, <<>>)}

-----------------------------------------------------------------------------
\* DLLs: two blocks of shaders from some id on, and an icon with the id of one.
NoShader == [magic |-> FALSE]
InHalf(generate) == <<Mipmaps, Mipmaps, generate, Estimate, EstimateFaster>>
Lower(shaders) == [k \in DOMAIN shaders |-> [shaders[k] EXCEPT !.float16 = TRUE]]

Language(id, data) == [named |-> FALSE, id |-> id, child |-> [inside |-> TRUE, data |-> data]]
Resource(id, data) ==
  [named |-> FALSE, id |-> id, child |-> [entries |-> <<Language(1033, data)>>]]
Type(id, resources) == [named |-> FALSE, id |-> id, child |-> [entries |-> resources]]

First == 7
Rc(shaders) == [k \in DOMAIN shaders |-> Resource(First + k - 1, shaders[k])]
Dll(entries) ==
  [header |-> "ok",
   directory |-> [entries |-> <<[named |-> TRUE, id |-> 0, child |-> [entries |-> <<>>]],
                                Type(3, <<Resource(First + 7, NoShader)>>), Type(10, entries)>>]]
LowFirst(generate) == Dll(Rc(Lower(InHalf(Generate)) \o InHalf(generate)))
HighFirst(generate) == Dll(Rc(InHalf(generate) \o Lower(InHalf(Generate))))
Original == LowFirst(Generate)

Shaders == Lower(InHalf(Generate)) \o InHalf(Generate)
Short(shaders) == SubSeq(shaders, 1, 4)

\* What is not the set the chain was written for.
Others ==
  { Dll(Rc(Tail(Shaders))), Dll(Rc(Shaders \o <<Mipmaps>>)), Dll(<<>>),
    Dll(Rc(Short(Lower(InHalf(Generate))) \o Short(InHalf(Generate)))),
    Dll(Rc(SubSeq(Shaders, 3, 8))),
    Dll(Rc(InHalf(Generate) \o InHalf(Generate))), Dll(Rc(Lower(Shaders))),
    Dll(Rc([Shaders EXCEPT ![6].float16 = TRUE])),
    Dll(Rc([k \in 1 .. 10 |-> [Shaders[k] EXCEPT !.float16 = k = 4]])),
    Dll([Rc(Shaders) EXCEPT ![10].id = 30]),
    Dll(Rc(Shaders) \o <<Resource(40, NoShader)>>),
    Dll(<<Resource(40, NoShader)>> \o Rc(Shaders)),
    Dll(<<Resource(First + 7, NoShader)>> \o Rc(Shaders)),
    Dll(Rc(Shaders) \o <<Resource(First + 7, NoShader)>>),
    Dll(Rc(Shaders) \o <<Resource(First + 7, Generate)>>),
    Dll(Reverse(Rc(Shaders))),
    Dll(<<[Language(9, NoShader) EXCEPT !.named = TRUE]>> \o Rc(Shaders)),
    Dll([Rc(Shaders) EXCEPT ![8].child.entries = Append(@, Language(1036, NoShader))]),
    Dll([Rc(Shaders) EXCEPT ![8].child.entries = <<Language(1031, NoShader)>> \o @]),
    Dll([Rc(Shaders) EXCEPT ![8].child.entries[1].child.inside = FALSE]),
    Dll([Rc(Shaders) EXCEPT ![8].child.entries[1].child = [entries |-> <<>>]]),
    Dll([Rc(Shaders) EXCEPT ![8].child = Language(1033, Generate).child]),
    [Original EXCEPT !.directory.entries[2] = Language(3, NoShader)],
    [Original EXCEPT !.header = "unsupported"] }

MCDlls ==
  {HighFirst(Generate)} \cup {LowFirst(g) : g \in {Generate} \cup Generates \cup Changed} \cup Others
MCMeasured == {LowFirst(GenerateOf(<<34, 32, 33>>, <<16, 17>>, InOrder))}

-----------------------------------------------------------------------------
\* Manifests that disagree with themselves in one place, as tests/backend_tests.cpp
\* makes them, of the chain without the estimates.
Placed(kind, slot, ordinal, sampler) ==
  [kind |-> kind, slot |-> slot, ordinal |-> ordinal, sampler |-> sampler]
Agreeing ==
  [images |-> GraphOf(<<4>>).images,
   generated |-> 1,
   uniforms |-> 1,
   variants |-> GraphOf(<<4>>).variants,
   dispatches |-> <<[name |-> "generate", block |-> 2, first |-> 4, count |-> 2]>>,
   passes |-> <<[block |-> 2, textures |-> 3, storages |-> 1, samplers |-> 2, uniforms |-> 1,
                 textureSlots |-> 3, loads |-> TRUE,
                 slots |-> <<Placed("uniform", 0, 0, None), Placed("texture", 0, 1, 0),
                             Placed("texture", 1, 0, 1), Placed("texture", 2, 2, 0),
                             Placed("storage", 0, 0, None)>>]>>]
Disagreeing ==
  {[Agreeing EXCEPT !.variants[4].textures = <<4, 5, 3>>],
   [Agreeing EXCEPT !.passes[1].slots[2].ordinal = 3],
   [Agreeing EXCEPT !.passes[1].loads = FALSE],
   [Agreeing EXCEPT !.images[5].bytes = 0],
   [Agreeing EXCEPT !.variants[4].samplers = <<1, 3>>],
   [Agreeing EXCEPT !.variants = Append(@, Variant(<<6>>, <<>>, <<0>>, None))]}

MCInherited == {Agreeing}
MCCaches == {Agreeing} \cup Disagreeing

=============================================================================

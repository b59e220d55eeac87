----------------------------- MODULE MCToolCall -----------------------------
(***************************************************************************)
(* An instance of ToolCall for TLC: a model of each kind that can be       *)
(* served, and of each that cannot, and one that only hosted APIs have;    *)
(* three GPUs, the smallest too small for the eight-bit weights and one    *)
(* without bandwidth, and a price for a fourth without specifications.     *)
(***************************************************************************)
EXTENDS ToolCall, ModelConfig, TLC

CONSTANTS dense, latent, keyless, sliding, sizeless, api, big, tiny, blind, ghost,
          q8, q4, chat, typo, acme

MCSlugs == {dense, latent, keyless, sliding, sizeless, api}

Dims == "num_hidden_layers" :> Number(5) @@ "num_attention_heads" :> Number(2)
     @@ "num_key_value_heads" :> Number(1) @@ "hidden_size" :> Number(4)
     @@ "max_position_embeddings" :> Number(8)

Latent == "kv_lora_rank" :> Number(1) @@ "qk_rope_head_dim" :> Number(1) @@ Dims

Config(name, fields) ==
    [body |-> "object", archs |-> [type |-> "names", names |-> <<name>>], fields |-> fields]

Spec1(params, strategy, keys, age) ==
    [params |-> params, kv |-> IF strategy = "mla" /\ ~keys THEN 0 ELSE 10,
     strategy |-> strategy, keys |-> keys, age |-> age]

MCArch ==
    dense    :> Spec1(8, "standard_gqa", FALSE, 1)
 @@ latent   :> Spec1(8, "mla", TRUE, 1)
 @@ keyless  :> Spec1(8, "mla", FALSE, 1)
 @@ sliding  :> Spec1(8, "sliding_window", FALSE, 1000)
 @@ sizeless :> Spec1(None, "standard_gqa", FALSE, 1)

\* They are what syncs of these configurations yield (written out above, since TLC
\* would compute them again and again).
ASSUME ArchIsProjected ==
    MCArch = dense    :> FromHfConfig(Config(<<"Llama", "ForCausalLM">>, Dims), 8, None, 1)
          @@ latent   :> FromHfConfig(Config(<<"DeepSeek", "V3">>, Latent), 8, None, 1)
          @@ keyless  :> FromHfConfig(Config(<<"Deepseek", "V3">>, Dims), 8, None, 1)
          @@ sliding  :> FromHfConfig(Config(<<"Mistral">>, Dims), 8, "sliding_window", 1000)
          @@ sizeless :> FromHfConfig(Config(<<"Qwen", "3", "Moe">>, Dims), None, None, 1)

\* The catalog for the resource: what can be served, and what cannot be computed.
TwoArch == dense :> MCArch[dense] @@ keyless :> MCArch[keyless]

MCQuants == q8 :> [bits |-> 8, kv_bits |-> 8] @@ q4 :> [bits |-> 4, kv_bits |-> 4]
MCWorkloads == chat :> [input |-> 3, output |-> 2]

Gpus == big   :> [vram |-> 24, bandwidth |-> 64]
     @@ tiny  :> [vram |-> 8, bandwidth |-> 32]
     @@ blind :> [vram |-> 24, bandwidth |-> 0]

GpuPrices ==
    {[provider |-> acme, gpu |-> x[1], hourly |-> x[2]] :
        x \in {<<big, 12>>, <<big, 0>>, <<tiny, 3>>, <<blind, 1>>, <<ghost, 1>>}}

HostedRow(m, input, output) == [provider |-> acme, model |-> m, input |-> input, output |-> output]
LlmPrices ==
    {HostedRow(dense, 1, 5), HostedRow(dense, None, 6), HostedRow(api, 2, 4), HostedRow(api, 2, None)}

MCContent ==
    [gpu_prices |-> (0 :> {} @@ 1 :> GpuPrices),
     llm_prices |-> (0 :> {} @@ 1 :> LlmPrices),
     gpus       |-> (0 :> <<>> @@ 1 :> Gpus),
     llm_models |-> (0 :> {} @@ 1 :> {dense, api})]

MCAge == 0 :> 100000 @@ 1 :> 1

Cheapest1(quant, batch, ctx, top) == [quant |-> quant, batch |-> batch, ctx |-> ctx, top |-> top]
MCCheapestArgs ==
    {Cheapest1(None, 1, 1, 2), Cheapest1(q8, 1, 4, 1), Cheapest1(None, 2, 1, 2),
     Cheapest1(q4, 0, 1, 2), Cheapest1(None, 1, 1, -1)}

Budget1(budget, load, quant, top) == [budget |-> budget, load |-> load, quant |-> quant, top |-> top]
MCBudgetArgs ==
    {Budget1(100, chat, None, 2), Budget1(7, chat, q4, 1), Budget1(0, chat, None, 2),
     Budget1(-1, chat, None, 2), Budget1(7, typo, None, 2)}

MCCompareArgs ==
    {[gpu |-> big, quant |-> q8, batch |-> 1, ctx |-> 1, load |-> chat],
     [gpu |-> blind, quant |-> q4, batch |-> 2, ctx |-> 4, load |-> chat],
     [gpu |-> typo, quant |-> q8, batch |-> 1, ctx |-> 1, load |-> chat],
     [gpu |-> big, quant |-> q8, batch |-> 1, ctx |-> 1, load |-> typo]}

Fit1(gpu, quant, tp, ctx) == [gpu |-> gpu, quant |-> quant, tp |-> tp, batch |-> 2, ctx |-> ctx]
MCFitArgs ==
    {Fit1(big, q8, 1, 4), Fit1(tiny, q8, 1, 1), Fit1(tiny, q8, 2, 4), Fit1(tiny, q4, 1, 4),
     Fit1(big, q8, 0, 1), Fit1(typo, q8, 1, 1)}
=============================================================================

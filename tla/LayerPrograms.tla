--------------------------- MODULE LayerPrograms ---------------------------
(***************************************************************************)
(* All layers, by the name of their BufferedContext, and the losses.       *)
(***************************************************************************)
EXTENDS ActivationLayers, GateLayers, NormLayers, DropoutLayers, MixLayers,
  LinearAttention, RecurrentLayers, SpaceCompress, LossLayers

Code ==
  ActivationLayerCode @@ GateLayerCode @@ NormLayerCode @@ DropoutLayerCode
    @@ MixLayerCode @@ AttentionLayerCode @@ RecurrentLayerCode
    @@ SpaceCompressLayerCode @@ LossLayerCode

=============================================================================

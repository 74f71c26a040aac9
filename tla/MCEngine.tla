------------------------------ MODULE MCEngine ------------------------------
(* One machine for every branch of the cascade: Windows with an NVIDIA card,  *)
(* whose build comes in two archives, asked for a source build or not; Linux  *)
(* with one, the same; macOS; Vulkan where upstream ships none; no GPU.       *)
EXTENDS Engine

MCMachines == {[system |-> "Windows", arch |-> "x64", accel |-> "cuda"],
               [system |-> "Windows", arch |-> "x64", accel |-> "cuda-build"],
               [system |-> "Linux", arch |-> "x64", accel |-> "cuda-build"],
               [system |-> "Linux", arch |-> "x64", accel |-> "cuda"],
               [system |-> "Darwin", arch |-> "arm64", accel |-> "metal"],
               [system |-> "Windows", arch |-> "arm64", accel |-> "vulkan"],
               [system |-> "Linux", arch |-> "x64", accel |-> "cpu"]}
=============================================================================

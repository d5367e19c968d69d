-------------------------- MODULE MC_DevpathRewrite --------------------------
(* Devpaths of a PCI network card and of a USB network adapter on bus 1  *)
(* ("/p/n" and "/u1/n" stand for /devices/pci0000:00/.../net and        *)
(* /devices/.../usb1/1-2/1-2:1.0/net); the kernel names eth0, usb0 and   *)
(* usb1 ("e0", "u0", "u1"), the cml name cmleth0 ("c0").                  *)
EXTENDS DevpathRewrite

MCParents == {<<"/", "p", "/", "n">>, <<"/", "u", "1", "/", "n">>}
MCIfNames == {<<"e", "0">>, <<"u", "0">>, <<"u", "1">>}
MCNewNames == {<<"c", "0">>}
=============================================================================
